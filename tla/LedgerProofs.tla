---------------------------- MODULE LedgerProofs ----------------------------
(***************************************************************************)
(* Proofs about Ledger, for any workers and amounts.  With any number of   *)
(* concurrent requests, any delays of the insert buffer and failures       *)
(* anywhere: balance rows conserve what was earned (RowsConserve), rewards *)
(* are marked after their payouts (ProcessedMeansPaid), and the types.     *)
(* With one request at a time on settled rows: the balances agree with the *)
(* books (BooksBalance), the ledger implements Account (LedgerRefined) and *)
(* nothing validated overdraws a balance (NoUnapprovedOverdraft).          *)
(***************************************************************************)
EXTENDS Ledger, SequenceTheorems, SumTheorems, TLAPS

(* RowsConserve is not inductive: it says nothing of the amounts a request *)
(* carries from one database call to the next.  The invariant adds that    *)
(* the changes still to be made conserve too, and that a balance read for  *)
(* an adjustment was a row of a worker nobody had edited.                  *)

ItemSeqs == Seq(Item) \ {<< >>}

\* Entered amounts are amounts of known workers.
KnownEntry == [book : {"earnings", "payouts"}, worker : Workers, amount : Nat,
               batch : Nat, by : Nat]

\* Steps, with changes that conserve.
SoundSteps ==
    [op : {"enter"}, book : {"earnings", "payouts"}, items : ItemSeqs]
    \union [op : {"adjust"}, worker : Workers, change : {b \in Balance : Conserves(b)}]
    \union [op : {"find", "alter"}, id : Nat \X Nat, amount : Nat]
    \union [op : {"check", "batch"}, items : ItemSeqs]
    \union [op : {"gate"}]
    \union [op : {"mark"}, rewards : SUBSET Rewards]
    \union [op : {"edit"}, worker : Workers, set : EditSets]

TypedRows ==
    /\ clock \in Nat
    /\ visible \in [Workers -> SUBSET Row]
    /\ buffered \in [Workers -> SUBSET Row]

TypedEntries ==
    /\ DOMAIN entries \subseteq Nat \X Nat
    /\ \A id \in DOMAIN entries : entries[id] \in KnownEntry
    /\ \A r \in Requests : ctx[r].by \in Nat /\ ctx[r].batch \in Nat

TypedWork ==
    /\ todo \in [Requests -> Seq(SoundSteps)]
    /\ seen \in [Requests -> Row \union {Unread}]
    /\ started \in Nat
    /\ DOMAIN ctx = Requests

\* A request holds a balance only between reading it and writing its successor.
ReadForStep ==
    \A r \in Requests : seen[r] # Unread => At(r, "adjust") \/ At(r, "edit")

SeenConserves ==
    \A r \in Requests :
        (seen[r] # Unread /\ At(r, "adjust") /\ Step(r).worker \notin edited)
            => Conserves(seen[r])

IInv ==
    /\ TypedRows /\ TypedEntries /\ TypedWork
    /\ ReadForStep /\ SeenConserves /\ RowsConserve
-----------------------------------------------------------------------------
(* Sequences of steps and of items.                                        *)

\* The two ends of a sequence that is not empty.
LEMMA Ends ==
    ASSUME NEW S, NEW s \in Seq(S), s # << >>
    PROVE  Head(s) \in S /\ Tail(s) \in Seq(S)
  BY HeadTailProperties

\* Sequences are built from elements and sequences of the same set.
LEMMA Built ==
    ASSUME NEW S, NEW x \in S, NEW s \in Seq(S)
    PROVE  << >> \in Seq(S) /\ <<x>> \in Seq(S) /\ <<x>> \o s \in Seq(S)
  OBVIOUS

\* Lists of items that requests arrive with.
LEMMA ListsAreItems == \A items \in ItemLists : items \in ItemSeqs
<1>1. ASSUME NEW i \in Item PROVE <<i>> \in ItemSeqs
  BY DEF ItemSeqs
<1>2. ASSUME NEW i \in Item, NEW j \in Item PROVE <<i, j>> \in ItemSeqs
  BY DEF ItemSeqs
<1>3. \A p \in Pairs : p \in ItemSeqs
  BY <1>2 DEF Pairs
<1> QED BY <1>1, <1>3 DEF ItemLists

\* An item names a worker and an amount.
LEMMA ItemParts ==
    ASSUME NEW item \in Item
    PROVE  item.worker \in Workers /\ item.amount \in Nat
<1>1. Amounts \subseteq Nat
  BY LedgerAssumption
<1> QED BY <1>1 DEF Item

\* A step of an operation is one of the records of that operation.
LEMMA StepKinds ==
    ASSUME NEW s \in SoundSteps
    PROVE  /\ s.op \in {"enter", "check", "batch"} => s.items \in ItemSeqs
           /\ s.op = "enter" => s.book \in {"earnings", "payouts"}
           /\ s.op = "adjust" => /\ s.worker \in Workers
                                 /\ s.change \in Balance /\ Conserves(s.change)
           /\ s.op \in {"find", "alter"} =>
                s.amount \in Nat /\ s.id \in Nat \X Nat
           /\ s.op = "mark" => s.rewards \in SUBSET Rewards
           /\ s.op = "edit" => s.worker \in Workers /\ s.set \in EditSets
  BY DEF SoundSteps

\* What an entry does to a balance conserves it.
LEMMA ChangesConserve ==
    ASSUME NEW book \in {"earnings", "payouts"}, NEW a \in Int
    PROVE  Change(book, a) \in Balance /\ Conserves(Change(book, a))
  BY DEF Change, Balance, Conserves

\* The constructors of steps make such steps.
LEMMA StepsMade ==
    /\ \A book \in {"earnings", "payouts"}, items \in ItemSeqs : Enter(book, items) \in SoundSteps
    /\ \A w \in Workers, c \in Balance : Conserves(c) => Adjust(w, c) \in SoundSteps
    /\ \A id \in Nat \X Nat, a \in Nat :
          Find(id, a) \in SoundSteps /\ Alter(id, a) \in SoundSteps
    /\ \A items \in ItemSeqs : Check(items) \in SoundSteps /\ InsertBatch(items) \in SoundSteps
    /\ Gate \in SoundSteps
    /\ \A rewards \in SUBSET Rewards : Mark(rewards) \in SoundSteps
    /\ \A w \in Workers, set \in EditSets : Edit(w, set) \in SoundSteps
  BY DEF Enter, Adjust, Find, Alter, Check, InsertBatch, Gate, Mark, Edit, SoundSteps
-----------------------------------------------------------------------------
(* The initial states, and the steps.                                      *)

\* Nothing is earned, owed or requested in the beginning.
LEMMA InitIInv == Init => IInv
<1> SUFFICES ASSUME Init PROVE IInv
  OBVIOUS
<1>1. TypedRows /\ RowsConserve
  BY DEF Init, TypedRows, RowsConserve
<1>2. TypedEntries
  BY DEF Init, TypedEntries
<1>3. TypedWork /\ ReadForStep /\ SeenConserves
  BY DEF Init, TypedWork, ReadForStep, SeenConserves
<1> QED BY <1>1, <1>2, <1>3 DEF IInv

\* What a query may answer for a worker is a row, one that conserves when
\* nobody has edited the worker's balance.
LEMMA AnswersConserve ==
    ASSUME IInv, NEW w \in Workers, NEW row \in Answers(w)
    PROVE  row \in Row /\ (w \notin edited => Conserves(row))
<1>1. CASE visible[w] = {}
  BY <1>1 DEF Answers, Fields, Row, Conserves
<1>2. CASE visible[w] # {}
  BY <1>2 DEF Answers, Newest, IInv, TypedRows, RowsConserve
<1> QED BY <1>1, <1>2

\* A request goes on to other sound steps, holding no balance: the rows, and
\* the balances the other requests hold, stay as they are.
LEMMA GoesOn ==
    ASSUME IInv, NEW r \in Requests, NEW steps \in Seq(SoundSteps),
           todo' = [todo EXCEPT ![r] = steps],
           seen' = [seen EXCEPT ![r] = Unread],
           UNCHANGED <<clock, visible, buffered, edited>>,
           TypedEntries', started' \in Nat, DOMAIN ctx' = Requests
    PROVE  IInv'
<1> USE DEF IInv
<1>1. TypedRows' /\ RowsConserve'
  BY DEF TypedRows, RowsConserve
<1>2. TypedWork'
  BY DEF TypedWork
<1>3. ASSUME NEW q \in Requests, seen'[q] # Unread
      PROVE  q # r /\ todo'[q] = todo[q] /\ seen'[q] = seen[q]
  BY <1>3 DEF TypedWork
<1>4. ReadForStep' /\ SeenConserves'
  BY <1>3 DEF ReadForStep, SeenConserves, At, Step
<1> QED BY <1>1, <1>2, <1>4

\* A new row that conserves, unless the worker is edited, keeps the rows sound.
LEMMA RowInserted ==
    ASSUME IInv, NEW w \in Workers, NEW b,
           b.unpaid \in Int, b.paid \in Int, b.total \in Int,
           w \notin edited' => Conserves(b),
           InsertRow(w, b), clock' = clock, edited \subseteq edited'
    PROVE  TypedRows' /\ RowsConserve'
<1> DEFINE row == [unpaid |-> b.unpaid, paid |-> b.paid, total |-> b.total, at |-> clock]
<1> USE DEF IInv
<1>1. row \in Row /\ (w \notin edited' => Conserves(row))
  BY DEF Row, TypedRows, Conserves
<1>2. CASE Settled
  <2>1. visible' = [visible EXCEPT ![w] = {row}] /\ buffered' = buffered
    BY <1>2 DEF InsertRow
  <2> QED BY <2>1, <1>1 DEF TypedRows, RowsConserve
<1>3. CASE ~Settled
  <2>1. buffered' = [buffered EXCEPT ![w] = @ \union {row}] /\ visible' = visible
    BY <1>3 DEF InsertRow
  <2> QED BY <2>1, <1>1 DEF TypedRows, RowsConserve
<1> QED BY <1>2, <1>3

\* The steps of the writer: a request with a balance in hand is done with its
\* step, behind rows that are sound.
LEMMA Wrote ==
    ASSUME IInv, NEW r \in Requests, todo[r] # << >>,
           todo' = [todo EXCEPT ![r] = Tail(todo[r])],
           seen' = [seen EXCEPT ![r] = Unread],
           TypedRows', RowsConserve', edited \subseteq edited',
           UNCHANGED <<entries, ctx, started>>
    PROVE  IInv'
<1> USE DEF IInv
<1>1. Tail(todo[r]) \in Seq(SoundSteps)
  BY Ends DEF TypedWork
<1>2. TypedWork' /\ TypedEntries'
  BY <1>1 DEF TypedWork, TypedEntries
<1>3. ASSUME NEW q \in Requests, seen'[q] # Unread
      PROVE  q # r /\ todo'[q] = todo[q] /\ seen'[q] = seen[q]
  BY <1>3 DEF TypedWork
<1>4. ReadForStep' /\ SeenConserves'
  BY <1>3 DEF ReadForStep, SeenConserves, At, Step
<1> QED BY <1>2, <1>4
-----------------------------------------------------------------------------
(* One step of a request.                                                  *)

\* A request that is not at an adjustment or an edit holds no balance.
LEMMA HoldsNothing ==
    ASSUME IInv, NEW r \in Requests, ~At(r, "adjust"), ~At(r, "edit")
    PROVE  seen[r] = Unread /\ seen = [seen EXCEPT ![r] = Unread]
  BY DEF IInv, ReadForStep, TypedWork

\* A request arrives with sound steps.
LEMMA BeginIInv ==
    ASSUME IInv, NEW r \in Requests, NEW override \in BOOLEAN,
           NEW steps \in Seq(SoundSteps), Begin(r, override, steps)
    PROVE  IInv'
<1>1. seen = [seen EXCEPT ![r] = Unread]
  BY HoldsNothing DEF Begin, At
<1>2. started' \in Nat /\ DOMAIN ctx' = Requests
  BY DEF Begin, IInv, TypedWork
<1>3. TypedEntries'
  BY DEF Begin, IInv, TypedWork, TypedEntries, tables
<1>4. todo' = [todo EXCEPT ![r] = steps]
  BY DEF Begin
<1>5. seen' = [seen EXCEPT ![r] = Unread]
  BY <1>1 DEF Begin
<1>6. UNCHANGED <<clock, visible, buffered, edited>>
  BY DEF Begin, tables, ghosts
<1> HIDE DEF IInv
<1> QED BY <1>2, <1>3, <1>4, <1>5, <1>6, GoesOn

\* Each of the requests that may arrive.
LEMMA ArriveIInv ==
    ASSUME IInv, NEW r \in Requests, Arrive(r)
    PROVE  IInv'
<1>1. ASSUME NEW items \in ItemLists, CreditEarnings(r, items) PROVE IInv'
  <2>1. Enter("earnings", items) \in SoundSteps
    BY ListsAreItems, StepsMade
  <2>2. <<Enter("earnings", items)>> \in Seq(SoundSteps)
    BY <2>1
  <2> QED BY <1>1, <2>2, BeginIInv DEF CreditEarnings
<1>2. ASSUME NEW id \in DOMAIN entries, NEW a \in Revisions, ReviseEntry(r, id, a)
      PROVE  IInv'
  <2>1. Find(id, a) \in SoundSteps
    BY StepsMade, LedgerAssumption DEF IInv, TypedEntries
  <2>2. <<Find(id, a)>> \in Seq(SoundSteps)
    BY <2>1
  <2> QED BY <1>2, <2>2, BeginIInv DEF ReviseEntry
<1>3. ASSUME NEW item \in Item, NEW override \in BOOLEAN, SinglePayout(r, item, override)
      PROVE  IInv'
  <2>1. <<item>> \in ItemSeqs
    BY DEF ItemSeqs
  <2>2. /\ Check(<<item>>) \in SoundSteps /\ Gate \in SoundSteps
        /\ Enter("payouts", <<item>>) \in SoundSteps
    BY <2>1, StepsMade
  <2>3. <<Check(<<item>>), Gate, Enter("payouts", <<item>>)>> \in Seq(SoundSteps)
    BY <2>2
  <2> QED BY <1>3, <2>3, BeginIInv DEF SinglePayout
<1>4. ASSUME NEW items \in ItemLists, NEW override \in BOOLEAN, NEW rewards \in SUBSET Rewards,
             BatchPayout(r, items, override, rewards)
      PROVE  IInv'
  <2>1. /\ Check(items) \in SoundSteps /\ Gate \in SoundSteps
        /\ InsertBatch(items) \in SoundSteps
        /\ Enter("payouts", items) \in SoundSteps /\ Mark(rewards) \in SoundSteps
    BY ListsAreItems, StepsMade
  <2>2. <<Check(items), Gate, InsertBatch(items), Enter("payouts", items), Mark(rewards)>>
           \in Seq(SoundSteps)
    BY <2>1
  <2> QED BY <1>4, <2>2, BeginIInv DEF BatchPayout
<1>5. ASSUME NEW w \in Workers, NEW set \in EditSets, EditBalance(r, w, set)
      PROVE  IInv'
  <2>1. <<Edit(w, set)>> \in Seq(SoundSteps)
    BY StepsMade
  <2> QED BY <1>5, <2>1, BeginIInv DEF EditBalance
<1> QED BY <1>1, <1>2, <1>3, <1>4, <1>5 DEF Arrive

\* What every step that leaves the balances alone has to show.
LEMMA WorksOn ==
    ASSUME IInv, NEW r \in Requests, ~At(r, "adjust"), ~At(r, "edit"),
           NEW steps \in Seq(SoundSteps), GoOn(r, steps),
           UNCHANGED <<clock, visible, buffered, edited, seen, started>>,
           TypedEntries', DOMAIN ctx' = Requests
    PROVE  IInv'
<1>1. seen' = [seen EXCEPT ![r] = Unread]
  BY HoldsNothing
<1>2. todo' = [todo EXCEPT ![r] = steps]
  BY DEF GoOn
<1>3. started' \in Nat
  BY DEF IInv, TypedWork
<1> QED BY <1>1, <1>2, <1>3, GoesOn

\* The step a request is at, and those behind it.
LEMMA AtStep ==
    ASSUME IInv, NEW r \in Requests, todo[r] # << >>
    PROVE  Step(r) \in SoundSteps /\ Tail(todo[r]) \in Seq(SoundSteps)
  BY Ends DEF IInv, TypedWork, Step

\* The validation of balances.
LEMMA DoCheckIInv ==
    ASSUME IInv, NEW r \in Requests, DoCheck(r)
    PROVE  IInv'
<1> DEFINE rest == Tail(Step(r).items)
           steps == (IF rest = << >> THEN << >> ELSE <<Check(rest)>>) \o Tail(todo[r])
<1>1. At(r, "check") /\ todo[r] # << >> /\ ~At(r, "adjust") /\ ~At(r, "edit")
  BY DEF DoCheck, At
<1>2. Step(r).items \in ItemSeqs /\ Tail(todo[r]) \in Seq(SoundSteps)
  BY <1>1, AtStep, StepKinds DEF At
<1>3. rest \in Seq(Item)
  BY <1>2, Ends DEF ItemSeqs
<1>4. steps \in Seq(SoundSteps)
  <2>1. CASE rest = << >>
    BY <2>1, <1>2
  <2>2. CASE rest # << >>
    <3>1. Check(rest) \in SoundSteps
      BY <2>2, <1>3, StepsMade DEF ItemSeqs
    <3> QED BY <3>1, <2>2, <1>2, Built
  <2> QED BY <2>1, <2>2
<1>5. DOMAIN ctx' = Requests /\ \A q \in Requests : ctx'[q].by = ctx[q].by
                                                /\ ctx'[q].batch = ctx[q].batch
  <2>1. PICK row \in Answers(Head(Step(r).items).worker) :
            ctx' = [ctx EXCEPT ![r].short = @ \/ row.unpaid < Head(Step(r).items).amount]
    BY DEF DoCheck
  <2> QED BY <2>1 DEF IInv, TypedWork
<1>6. TypedEntries'
  BY <1>5 DEF DoCheck, tables, IInv, TypedEntries
<1>7. GoOn(r, steps) /\ UNCHANGED <<clock, visible, buffered, edited, seen, started>>
  BY DEF DoCheck, tables, ghosts
<1> HIDE DEF steps
<1> QED BY <1>1, <1>4, <1>5, <1>6, <1>7, WorksOn

\* The gate, which ends the request or lets it pass.
LEMMA DoGateIInv ==
    ASSUME IInv, NEW r \in Requests, DoGate(r)
    PROVE  IInv'
<1> DEFINE steps == IF ctx[r].short /\ ~ctx[r].override THEN << >> ELSE Tail(todo[r])
<1>1. At(r, "gate") /\ todo[r] # << >> /\ ~At(r, "adjust") /\ ~At(r, "edit")
  BY DEF DoGate, At
<1>2. steps \in Seq(SoundSteps)
  BY <1>1, AtStep
<1>3. DOMAIN ctx' = Requests /\ \A q \in Requests : ctx'[q].by = ctx[q].by
                                                /\ ctx'[q].batch = ctx[q].batch
  BY DEF DoGate, IInv, TypedWork
<1>4. TypedEntries'
  BY <1>3 DEF DoGate, tables, IInv, TypedEntries
<1>5. GoOn(r, steps) /\ UNCHANGED <<clock, visible, buffered, edited, seen, started>>
  BY DEF DoGate, Done, tables, ghosts
<1> HIDE DEF steps
<1> QED BY <1>1, <1>2, <1>3, <1>4, <1>5, WorksOn

\* The batch row.
LEMMA DoBatchIInv ==
    ASSUME IInv, NEW r \in Requests, DoBatch(r)
    PROVE  IInv'
<1>1. At(r, "batch") /\ todo[r] # << >> /\ ~At(r, "adjust") /\ ~At(r, "edit")
  BY DEF DoBatch, At
<1>2. Tail(todo[r]) \in Seq(SoundSteps)
  BY <1>1, AtStep
<1>3. DOMAIN ctx' = Requests /\ \A q \in Requests : ctx'[q].by \in Nat /\ ctx'[q].batch \in Nat
  BY DEF DoBatch, IInv, TypedWork, TypedEntries, TypedRows
<1>4. TypedEntries'
  BY <1>3 DEF DoBatch, IInv, TypedEntries
<1>5. /\ GoOn(r, Tail(todo[r]))
      /\ UNCHANGED <<clock, visible, buffered, edited, seen, started>>
  BY DEF DoBatch, Done, ghosts
<1> QED BY <1>1, <1>2, <1>3, <1>4, <1>5, WorksOn

\* An entry, which owes its worker's balance a change that conserves.
LEMMA DoEnterIInv ==
    ASSUME IInv, NEW r \in Requests, DoEnter(r)
    PROVE  IInv'
<1> DEFINE s == Step(r)
           item == Head(s.items)
           rest == Tail(s.items)
           id == <<ctx[r].by, Len(s.items)>>
           e == [book |-> s.book, worker |-> item.worker, amount |-> item.amount,
                 batch |-> ctx[r].batch, by |-> ctx[r].by]
           change == Change(s.book, item.amount)
           after == (IF rest = << >> THEN << >> ELSE <<Enter(s.book, rest)>>) \o Tail(todo[r])
<1>1. At(r, "enter") /\ todo[r] # << >> /\ ~At(r, "adjust") /\ ~At(r, "edit")
  BY DEF DoEnter, At
<1>2. /\ s.items \in ItemSeqs /\ s.book \in {"earnings", "payouts"}
      /\ Tail(todo[r]) \in Seq(SoundSteps)
  BY <1>1, AtStep, StepKinds DEF At
<1>3. item \in Item /\ rest \in Seq(Item)
  BY <1>2, Ends DEF ItemSeqs
<1>4. item.worker \in Workers /\ item.amount \in Nat
  BY <1>3, ItemParts
<1>5. after \in Seq(SoundSteps)
  <2>1. CASE rest = << >>
    BY <2>1, <1>2
  <2>2. CASE rest # << >>
    <3>1. Enter(s.book, rest) \in SoundSteps
      BY <2>2, <1>2, <1>3, StepsMade DEF ItemSeqs
    <3> QED BY <3>1, <2>2, <1>2, Built
  <2> QED BY <2>1, <2>2
<1>6. Adjust(item.worker, change) \in SoundSteps
  BY <1>2, <1>4, ChangesConserve, StepsMade
<1>7. <<Adjust(item.worker, change)>> \o after \in Seq(SoundSteps)
  BY <1>5, <1>6, Built
<1>8. TypedEntries'
  <2>1. ctx' = ctx /\ entries' = [i \in DOMAIN entries \union {id} |->
                                     IF i = id THEN e ELSE entries[i]]
    BY DEF DoEnter
  <2>2. id \in Nat \X Nat
    BY <1>2, LenProperties DEF IInv, TypedEntries, ItemSeqs
  <2>3. e \in KnownEntry
    BY <1>2, <1>4 DEF IInv, TypedEntries, KnownEntry
  <2> HIDE DEF id, e
  <2> QED BY <2>1, <2>2, <2>3 DEF IInv, TypedEntries
<1>9. GoOn(r, <<Adjust(item.worker, change)>> \o after)
  BY DEF DoEnter
<1>10. /\ UNCHANGED <<clock, visible, buffered, edited, seen, started>>
       /\ DOMAIN ctx' = Requests
  BY DEF DoEnter, ghosts, IInv, TypedWork
<1> HIDE DEF after, change, item
<1> QED BY <1>1, <1>7, <1>8, <1>9, <1>10, WorksOn

\* An entry is found; the difference to its new amount conserves.
LEMMA DoFindIInv ==
    ASSUME IInv, NEW r \in Requests, DoFind(r)
    PROVE  IInv'
<1> DEFINE s == Step(r)
           e == entries[s.id]
           due == IF s.amount = e.amount THEN << >>
                  ELSE <<Adjust(e.worker, Change(e.book, s.amount - e.amount))>>
<1>1. At(r, "find") /\ todo[r] # << >> /\ ~At(r, "adjust") /\ ~At(r, "edit")
  BY DEF DoFind, At
<1>2. s.amount \in Nat /\ s.id \in Nat \X Nat
  BY <1>1, AtStep, StepKinds DEF At
<1>3. /\ UNCHANGED <<clock, visible, buffered, edited, seen, started>>
      /\ DOMAIN ctx' = Requests /\ TypedEntries'
  BY DEF DoFind, ghosts, tables, IInv, TypedWork, TypedEntries
<1>4. CASE s.id \notin DOMAIN entries
  <2>1. GoOn(r, << >>)
    BY <1>4 DEF DoFind
  <2>2. << >> \in Seq(SoundSteps)
    OBVIOUS
  <2> QED BY <2>1, <2>2, <1>1, <1>3, WorksOn
<1>5. CASE s.id \in DOMAIN entries
  <2>1. e.worker \in Workers /\ e.amount \in Nat /\ e.book \in {"earnings", "payouts"}
    BY <1>5 DEF IInv, TypedEntries, KnownEntry
  <2>2. Alter(s.id, s.amount) \in SoundSteps
    BY <1>2, StepsMade
  <2>3. due \in Seq(SoundSteps)
    <3>1. s.amount - e.amount \in Int
      BY <1>2, <2>1
    <3>2. Adjust(e.worker, Change(e.book, s.amount - e.amount)) \in SoundSteps
      BY <3>1, <2>1, ChangesConserve, StepsMade
    <3> QED BY <3>2, Built
  <2>4. GoOn(r, <<Alter(s.id, s.amount)>> \o due)
    BY <1>5 DEF DoFind
  <2> HIDE DEF due, e
  <2>5. <<Alter(s.id, s.amount)>> \o due \in Seq(SoundSteps)
    BY <2>2, <2>3, Built
  <2> QED BY <2>4, <2>5, <1>1, <1>3, WorksOn
<1> QED BY <1>4, <1>5

\* The entry is altered, or deleted.
LEMMA DoAlterIInv ==
    ASSUME IInv, NEW r \in Requests, DoAlter(r)
    PROVE  IInv'
<1> DEFINE s == Step(r)
           left == IF s.amount = 0 THEN DOMAIN entries \ {s.id} ELSE DOMAIN entries
<1>1. At(r, "alter") /\ todo[r] # << >> /\ ~At(r, "adjust") /\ ~At(r, "edit")
  BY DEF DoAlter, At
<1>2. s.amount \in Nat /\ Tail(todo[r]) \in Seq(SoundSteps)
  BY <1>1, AtStep, StepKinds DEF At
<1>3. /\ GoOn(r, Tail(todo[r])) /\ ctx' = ctx
      /\ UNCHANGED <<clock, visible, buffered, edited, seen, started>>
      /\ DOMAIN ctx' = Requests
  BY DEF DoAlter, Done, ghosts, IInv, TypedWork
<1>4. TypedEntries'
  <2>1. entries' = [i \in left |-> IF i = s.id THEN [entries[i] EXCEPT !.amount = s.amount]
                                   ELSE entries[i]]
    BY DEF DoAlter
  <2>2. left \subseteq DOMAIN entries
    OBVIOUS
  <2>3. ASSUME NEW i \in left
        PROVE  entries[i] \in KnownEntry /\ [entries[i] EXCEPT !.amount = s.amount] \in KnownEntry
    BY <2>2, <1>2 DEF IInv, TypedEntries, KnownEntry
  <2> HIDE DEF left, s
  <2> QED BY <2>1, <2>2, <2>3, <1>3 DEF IInv, TypedEntries
<1> QED BY <1>1, <1>2, <1>3, <1>4, WorksOn

\* A worker without a balance is not edited.
LEMMA EditNotFoundIInv ==
    ASSUME IInv, NEW r \in Requests, EditNotFound(r)
    PROVE  IInv'
<1>1. todo[r] # << >> /\ seen[r] = Unread
  BY DEF EditNotFound, At
<1>2. todo' = [todo EXCEPT ![r] = Tail(todo[r])] /\ Tail(todo[r]) \in Seq(SoundSteps)
  BY <1>1, AtStep DEF EditNotFound, Done, GoOn
<1>3. seen' = [seen EXCEPT ![r] = Unread]
  BY <1>1 DEF EditNotFound, IInv, TypedWork
<1>4. UNCHANGED <<clock, visible, buffered, edited, entries, ctx, started>>
  BY DEF EditNotFound, tables, ghosts
<1>5. TypedEntries' /\ started' \in Nat /\ DOMAIN ctx' = Requests
  BY <1>4 DEF IInv, TypedWork, TypedEntries
<1> QED BY <1>2, <1>3, <1>4, <1>5, GoesOn

\* A reward is marked.
LEMMA DoMarkIInv ==
    ASSUME IInv, NEW r \in Requests, DoMark(r)
    PROVE  IInv'
<1>1. At(r, "mark") /\ todo[r] # << >> /\ ~At(r, "adjust") /\ ~At(r, "edit")
  BY DEF DoMark, At
<1>2. Step(r).rewards \in SUBSET Rewards /\ Tail(todo[r]) \in Seq(SoundSteps)
  BY <1>1, AtStep, StepKinds DEF At
<1>3. /\ UNCHANGED <<clock, visible, buffered, edited, seen, started>>
      /\ DOMAIN ctx' = Requests /\ TypedEntries'
  BY DEF DoMark, ghosts, IInv, TypedWork, TypedEntries
<1>4. PICK steps \in Seq(SoundSteps) : GoOn(r, steps)
  <2>1. CASE Step(r).rewards = {}
    BY <2>1, <1>2 DEF DoMark, Done
  <2>2. CASE Step(r).rewards # {}
    <3>1. PICK reward \in Step(r).rewards :
              GoOn(r, <<Mark(Step(r).rewards \ {reward})>> \o Tail(todo[r]))
      BY <2>2 DEF DoMark
    <3>2. Mark(Step(r).rewards \ {reward}) \in SoundSteps
      BY <1>2, StepsMade
    <3>3. <<Mark(Step(r).rewards \ {reward})>> \o Tail(todo[r]) \in Seq(SoundSteps)
      BY <3>2, <1>2, Built
    <3> QED BY <3>1, <3>3
  <2> QED BY <2>1, <2>2
<1> QED BY <1>1, <1>3, <1>4, WorksOn

\* A balance is read: what it finds conserves, unless the worker was edited.
LEMMA ReadBalanceIInv ==
    ASSUME IInv, NEW r \in Requests, ReadBalance(r)
    PROVE  IInv'
<1> DEFINE w == Step(r).worker
<1>1. todo[r] # << >> /\ (At(r, "adjust") \/ At(r, "edit")) /\ w \in Workers
  <2>1. todo[r] # << >> /\ (At(r, "adjust") \/ At(r, "edit"))
    BY DEF ReadBalance, At
  <2> QED BY <2>1, AtStep, StepKinds DEF At
<1>2. PICK row \in Answers(w) : seen' = [seen EXCEPT ![r] = row]
  BY DEF ReadBalance
<1>3. row \in Row /\ (w \notin edited => Conserves(row))
  BY <1>1, <1>2, AnswersConserve
<1>4. UNCHANGED <<clock, visible, buffered, entries, todo, ctx, started, edited>>
  BY DEF ReadBalance, tables, ghosts
<1>5. TypedRows' /\ RowsConserve' /\ TypedEntries'
  BY <1>4 DEF IInv, TypedRows, RowsConserve, TypedEntries
<1>6. TypedWork'
  BY <1>2, <1>3, <1>4 DEF IInv, TypedWork
<1>7. ReadForStep' /\ SeenConserves'
  BY <1>1, <1>2, <1>3, <1>4 DEF IInv, TypedWork, ReadForStep, SeenConserves, At, Step
<1> QED BY <1>5, <1>6, <1>7 DEF IInv

\* A balance is written: the row read and the change owed both conserve.
LEMMA WriteBalanceIInv ==
    ASSUME IInv, NEW r \in Requests, WriteBalance(r)
    PROVE  IInv'
<1> DEFINE w == Step(r).worker
           new == Plus(seen[r], Step(r).change)
<1>1. todo[r] # << >> /\ At(r, "adjust") /\ seen[r] # Unread
  BY DEF WriteBalance, At
<1>2. w \in Workers /\ Step(r).change \in Balance /\ Conserves(Step(r).change)
  BY <1>1, AtStep, StepKinds DEF At
<1>3. seen[r] \in Row /\ (w \notin edited => Conserves(seen[r]))
  BY <1>1 DEF IInv, TypedWork, SeenConserves
<1>4. new.unpaid \in Int /\ new.paid \in Int /\ new.total \in Int
  BY <1>2, <1>3 DEF Plus, Row, Balance
<1>5. w \notin edited => Conserves(new)
  BY <1>2, <1>3 DEF Plus, Row, Balance, Conserves
<1>6. /\ InsertRow(w, new)
      /\ UNCHANGED <<clock, entries, ctx, started, edited>>
      /\ todo' = [todo EXCEPT ![r] = Tail(todo[r])]
      /\ seen' = [seen EXCEPT ![r] = Unread]
  BY DEF WriteBalance, Done, GoOn
<1> HIDE DEF new, w
<1>7. TypedRows' /\ RowsConserve'
  BY <1>2, <1>4, <1>5, <1>6, RowInserted
<1> QED BY <1>1, <1>6, <1>7, Wrote

\* A balance is edited: its worker is excused from then on.
LEMMA WriteEditIInv ==
    ASSUME IInv, NEW r \in Requests, WriteEdit(r)
    PROVE  IInv'
<1> DEFINE w == Step(r).worker
           set == Step(r).set
           new == [f \in Fields |-> IF f \in DOMAIN set THEN set[f] ELSE seen[r][f]]
<1>1. todo[r] # << >> /\ At(r, "edit") /\ seen[r] # Unread
  BY DEF WriteEdit, At
<1>2. w \in Workers /\ set \in EditSets
  BY <1>1, AtStep, StepKinds DEF At
<1>3. seen[r].unpaid \in Int /\ seen[r].paid \in Int /\ seen[r].total \in Int
  BY <1>1 DEF IInv, TypedWork, Row
<1>4. ASSUME NEW f \in DOMAIN set PROVE set[f] \in Int
  <2>1. PICK fields \in SUBSET Fields : set \in [fields -> Amounts]
    BY <1>2 DEF EditSets
  <2>2. Amounts \subseteq Int
    BY LedgerAssumption
  <2> QED BY <2>1, <2>2
<1>5. new.unpaid \in Int /\ new.paid \in Int /\ new.total \in Int
  BY <1>3, <1>4 DEF Fields
<1>6. /\ InsertRow(w, new) /\ edited' = edited \union {w}
      /\ UNCHANGED <<clock, entries, ctx, started>>
      /\ todo' = [todo EXCEPT ![r] = Tail(todo[r])]
      /\ seen' = [seen EXCEPT ![r] = Unread]
  BY DEF WriteEdit, Done, GoOn
<1> HIDE DEF new, w
<1>7. TypedRows' /\ RowsConserve'
  BY <1>2, <1>5, <1>6, RowInserted
<1> QED BY <1>1, <1>6, <1>7, Wrote

\* A request that fails drops what it was about to do.
LEMMA FailIInv ==
    ASSUME IInv, NEW r \in Requests, Fail(r)
    PROVE  IInv'
<1>1. << >> \in Seq(SoundSteps)
  OBVIOUS
<1>2. /\ todo' = [todo EXCEPT ![r] = << >>] /\ seen' = [seen EXCEPT ![r] = Unread]
      /\ UNCHANGED <<clock, visible, buffered, edited, entries, ctx, started>>
  BY DEF Fail, tables
<1>3. TypedEntries' /\ started' \in Nat /\ DOMAIN ctx' = Requests
  BY <1>2 DEF IInv, TypedWork, TypedEntries
<1> QED BY <1>1, <1>2, <1>3, GoesOn

\* A buffered row becomes visible.
LEMMA FlushIInv ==
    ASSUME IInv, NEW w \in Workers, NEW row \in buffered[w], Flush(w, row)
    PROVE  IInv'
<1>1. /\ buffered' = [buffered EXCEPT ![w] = @ \ {row}]
      /\ visible' = [visible EXCEPT ![w] = Newest(@ \union {row})]
      /\ UNCHANGED <<clock, entries, todo, seen, ctx, started, edited>>
  BY DEF Flush, ghosts
<1>2. Newest(visible[w] \union {row}) \subseteq visible[w] \union {row}
  BY DEF Newest
<1>3. TypedRows' /\ RowsConserve'
  BY <1>1, <1>2 DEF IInv, TypedRows, RowsConserve
<1>4. TypedEntries' /\ TypedWork' /\ ReadForStep' /\ SeenConserves'
  BY <1>1 DEF IInv, TypedEntries, TypedWork, ReadForStep, SeenConserves, At, Step
<1> QED BY <1>3, <1>4 DEF IInv

\* Time passes, or nothing happens.
LEMMA IdleIInv ==
    ASSUME IInv, Tick \/ UNCHANGED vars
    PROVE  IInv'
<1>1. /\ UNCHANGED <<visible, buffered, entries, todo, seen, ctx, started, edited>>
      /\ clock' \in Nat
  BY DEF Tick, vars, tables, ghosts, IInv, TypedRows
<1>2. TypedRows' /\ RowsConserve'
  BY <1>1 DEF IInv, TypedRows, RowsConserve
<1>3. TypedEntries' /\ TypedWork' /\ ReadForStep' /\ SeenConserves'
  BY <1>1 DEF IInv, TypedEntries, TypedWork, ReadForStep, SeenConserves, At, Step
<1> QED BY <1>2, <1>3 DEF IInv

\* Every step of every request.
LEMMA NextIInv == IInv /\ [Next]_vars => IInv'
<1> SUFFICES ASSUME IInv, [Next]_vars PROVE IInv'
  OBVIOUS
<1>1. ASSUME NEW r \in Requests, Work(r) PROVE IInv'
  BY <1>1, DoCheckIInv, DoGateIInv, DoBatchIInv, DoEnterIInv, DoFindIInv, DoAlterIInv,
     ReadBalanceIInv, EditNotFoundIInv, WriteBalanceIInv, WriteEditIInv, DoMarkIInv
  DEF Work
<1>2. ASSUME NEW r \in Requests, Arrive(r) \/ Fail(r) PROVE IInv'
  BY <1>2, ArriveIInv, FailIInv
<1>3. ASSUME NEW w \in Workers, NEW row \in buffered[w], Flush(w, row) PROVE IInv'
  BY <1>3, FlushIInv
<1>4. CASE Tick \/ UNCHANGED vars
  BY <1>4, IdleIInv
<1> QED BY <1>1, <1>2, <1>3, <1>4 DEF Next
-----------------------------------------------------------------------------
\* The inductive invariant holds throughout.
THEOREM LedgerInvariance == Spec => []IInv
  BY InitIInv, NextIInv, PTL DEF Spec

\* Every balance row of a worker nobody edited has unpaid + paid = total: for
\* any number of requests racing on stale rows and failing half-way.  A race
\* loses whole entries, never one side of one.
THEOREM RowsAlwaysConserve == Spec => []RowsConserve
<1>1. IInv => RowsConserve
  BY DEF IInv
<1> QED BY <1>1, LedgerInvariance, PTL
-----------------------------------------------------------------------------
(* Marking rewards.                                                        *)

(* ProcessedMeansPaid is not inductive: the invariant adds where in its    *)
(* list of steps a request marks rewards, and that no two requests have a  *)
(* serial number in common.                                                *)

\* Marking rewards is the last thing a request does ...
MarkIsLast(steps) == \A i \in 1..(Len(steps) - 1) : steps[i].op # "mark"

\* ... and the only thing it still does once it has marked one.
OnlyMarks(steps) == \A i \in 1..Len(steps) : steps[i].op = "mark"

Marked(r) == \E p \in processed : p.by = ctx[r].by

SerialsAreOwn ==
    /\ \A p \in processed : p.by \in 1..started
    /\ \A r \in Requests : ctx[r].by \in 0..started
    /\ \A r, q \in Requests : r # q /\ ctx[r].by = ctx[q].by => ctx[r].by = 0
    /\ \A r \in Requests : todo[r] # << >> => ctx[r].by # 0

PInv ==
    /\ IInv /\ started \in Nat /\ SerialsAreOwn
    /\ \A r \in Requests : MarkIsLast(todo[r]) /\ (Marked(r) => OnlyMarks(todo[r]))
-----------------------------------------------------------------------------
(* Lists of steps.                                                         *)

LEMMA TailOfSteps ==
    ASSUME NEW S, NEW s \in Seq(S), s # << >>, MarkIsLast(s)
    PROVE  MarkIsLast(Tail(s)) /\ (s[1].op = "mark" => Tail(s) = << >>)
<1>1. /\ Len(s) \in Nat \ {0} /\ Tail(s) \in Seq(S) /\ Len(Tail(s)) = Len(s) - 1
      /\ \A i \in 1..(Len(s) - 1) : Tail(s)[i] = s[i + 1]
  OBVIOUS
<1>2. MarkIsLast(Tail(s))
  BY <1>1 DEF MarkIsLast
<1>3. ASSUME s[1].op = "mark" PROVE Len(Tail(s)) = 0
  BY <1>1, <1>3 DEF MarkIsLast
<1> QED
  BY <1>1, <1>2, <1>3

LEMMA OneMore ==
    ASSUME NEW S, NEW s \in Seq(S), MarkIsLast(s), NEW x \in S, x.op # "mark"
    PROVE  <<x>> \o s \in Seq(S) /\ MarkIsLast(<<x>> \o s)
<1> DEFINE more == <<x>> \o s
<1>1. more \in Seq(S) /\ Len(more) = Len(s) + 1 /\ Len(s) \in Nat /\ more[1] = x
  OBVIOUS
<1>2. \A i \in 1..Len(s) : more[i + 1] = s[i]
  OBVIOUS
<1>3. ASSUME NEW i \in 1..(Len(more) - 1) PROVE more[i].op # "mark"
  <2>1. CASE i = 1
    BY <1>1, <2>1
  <2>2. CASE i # 1
    <3>1. i - 1 \in 1..(Len(s) - 1) /\ more[i] = s[i - 1]
      BY <1>1, <1>2, <2>2
    <3> QED
      BY <3>1 DEF MarkIsLast
  <2> QED
    BY <2>1, <2>2
<1> QED
  BY <1>1, <1>3 DEF MarkIsLast

LEMMA ShortLists ==
    /\ MarkIsLast(<< >>) /\ OnlyMarks(<< >>)
    /\ \A x : MarkIsLast(<<x>>) /\ (x.op = "mark" => OnlyMarks(<<x>>))
  BY DEF MarkIsLast, OnlyMarks

\* Which steps are marks.
LEMMA Operations ==
    /\ \A book, items : Enter(book, items).op = "enter"
    /\ \A w, c : Adjust(w, c).op = "adjust" /\ Edit(w, c).op = "edit"
    /\ \A id, a : Find(id, a).op = "find" /\ Alter(id, a).op = "alter"
    /\ \A items : Check(items).op = "check" /\ InsertBatch(items).op = "batch"
    /\ \A rewards : Mark(rewards).op = "mark"
    /\ Gate.op = "gate"
  BY DEF Enter, Adjust, Edit, Find, Alter, Check, InsertBatch, Mark, Gate
-----------------------------------------------------------------------------
(* What a step does to the lists.                                          *)

\* A request that is not at a mark has marked nothing.
LEMMA Unmarked ==
    ASSUME PInv, NEW r \in Requests, todo[r] # << >>, Step(r).op # "mark"
    PROVE  ~Marked(r)
<1>1. todo[r] \in Seq(SoundSteps)
  BY DEF PInv, IInv, TypedWork
<1>2. Len(todo[r]) \in Nat \ {0} /\ Step(r) = todo[r][1]
  BY <1>1 DEF Step
<1> QED
  BY <1>2 DEF PInv, OnlyMarks

\* A step that marks nothing, of a request that has marked nothing.
LEMMA GoesOnUnmarked ==
    ASSUME PInv, IInv', NEW r \in Requests, ~Marked(r), todo[r] # << >>,
           NEW steps, MarkIsLast(steps), todo' = [todo EXCEPT ![r] = steps],
           started' = started, processed' = processed,
           \A q \in Requests : ctx'[q].by = ctx[q].by
    PROVE  PInv'
<1>1. SerialsAreOwn'
  BY DEF PInv, SerialsAreOwn, IInv, TypedWork
<1>2. ASSUME NEW q \in Requests
      PROVE  MarkIsLast(todo'[q]) /\ (Marked(q)' => OnlyMarks(todo'[q]))
  <2>1. CASE q = r
    BY <2>1 DEF PInv, IInv, TypedWork, Marked
  <2>2. CASE q # r
    BY <2>2 DEF PInv, IInv, TypedWork, Marked
  <2> QED
    BY <2>1, <2>2
<1> QED
  BY <1>1, <1>2 DEF PInv

\* A step that touches no list and marks nothing.
LEMMA ListsStay ==
    ASSUME PInv, IInv', UNCHANGED <<todo, started, processed, ctx>>
    PROVE  PInv'
  BY DEF PInv, SerialsAreOwn, Marked

LEMMA BeginPInv ==
    ASSUME PInv, IInv', NEW r \in Requests, NEW override \in BOOLEAN,
           NEW steps, MarkIsLast(steps), Begin(r, override, steps)
    PROVE  PInv'
<1>1. /\ started' = started + 1 /\ processed' = processed
      /\ todo' = [todo EXCEPT ![r] = steps]
      /\ ctx'[r].by = started + 1 /\ \A q \in Requests \ {r} : ctx'[q].by = ctx[q].by
  BY DEF Begin, tables, PInv, IInv, TypedWork
<1>2. SerialsAreOwn'
  <2>1. \A q \in Requests \ {r} : todo'[q] = todo[q]
    BY <1>1 DEF PInv, IInv, TypedWork
  <2>2. started \in Nat /\ SerialsAreOwn
    BY DEF PInv
  <2>3. \A p \in processed' : p.by \in 1..started'
    BY <1>1, <2>2 DEF SerialsAreOwn
  <2>4. ASSUME NEW q \in Requests
        PROVE  ctx'[q].by \in 0..started' /\ (todo'[q] # << >> => ctx'[q].by # 0)
    BY <1>1, <2>1, <2>2 DEF SerialsAreOwn
  <2>5. ASSUME NEW p \in Requests, NEW q \in Requests, p # q, ctx'[p].by = ctx'[q].by
        PROVE  ctx'[p].by = 0
    BY <1>1, <2>2, <2>5 DEF SerialsAreOwn
  <2> QED
    BY <2>3, <2>4, <2>5 DEF SerialsAreOwn
<1>3. ASSUME NEW q \in Requests
      PROVE  MarkIsLast(todo'[q]) /\ (Marked(q)' => OnlyMarks(todo'[q]))
  <2>1. CASE q = r
    <3>1. ~Marked(r)'
      BY <1>1 DEF Marked, PInv, SerialsAreOwn
    <3> QED
      BY <1>1, <2>1, <3>1 DEF PInv, IInv, TypedWork
  <2>2. CASE q # r
    BY <1>1, <2>2 DEF PInv, IInv, TypedWork, Marked
  <2> QED
    BY <2>1, <2>2
<1> QED
  BY <1>1, <1>2, <1>3 DEF PInv

LEMMA ArrivePInv ==
    ASSUME PInv, IInv', NEW r \in Requests, Arrive(r)
    PROVE  PInv'
<1>1. CASE \E items \in ItemLists : CreditEarnings(r, items)
  BY <1>1, ShortLists, BeginPInv DEF CreditEarnings
<1>2. CASE \E id \in DOMAIN entries, a \in Revisions : ReviseEntry(r, id, a)
  BY <1>2, ShortLists, BeginPInv DEF ReviseEntry
<1>3. ASSUME NEW item \in Item, NEW override \in BOOLEAN, SinglePayout(r, item, override)
      PROVE  PInv'
  <2>1. MarkIsLast(<<Check(<<item>>), Gate, Enter("payouts", <<item>>)>>)
    BY Operations DEF MarkIsLast
  <2> QED
    BY <1>3, <2>1, BeginPInv DEF SinglePayout
<1>4. ASSUME NEW items \in ItemLists, NEW override \in BOOLEAN, NEW rewards \in SUBSET Rewards,
             BatchPayout(r, items, override, rewards)
      PROVE  PInv'
  <2>1. MarkIsLast(<<Check(items), Gate, InsertBatch(items), Enter("payouts", items),
                     Mark(rewards)>>)
    BY Operations DEF MarkIsLast
  <2> QED
    BY <1>4, <2>1, BeginPInv DEF BatchPayout
<1>5. CASE \E w \in Workers, set \in EditSets : EditBalance(r, w, set)
  BY <1>5, ShortLists, BeginPInv DEF EditBalance
<1> QED
  BY <1>1, <1>2, <1>3, <1>4, <1>5 DEF Arrive
-----------------------------------------------------------------------------
(* The steps.                                                              *)

\* The first step of a list that a request has not marked anything with, and
\* what it goes on to.
LEMMA NextSteps ==
    ASSUME PInv, NEW r \in Requests, todo[r] # << >>
    PROVE  /\ Tail(todo[r]) \in Seq(SoundSteps) /\ MarkIsLast(Tail(todo[r]))
           /\ Step(r) \in SoundSteps
           /\ Step(r).op = "mark" => Tail(todo[r]) = << >>
           /\ Step(r).op # "mark" => ~Marked(r)
<1>1. todo[r] \in Seq(SoundSteps) /\ MarkIsLast(todo[r])
  BY DEF PInv, IInv, TypedWork
<1>2. Step(r) = todo[r][1]
  BY <1>1 DEF Step
<1> QED
  BY <1>1, <1>2, TailOfSteps, AtStep, Unmarked DEF PInv

\* Every step that leaves a request the rest of its list, or nothing.
LEMMA RestPInv ==
    ASSUME PInv, IInv', NEW r \in Requests, todo[r] # << >>, Step(r).op # "mark",
           GoOn(r, << >>) \/ Done(r), started' = started, processed' = processed,
           \A q \in Requests : ctx'[q].by = ctx[q].by
    PROVE  PInv'
  BY NextSteps, ShortLists, GoesOnUnmarked DEF GoOn, Done

LEMMA DoCheckPInv ==
    ASSUME PInv, IInv', NEW r \in Requests, DoCheck(r)
    PROVE  PInv'
<1> DEFINE rest == Tail(Step(r).items)
           first == IF rest = << >> THEN << >> ELSE <<Check(rest)>>
<1>1. /\ todo[r] # << >> /\ Step(r).op = "check" /\ GoOn(r, first \o Tail(todo[r]))
      /\ started' = started /\ processed' = processed
  BY DEF DoCheck, At, tables
<1>2. \A q \in Requests : ctx'[q].by = ctx[q].by
  BY DEF DoCheck, PInv, IInv, TypedWork
<1>3. MarkIsLast(first \o Tail(todo[r]))
  <2>1. CASE rest = << >>
    <3>1. first \o Tail(todo[r]) = Tail(todo[r])
      BY <1>1, <2>1, NextSteps
    <3> QED
      BY <1>1, <3>1, NextSteps
  <2>2. CASE rest # << >>
    <3>1. Step(r).items \in ItemSeqs
      BY <1>1, NextSteps, StepKinds
    <3>2. rest \in ItemSeqs
      BY <2>2, <3>1 DEF ItemSeqs
    <3>3. Check(rest) \in SoundSteps /\ Check(rest).op # "mark"
      BY <3>2, StepsMade, Operations
    <3> HIDE DEF rest
    <3> QED
      BY <1>1, <2>2, <3>3, NextSteps, OneMore
  <2> QED
    BY <2>1, <2>2
<1> HIDE DEF first
<1> QED
  BY <1>1, <1>2, <1>3, NextSteps, GoesOnUnmarked DEF GoOn

LEMMA DoEnterPInv ==
    ASSUME PInv, IInv', NEW r \in Requests, DoEnter(r)
    PROVE  PInv'
<1> DEFINE s == Step(r)
           rest == Tail(s.items)
           later == (IF rest = << >> THEN << >> ELSE <<Enter(s.book, rest)>>) \o Tail(todo[r])
           adjust == Adjust(Head(s.items).worker, Change(s.book, Head(s.items).amount))
<1>1. /\ todo[r] # << >> /\ s.op = "enter" /\ GoOn(r, <<adjust>> \o later)
      /\ started' = started /\ processed' = processed /\ ctx' = ctx
  BY DEF DoEnter, At
<1>2. s.items \in ItemSeqs /\ s.book \in {"earnings", "payouts"}
  BY <1>1, NextSteps, StepKinds
<1>3. later \in Seq(SoundSteps) /\ MarkIsLast(later)
  <2>1. CASE rest = << >>
    <3>1. later = Tail(todo[r])
      BY <1>1, <2>1, NextSteps
    <3> QED
      BY <1>1, <3>1, NextSteps
  <2>2. CASE rest # << >>
    <3>1. rest \in ItemSeqs
      BY <2>2, <1>2 DEF ItemSeqs
    <3>2. Enter(s.book, rest) \in SoundSteps /\ Enter(s.book, rest).op # "mark"
      BY <1>2, <3>1, StepsMade, Operations
    <3> HIDE DEF rest, s
    <3> QED
      BY <1>1, <2>2, <3>2, NextSteps, OneMore
  <2> QED
    BY <2>1, <2>2
<1>4. adjust \in SoundSteps /\ adjust.op # "mark"
  <2>1. Head(s.items) \in Item
    BY <1>2, Ends DEF ItemSeqs
  <2> QED
    BY <1>2, <2>1, ItemParts, ChangesConserve, StepsMade, Operations
<1> HIDE DEF adjust, later
<1>5. MarkIsLast(<<adjust>> \o later)
  BY <1>3, <1>4, OneMore
<1> QED
  BY <1>1, <1>5, NextSteps, GoesOnUnmarked DEF GoOn

LEMMA DoFindPInv ==
    ASSUME PInv, IInv', NEW r \in Requests, DoFind(r)
    PROVE  PInv'
<1> DEFINE s == Step(r)
           e == entries[s.id]
           adjust == Adjust(e.worker, Change(e.book, s.amount - e.amount))
<1>1. /\ todo[r] # << >> /\ s.op = "find"
      /\ started' = started /\ processed' = processed /\ ctx' = ctx
  BY DEF DoFind, At, tables
<1>2. \/ GoOn(r, << >>) \/ GoOn(r, <<Alter(s.id, s.amount)>> \o << >>)
      \/ GoOn(r, <<Alter(s.id, s.amount)>> \o <<adjust>>)
  BY DEF DoFind
<1>3. <<Alter(s.id, s.amount)>> \o << >> = <<Alter(s.id, s.amount)>>
  OBVIOUS
<1>4. MarkIsLast(<<Alter(s.id, s.amount)>> \o <<adjust>>)
  BY Operations DEF MarkIsLast
<1> QED
  BY <1>1, <1>2, <1>3, <1>4, ShortLists, NextSteps, GoesOnUnmarked DEF GoOn

\* The steps that go on with the rest of the list.
LEMMA OtherStepsPInv ==
    ASSUME PInv, IInv', NEW r \in Requests,
           \/ DoGate(r) \/ DoBatch(r) \/ DoAlter(r)
           \/ EditNotFound(r) \/ WriteBalance(r) \/ WriteEdit(r)
    PROVE  PInv'
<1>1. todo[r] # << >> /\ Step(r).op # "mark"
  BY DEF DoGate, DoBatch, DoAlter, EditNotFound, WriteBalance, WriteEdit, At
<1>2. (GoOn(r, << >>) \/ Done(r)) /\ started' = started /\ processed' = processed
  BY DEF DoGate, DoBatch, DoAlter, EditNotFound, WriteBalance, WriteEdit, tables
<1>3. \A q \in Requests : ctx'[q].by = ctx[q].by
  <2>1. CASE DoGate(r)
    BY <2>1 DEF DoGate, PInv, IInv, TypedWork
  <2>2. CASE DoBatch(r)
    BY <2>2 DEF DoBatch, PInv, IInv, TypedWork
  <2>3. CASE DoAlter(r) \/ EditNotFound(r) \/ WriteBalance(r) \/ WriteEdit(r)
    BY <2>3 DEF DoAlter, EditNotFound, WriteBalance, WriteEdit
  <2> QED
    BY <2>1, <2>2, <2>3
<1> QED
  BY <1>1, <1>2, <1>3, RestPInv

\* A request marks a reward, and has only more rewards to mark.
LEMMA DoMarkPInv ==
    ASSUME PInv, IInv', NEW r \in Requests, DoMark(r)
    PROVE  PInv'
<1>1. /\ todo[r] # << >> /\ Tail(todo[r]) = << >>
      /\ started' = started /\ ctx' = ctx
  BY NextSteps DEF DoMark, At
<1>2. PICK steps : /\ todo' = [todo EXCEPT ![r] = steps]
                   /\ MarkIsLast(steps) /\ OnlyMarks(steps)
  <2>1. CASE Step(r).rewards = {}
    BY <1>1, <2>1, ShortLists DEF DoMark, Done, GoOn
  <2>2. CASE Step(r).rewards # {}
    <3>1. PICK reward \in Step(r).rewards :
            todo' = [todo EXCEPT ![r] = <<Mark(Step(r).rewards \ {reward})>> \o << >>]
      BY <1>1, <2>2 DEF DoMark, GoOn
    <3>2. <<Mark(Step(r).rewards \ {reward})>> \o << >> = <<Mark(Step(r).rewards \ {reward})>>
      OBVIOUS
    <3> QED
      BY <3>1, <3>2, ShortLists, Operations
  <2> QED
    BY <2>1, <2>2
<1>3. \A p \in processed' : p \in processed \/ p.by = ctx[r].by
  <2>1. \/ processed' = processed
        \/ \E reward : processed' = processed \union {[reward |-> reward, by |-> ctx[r].by]}
    BY DEF DoMark
  <2> QED
    BY <2>1
<1>4. ctx[r].by \in 1..started
  BY <1>1 DEF PInv, SerialsAreOwn
<1>5. SerialsAreOwn'
  BY <1>1, <1>2, <1>3, <1>4 DEF PInv, SerialsAreOwn, IInv, TypedWork
<1>6. ASSUME NEW q \in Requests
      PROVE  MarkIsLast(todo'[q]) /\ (Marked(q)' => OnlyMarks(todo'[q]))
  <2>1. CASE q = r
    BY <1>2, <2>1 DEF PInv, IInv, TypedWork
  <2>2. CASE q # r
    <3>1. todo'[q] = todo[q]
      BY <1>2, <2>2 DEF PInv, IInv, TypedWork
    <3>2. ctx[q].by # ctx[r].by
      BY <1>4, <2>2 DEF PInv, SerialsAreOwn
    <3>3. Marked(q)' => Marked(q)
      BY <1>1, <1>3, <3>2 DEF Marked
    <3> QED
      BY <3>1, <3>3 DEF PInv
  <2> QED
    BY <2>1, <2>2
<1> QED
  BY <1>1, <1>5, <1>6 DEF PInv

\* A request that fails does nothing any more.
LEMMA FailPInv ==
    ASSUME PInv, IInv', NEW r \in Requests, Fail(r)
    PROVE  PInv'
<1>1. /\ todo' = [todo EXCEPT ![r] = << >>]
      /\ UNCHANGED <<started, processed, ctx>>
  BY DEF Fail, tables
<1>2. SerialsAreOwn'
  BY <1>1 DEF PInv, SerialsAreOwn, IInv, TypedWork
<1>3. \A q \in Requests : MarkIsLast(todo'[q]) /\ (Marked(q)' => OnlyMarks(todo'[q]))
  BY <1>1, ShortLists DEF PInv, IInv, TypedWork, Marked
<1> QED
  BY <1>1, <1>2, <1>3 DEF PInv
-----------------------------------------------------------------------------
LEMMA InitPInv == Init => PInv
<1> SUFFICES ASSUME Init PROVE PInv
  OBVIOUS
<1>1. SerialsAreOwn
  BY DEF Init, SerialsAreOwn
<1>2. started \in Nat /\ \A r \in Requests : MarkIsLast(todo[r]) /\ OnlyMarks(todo[r])
  BY ShortLists DEF Init
<1> QED
  BY <1>1, <1>2, InitIInv DEF PInv

\* Every step of every request.
LEMMA NextPInv == PInv /\ [Next]_vars => PInv'
<1> SUFFICES ASSUME PInv, [Next]_vars PROVE PInv'
  OBVIOUS
<1>1. IInv'
  BY NextIInv DEF PInv
<1>2. ASSUME NEW r \in Requests, Work(r) PROVE PInv'
  <2>1. CASE ReadBalance(r)
    BY <1>1, <2>1, ListsStay DEF ReadBalance, tables
  <2> QED
    BY <1>1, <1>2, <2>1, DoCheckPInv, DoEnterPInv, DoFindPInv, OtherStepsPInv, DoMarkPInv
    DEF Work
<1>3. ASSUME NEW r \in Requests, Arrive(r) \/ Fail(r) PROVE PInv'
  BY <1>1, <1>3, ArrivePInv, FailPInv
<1>4. CASE \/ \E w \in Workers : \E row \in buffered[w] : Flush(w, row)
           \/ Tick \/ UNCHANGED vars
  BY <1>1, <1>4, ListsStay DEF Flush, Tick, vars, tables
<1> QED
  BY <1>2, <1>3, <1>4 DEF Next
-----------------------------------------------------------------------------
\* A request never marks a reward processed before it has entered its last
\* payout and brought it to the balance, and never enters another one after
\* (create_batch_payout): whatever runs at the same time, and wherever requests
\* fail.
THEOREM PaidBeforeProcessed == Spec => []ProcessedMeansPaid
<1>1. PInv => ProcessedMeansPaid
  <2> SUFFICES ASSUME PInv, NEW r \in Requests, Marked(r), NEW i \in DOMAIN todo[r]
               PROVE  todo[r][i].op \notin {"enter", "adjust"}
    BY DEF ProcessedMeansPaid, Marked
  <2>1. todo[r] \in Seq(SoundSteps)
    BY DEF PInv, IInv, TypedWork
  <2> QED
    BY <2>1 DEF PInv, OnlyMarks
<1> QED
  BY <1>1, InitPInv, NextPInv, PTL DEF Spec
-----------------------------------------------------------------------------
(* Types: what LedgerInvariance leaves of them.                            *)

TypedRest ==
    /\ clock \in 1..MaxClock
    /\ batches \subseteq [id : Nat, by : Nat]
    /\ processed \subseteq [reward : Rewards, by : Nat]
    /\ ctx \in [Requests -> [by : Nat, batch : Nat, override : BOOLEAN,
                             short : BOOLEAN, validated : BOOLEAN]]
    /\ started \in 0..MaxRequests
    /\ edited \subseteq Workers /\ lost \in [Workers -> Balance] /\ overdrawn \subseteq Nat

LEMMA InitTyped == Init => TypedRest
  BY LedgerAssumption DEF Init, TypedRest, Zero, Balance

\* A request that arrives is counted.
LEMMA BeginTyped ==
    ASSUME TypedRest, NEW r \in Requests, NEW override \in BOOLEAN, NEW steps,
           Begin(r, override, steps)
    PROVE  TypedRest'
  BY LedgerAssumption DEF Begin, TypedRest, tables, ghosts

\* What each step of a request does to the rest of the state.
LEMMA WorkTyped ==
    ASSUME TypedRest, IInv, NEW r \in Requests, Work(r)
    PROVE  TypedRest'
<1> USE DEF TypedRest
<1>1. CASE DoCheck(r)
  <2>1. PICK row \in Answers(Head(Step(r).items).worker) :
            ctx' = [ctx EXCEPT ![r].short = @ \/ row.unpaid < Head(Step(r).items).amount]
    BY <1>1 DEF DoCheck
  <2>2. (ctx[r].short \/ row.unpaid < Head(Step(r).items).amount) \in BOOLEAN
    OBVIOUS
  <2>3. ctx' \in [Requests -> [by : Nat, batch : Nat, override : BOOLEAN,
                              short : BOOLEAN, validated : BOOLEAN]]
    BY <2>1, <2>2
  <2> QED
    BY <1>1, <2>3 DEF DoCheck, tables, ghosts
<1>2. CASE DoGate(r)
  <2>1. (~ctx[r].override) \in BOOLEAN
    OBVIOUS
  <2> QED
    BY <1>2, <2>1 DEF DoGate, tables, ghosts
<1>3. CASE DoBatch(r)
  <2>1. clock \in Nat
    BY LedgerAssumption
  <2> QED
    BY <1>3, <2>1 DEF DoBatch, ghosts
<1>4. CASE DoEnter(r) \/ DoFind(r) \/ DoAlter(r) \/ ReadBalance(r) \/ EditNotFound(r)
  BY <1>4 DEF DoEnter, DoFind, DoAlter, ReadBalance, EditNotFound, tables, ghosts
<1>5. CASE WriteBalance(r)
  BY <1>5 DEF WriteBalance
<1>6. CASE WriteEdit(r)
  <2>1. Step(r).worker \in Workers
    BY <1>6, AtStep, StepKinds DEF WriteEdit, At
  <2> QED
    BY <1>6, <2>1 DEF WriteEdit
<1>7. CASE DoMark(r)
  <2>1. Step(r).rewards \in SUBSET Rewards
    BY <1>7, AtStep, StepKinds DEF DoMark, At
  <2>2. processed' \subseteq [reward : Rewards, by : Nat]
    <3>1. \/ processed' = processed
          \/ \E reward \in Step(r).rewards :
                processed' = processed \union {[reward |-> reward, by |-> ctx[r].by]}
      BY <1>7 DEF DoMark
    <3> QED
      BY <2>1, <3>1
  <2> QED
    BY <1>7, <2>2 DEF DoMark, ghosts
<1> QED
  BY <1>1, <1>2, <1>3, <1>4, <1>5, <1>6, <1>7 DEF Work

\* What a failing request leaves undone is a change of a balance.
LEMMA FailTyped ==
    ASSUME TypedRest, IInv, NEW r \in Requests, Fail(r)
    PROVE  TypedRest'
<1>1. CASE Step(r).op = "adjust"
  <2>1. Step(r).worker \in Workers /\ Step(r).change \in Balance
    BY <1>1, AtStep, StepKinds DEF Fail
  <2>2. Plus(lost[Step(r).worker], Step(r).change) \in Balance
    BY <2>1 DEF TypedRest, Balance, Plus
  <2> QED
    BY <1>1, <2>1, <2>2 DEF Fail, TypedRest, tables
<1>2. CASE Step(r).op # "adjust"
  BY <1>2 DEF Fail, TypedRest, tables
<1> QED
  BY <1>1, <1>2

LEMMA NextTyped == TypedRest /\ IInv /\ [Next]_vars => TypedRest'
<1> SUFFICES ASSUME TypedRest, IInv, [Next]_vars PROVE TypedRest'
  OBVIOUS
<1>1. ASSUME NEW r \in Requests, Arrive(r) PROVE TypedRest'
  BY <1>1, BeginTyped DEF Arrive, CreditEarnings, ReviseEntry, SinglePayout, BatchPayout,
                          EditBalance
<1>2. ASSUME NEW w \in Workers, NEW row \in buffered[w], Flush(w, row) PROVE TypedRest'
  BY <1>2 DEF Flush, TypedRest, ghosts
<1>3. CASE Tick \/ UNCHANGED vars
  <2>1. clock' \in 1..MaxClock
    BY <1>3, LedgerAssumption DEF Tick, vars, TypedRest
  <2> QED
    BY <1>3, <2>1 DEF Tick, vars, TypedRest, tables, ghosts
<1> QED
  BY <1>1, <1>2, <1>3, WorkTyped, FailTyped DEF Next

\* Of the types and what is added to them, the types of Ledger.
LEMMA TypesFollow == IInv /\ TypedRest => TypeOK
<1> SUFFICES ASSUME IInv, TypedRest PROVE TypeOK
  OBVIOUS
<1>1. ASSUME NEW r \in Requests, NEW i \in DOMAIN todo[r]
      PROVE  todo[r][i] \in Steps /\ ("items" \in DOMAIN todo[r][i] => todo[r][i].items # << >>)
  <2>1. todo[r][i] \in SoundSteps
    BY DEF IInv, TypedWork
  <2>2. SoundSteps \subseteq Steps
    BY DEF SoundSteps, Steps, ItemSeqs
  <2>3. ASSUME NEW s \in SoundSteps, "items" \in DOMAIN s PROVE s.items # << >>
    BY <2>3 DEF SoundSteps, ItemSeqs
  <2> QED
    BY <2>1, <2>2, <2>3
<1> QED
  BY <1>1 DEF TypeOK, IInv, TypedRows, TypedEntries, TypedWork, TypedRest, KnownEntry, Entry

\* Every variable has its type, for any constants: a request that is at work
\* has a step it knows how to do, and a step over a list has an item left to do.
THEOREM LedgerTypes == Spec => []TypeOK
  BY InitIInv, NextIInv, InitTyped, NextTyped, TypesFollow, PTL DEF Spec
-----------------------------------------------------------------------------
(* Requests one at a time, on settled rows: what a query answers is the    *)
(* balance, and nothing changes between two steps of a request.            *)

OneAtATime == Settled = TRUE /\ \A r, q \in Requests : r = q

\* The row a query answers.
Current(w) == CHOOSE row \in Answers(w) : TRUE

\* There is one row of a worker at the most, and a balance that was read is it.
RowsSettled ==
    /\ \A w \in Workers : buffered[w] = {}
    /\ \A w \in Workers : visible[w] = {} \/ \E row \in Row : visible[w] = {row}
    /\ \A r \in Requests : seen[r] # Unread => seen[r] = Current(Step(r).worker)

\* An adjustment is that of an entry, and stands at the head of its list or
\* behind the alteration it is due to; a list has one step that enters.
Later == {"gate", "batch", "enter", "mark"}
Laid(s) ==
    /\ \A i \in 1..Len(s) : s[i].op = "adjust" =>
          \E book \in {"earnings", "payouts"}, a \in Int : s[i].change = Change(book, a)
    /\ \A i \in 1..Len(s) : i > 1 /\ s[1].op # "alter" => s[i].op \in Later
    /\ \A i, j \in 1..Len(s) : s[i].op = "enter" /\ s[j].op = "enter" => i = j
    /\ \A i \in 1..Len(s) : s[i].op = "gate" => i = 1 \/ (i = 2 /\ s[1].op = "check")
    /\ Len(s) > 1 => s[1].op \notin {"find", "edit"}

\* The steps of a list that enter.
Enters(s) == {s[i] : i \in {j \in 1..Len(s) : s[j].op = "enter"}}

\* The adjustment behind an alteration is the difference it makes.
AlterationDue(e, a) ==
    IF a = e.amount THEN << >> ELSE <<Adjust(e.worker, Change(e.book, a - e.amount))>>

AlterFits ==
    \A r \in Requests : At(r, "alter") =>
        /\ Step(r).id \in DOMAIN entries
        /\ Tail(todo[r]) = AlterationDue(entries[Step(r).id], Step(r).amount)

\* No entry has the id of one that is still to come.
IdsAreFresh ==
    /\ IsFiniteSet(DOMAIN entries)
    /\ \A id \in DOMAIN entries : id[1] <= started
    /\ \A r \in Requests : ctx[r].by <= started
    /\ \A r \in Requests : \A e \in Enters(todo[r]) : \A k \in 1..Len(e.items) :
          <<ctx[r].by, k>> \notin DOMAIN entries

OInv ==
    /\ IInv /\ TypedRest
    /\ RowsSettled /\ (\A r \in Requests : Laid(todo[r])) /\ AlterFits /\ IdsAreFresh
-----------------------------------------------------------------------------
(* Lists of steps.                                                         *)

LEMMA TailByPlace ==
    ASSUME NEW S, NEW s \in Seq(S), s # << >>
    PROVE  /\ Len(s) \in Nat \ {0} /\ Head(s) = s[1]
           /\ Tail(s) \in Seq(S) /\ Len(Tail(s)) = Len(s) - 1
           /\ \A i \in 1..(Len(s) - 1) : Tail(s)[i] = s[i + 1]
  OBVIOUS

LEMMA ConsByPlace ==
    ASSUME NEW S, NEW s \in Seq(S), NEW x \in S
    PROVE  /\ Len(s) \in Nat /\ <<x>> \o s \in Seq(S)
           /\ Len(<<x>> \o s) = Len(s) + 1 /\ (<<x>> \o s)[1] = x
           /\ \A i \in 2..(Len(s) + 1) : (<<x>> \o s)[i] = s[i - 1]
           /\ \A i \in 1..Len(s) : (<<x>> \o s)[i + 1] = s[i]
  OBVIOUS

LEMMA TwoSteps == \A x, y : <<x>> \o <<y>> = <<x, y>>
<1> SUFFICES ASSUME NEW x, NEW y PROVE <<x>> \o <<y>> = <<x, y>>
  OBVIOUS
<1> DEFINE S == {x, y}
           s == <<x>> \o <<y>>
           t == <<x, y>>
<1>1. s \in Seq(S) /\ t \in Seq(S) /\ Len(s) = 2 /\ Len(t) = 2
  OBVIOUS
<1>2. s[1] = x /\ s[2] = y /\ t[1] = x /\ t[2] = y
  OBVIOUS
<1> HIDE DEF S, s, t
<1>3. \A i \in 1..Len(s) : s[i] = t[i]
  BY <1>1, <1>2
<1>4. s = t
  BY <1>1, <1>3, SeqEqual
<1> QED
  BY <1>4 DEF s, t

\* What remains of a list once its first step is done.
LEMMA LaidTail ==
    ASSUME NEW s \in Seq(SoundSteps), s # << >>, s[1].op # "alter", Laid(s)
    PROVE  /\ Laid(Tail(s))
           /\ \A i \in 1..Len(Tail(s)) : /\ Tail(s)[i].op \in Later
                                         /\ s[1].op = "enter" => Tail(s)[i].op # "enter"
                                         /\ s[1].op # "check" => Tail(s)[i].op # "gate"
<1>1. /\ Len(s) \in Nat \ {0} /\ Len(Tail(s)) = Len(s) - 1
      /\ \A i \in 1..(Len(s) - 1) : Tail(s)[i] = s[i + 1]
  BY TailByPlace
<1>2. ASSUME NEW i \in 1..Len(Tail(s))
      PROVE  /\ i + 1 \in 1..Len(s) /\ i + 1 > 1 /\ Tail(s)[i] = s[i + 1]
             /\ Tail(s)[i].op \in Later
             /\ s[1].op = "enter" => Tail(s)[i].op # "enter"
             /\ s[1].op # "check" => Tail(s)[i].op # "gate"
             /\ Tail(s)[i].op = "gate" => i = 1
  <2>1. i + 1 \in 1..Len(s) /\ i + 1 > 1 /\ Tail(s)[i] = s[i + 1] /\ 1 \in 1..Len(s)
    BY <1>1
  <2>2. s[i + 1].op \in Later
    BY <2>1 DEF Laid
  <2>3. s[1].op = "enter" => s[i + 1].op # "enter"
    BY <2>1 DEF Laid
  <2>4. s[i + 1].op = "gate" => i = 1 /\ s[1].op = "check"
    BY <2>1 DEF Laid
  <2> QED
    BY <2>1, <2>2, <2>3, <2>4
<1>3. ASSUME NEW i \in 1..Len(Tail(s)), Tail(s)[i].op = "adjust"
      PROVE  FALSE
  BY <1>2, <1>3 DEF Later
<1>4. ASSUME NEW i \in 1..Len(Tail(s)), NEW j \in 1..Len(Tail(s)),
             Tail(s)[i].op = "enter", Tail(s)[j].op = "enter"
      PROVE  i = j
  <2>1. i + 1 = j + 1
    BY <1>2, <1>4 DEF Laid
  <2> QED
    BY <1>1, <2>1
<1>5. Len(Tail(s)) > 1 => Tail(s)[1].op \notin {"find", "edit"}
  <2>1. Len(Tail(s)) > 1 => 1 \in 1..Len(Tail(s))
    BY <1>1
  <2> QED
    BY <1>2, <2>1 DEF Later
<1> QED
  BY <1>2, <1>3, <1>4, <1>5 DEF Laid

\* A step before steps that come later.
LEMMA LaidCons ==
    ASSUME NEW s \in Seq(SoundSteps), Laid(s), \A i \in 1..Len(s) : s[i].op \in Later,
           NEW x \in SoundSteps, x.op \in {"check", "adjust", "enter", "mark"},
           x.op = "enter" => \A i \in 1..Len(s) : s[i].op # "enter",
           x.op # "check" => \A i \in 1..Len(s) : s[i].op # "gate",
           x.op = "adjust" => \E book \in {"earnings", "payouts"}, a \in Int :
                                  x.change = Change(book, a)
    PROVE  Laid(<<x>> \o s) /\ <<x>> \o s \in Seq(SoundSteps)
<1> DEFINE t == <<x>> \o s
<1>1. /\ Len(s) \in Nat /\ t \in Seq(SoundSteps) /\ Len(t) = Len(s) + 1 /\ t[1] = x
      /\ \A i \in 2..(Len(s) + 1) : t[i] = s[i - 1]
  BY ConsByPlace
<1> HIDE DEF t
<1>2. ASSUME NEW i \in 1..Len(t), i # 1
      PROVE  /\ i - 1 \in 1..Len(s) /\ t[i] = s[i - 1] /\ t[i].op \in Later
             /\ t[i].op = "enter" => x.op # "enter"
             /\ t[i].op = "gate" => i = 2 /\ x.op = "check"
  <2>1. i - 1 \in 1..Len(s) /\ t[i] = s[i - 1]
    BY <1>1, <1>2
  <2>2. s[i - 1].op = "gate" => i - 1 = 1
    <3>1. s[i - 1].op = "gate" /\ i - 1 # 1 => s[1].op = "check"
      BY <2>1 DEF Laid
    <3>2. 1 \in 1..Len(s)
      BY <1>1, <2>1
    <3> QED
      BY <3>1, <3>2 DEF Later
  <2> QED
    BY <2>1, <2>2
<1>3. ASSUME NEW i \in 1..Len(t), t[i].op = "adjust"
      PROVE  \E book \in {"earnings", "payouts"}, a \in Int : t[i].change = Change(book, a)
  BY <1>1, <1>2, <1>3 DEF Later
<1>4. ASSUME NEW i \in 1..Len(t), NEW j \in 1..Len(t), t[i].op = "enter", t[j].op = "enter"
      PROVE  i = j
  <2>1. CASE i = 1 \/ j = 1
    BY <1>1, <1>2, <1>4, <2>1
  <2>2. CASE i # 1 /\ j # 1
    <3>1. i - 1 = j - 1
      BY <1>2, <1>4, <2>2 DEF Laid
    <3> QED
      BY <3>1
  <2> QED
    BY <2>1, <2>2
<1>5. Laid(t)
  BY <1>1, <1>2, <1>3, <1>4 DEF Laid
<1> QED
  BY <1>1, <1>5 DEF t

LEMMA LaidShort ==
    /\ Laid(<< >>)
    /\ \A x : x.op \notin {"gate", "adjust"} => Laid(<<x>>)
    /\ \A w : \A book \in {"earnings", "payouts"}, a \in Int : Laid(<<Adjust(w, Change(book, a))>>)
<1>1. Laid(<< >>)
  BY DEF Laid
<1>2. ASSUME NEW x, x.op \notin {"gate", "adjust"} PROVE Laid(<<x>>)
  BY <1>2 DEF Laid
<1>3. ASSUME NEW w, NEW book \in {"earnings", "payouts"}, NEW a \in Int
      PROVE  Laid(<<Adjust(w, Change(book, a))>>)
  <2> DEFINE x == Adjust(w, Change(book, a))
  <2>1. x.op = "adjust" /\ x.change = Change(book, a)
    BY DEF Adjust
  <2> HIDE DEF x
  <2>2. Laid(<<x>>)
    BY <2>1 DEF Laid
  <2> QED
    BY <2>2 DEF x
<1> QED
  BY <1>1, <1>2, <1>3

\* The steps of a list that enter, when a step is done or put before it.
LEMMA EntersTail ==
    ASSUME NEW s \in Seq(SoundSteps), s # << >>
    PROVE  Enters(Tail(s)) \subseteq Enters(s)
<1>1. /\ Len(s) \in Nat \ {0} /\ Len(Tail(s)) = Len(s) - 1
      /\ \A i \in 1..(Len(s) - 1) : Tail(s)[i] = s[i + 1]
  BY TailByPlace
<1>2. \A i \in 1..Len(Tail(s)) : i + 1 \in 1..Len(s) /\ Tail(s)[i] = s[i + 1]
  BY <1>1
<1> QED
  BY <1>2 DEF Enters

LEMMA EntersCons ==
    ASSUME NEW s \in Seq(SoundSteps), NEW x \in SoundSteps
    PROVE  /\ Enters(<<x>> \o s) \subseteq Enters(s) \union {x}
           /\ x.op # "enter" => Enters(<<x>> \o s) \subseteq Enters(s)
<1> DEFINE t == <<x>> \o s
<1>1. /\ Len(s) \in Nat /\ Len(t) = Len(s) + 1 /\ t[1] = x
      /\ \A i \in 2..(Len(s) + 1) : t[i] = s[i - 1]
  BY ConsByPlace
<1> HIDE DEF t
<1>2. \A i \in 1..Len(t) : i = 1 \/ (i - 1 \in 1..Len(s) /\ t[i] = s[i - 1])
  BY <1>1
<1>3. Enters(t) \subseteq Enters(s) \union {x} /\ (x.op # "enter" => Enters(t) \subseteq Enters(s))
  BY <1>1, <1>2 DEF Enters
<1> QED
  BY <1>3 DEF t

LEMMA EntersNone ==
    ASSUME NEW s, \A i \in 1..Len(s) : s[i].op # "enter"
    PROVE  Enters(s) = {}
  BY DEF Enters
-----------------------------------------------------------------------------
(* Sums of entries, and of what is due.                                    *)

Sought(E, book, w) == {i \in DOMAIN E : E[i].book = book /\ E[i].worker = w}
EnteredIn(E, book, w) == SumFunction([id \in Sought(E, book, w) |-> E[id].amount])
PartOf(E, book, w, id) == IF id \in Sought(E, book, w) THEN E[id].amount ELSE 0
RestOf(E, book, w, id) ==
    SumFunctionOnSet([i \in DOMAIN E |-> E[i].amount], Sought(E, book, w) \ {id})

LEMMA EnteredNow ==
    ASSUME NEW book, NEW w PROVE Entered(book, w) = EnteredIn(entries, book, w)
  BY DEF Entered, EnteredIn, Sought

LEMMA EnteredThen ==
    ASSUME NEW book, NEW w PROVE Entered(book, w)' = EnteredIn(entries', book, w)
  BY DEF Entered, EnteredIn, Sought

\* One entry and the others.
LEMMA EnteredApart ==
    ASSUME NEW E, IsFiniteSet(DOMAIN E), \A i \in DOMAIN E : E[i].amount \in Int,
           NEW book, NEW w, NEW id
    PROVE  /\ PartOf(E, book, w, id) \in Int /\ RestOf(E, book, w, id) \in Int
           /\ EnteredIn(E, book, w) = PartOf(E, book, w, id) + RestOf(E, book, w, id)
<1> DEFINE S == Sought(E, book, w)
           f == [i \in DOMAIN E |-> E[i].amount]
           g == [i \in S |-> E[i].amount]
           rest == RestOf(E, book, w, id)
<1>1. IsFiniteSet(S) /\ IsFiniteSet(S \ {id}) /\ S \subseteq DOMAIN E
  BY FS_Subset DEF Sought
<1>2. rest \in Int /\ rest = SumFunctionOnSet(f, S \ {id})
  <2>1. rest = SumFunctionOnSet(f, S \ {id})
    BY DEF RestOf
  <2>2. \A x \in S \ {id} : f[x] \in Int
    BY <1>1
  <2> HIDE DEF rest, f, S
  <2> QED
    BY <1>1, <2>1, <2>2, SumInt
<1>3. EnteredIn(E, book, w) = SumFunctionOnSet(f, S)
  <2>1. EnteredIn(E, book, w) = SumFunctionOnSet(g, S)
    BY DEF EnteredIn, SumFunction
  <2>2. \A x \in S : g[x] = f[x]
    BY <1>1
  <2> HIDE DEF g, f, S
  <2> QED
    BY <1>1, <2>1, <2>2, SumSame
<1>4. CASE id \in S
  <2>1. f[id] = E[id].amount /\ \A x \in S : f[x] \in Int
    BY <1>1, <1>4
  <2>2. PartOf(E, book, w, id) = E[id].amount /\ E[id].amount \in Int
    BY <1>1, <1>4 DEF PartOf
  <2> HIDE DEF f, S, rest
  <2>3. SumFunctionOnSet(f, S) = f[id] + rest
    BY <1>1, <1>2, <1>4, <2>1, SumTakeOut
  <2> QED
    BY <1>2, <1>3, <2>1, <2>2, <2>3 DEF rest
<1>5. CASE id \notin S
  <2>1. S \ {id} = S /\ PartOf(E, book, w, id) = 0
    BY <1>5 DEF PartOf
  <2> HIDE DEF f, S
  <2> QED
    BY <1>2, <1>3, <2>1
<1> QED
  BY <1>4, <1>5

\* Of two books that differ in one entry, the sums differ by that entry.
LEMMA OneEntryDiffers ==
    ASSUME NEW E, IsFiniteSet(DOMAIN E), \A i \in DOMAIN E : E[i].amount \in Int,
           NEW F, IsFiniteSet(DOMAIN F), \A i \in DOMAIN F : F[i].amount \in Int,
           NEW id, (DOMAIN E) \ {id} = (DOMAIN F) \ {id},
           \A i \in (DOMAIN E) \ {id} : E[i] = F[i],
           NEW book, NEW w
    PROVE  /\ EnteredIn(E, book, w) \in Int /\ EnteredIn(F, book, w) \in Int
           /\ EnteredIn(F, book, w) =
                EnteredIn(E, book, w) - PartOf(E, book, w, id) + PartOf(F, book, w, id)
<1> DEFINE R == Sought(E, book, w) \ {id}
           e == [i \in DOMAIN E |-> E[i].amount]
           f == [i \in DOMAIN F |-> F[i].amount]
<1>1. R = Sought(F, book, w) \ {id}
  BY DEF Sought
<1>2. R \in SUBSET DOMAIN E /\ IsFiniteSet(R)
  <2>1. R \in SUBSET DOMAIN E
    BY DEF Sought
  <2> QED
    BY <2>1, FS_Subset
<1>3. \A i \in R : e[i] = f[i]
  BY DEF Sought
<1>4. SumFunctionOnSet(e, R) = SumFunctionOnSet(f, R)
  <2> HIDE DEF e, f, R
  <2> QED
    BY <1>2, <1>3, SumSame
<1>5. RestOf(E, book, w, id) = RestOf(F, book, w, id)
  BY <1>1, <1>4 DEF RestOf
<1>6. /\ PartOf(E, book, w, id) \in Int /\ RestOf(E, book, w, id) \in Int
      /\ EnteredIn(E, book, w) = PartOf(E, book, w, id) + RestOf(E, book, w, id)
  BY EnteredApart
<1>7. /\ PartOf(F, book, w, id) \in Int /\ RestOf(F, book, w, id) \in Int
      /\ EnteredIn(F, book, w) = PartOf(F, book, w, id) + RestOf(F, book, w, id)
  BY EnteredApart
<1> QED
  BY <1>5, <1>6, <1>7

\* The request r is about to adjust the balance of w.
Adjusting(T, r, w) == T[r] # << >> /\ Head(T[r]).op = "adjust" /\ Head(T[r]).worker = w
DueIn(T, w, field) ==
    SumFunction([r \in {q \in Requests : Adjusting(T, q, w)} |-> Head(T[r]).change[field]])

LEMMA DueNow == ASSUME NEW w, NEW field PROVE Due(w, field) = DueIn(todo, w, field)
  BY DEF Due, DueIn, Adjusting, At, Step
LEMMA DueThen == ASSUME NEW w, NEW field PROVE Due(w, field)' = DueIn(todo', w, field)
  BY DEF Due, DueIn, Adjusting, At, Step

\* With one request, what is due is what that request is about to bring.
LEMMA DueOfOne ==
    ASSUME OneAtATime, NEW r \in Requests, NEW T, NEW w, NEW field
    PROVE  /\ ~Adjusting(T, r, w) => DueIn(T, w, field) = 0
           /\ (Adjusting(T, r, w) /\ Head(T[r]).change[field] \in Int)
                => DueIn(T, w, field) = Head(T[r]).change[field]
<1> DEFINE A == {q \in Requests : Adjusting(T, q, w)}
           f == [q \in A |-> Head(T[q]).change[field]]
<1>1. DueIn(T, w, field) = SumFunctionOnSet(f, A)
  BY DEF DueIn, SumFunction
<1>2. \A q \in Requests : q = r
  BY DEF OneAtATime
<1>3. CASE ~Adjusting(T, r, w)
  <2>1. A = {}
    BY <1>2, <1>3
  <2> HIDE DEF A, f
  <2>2. DueIn(T, w, field) = 0
    BY <1>1, <2>1, SumEmpty
  <2> QED
    BY <1>3, <2>2
<1>4. CASE Adjusting(T, r, w)
  <2> SUFFICES ASSUME Head(T[r]).change[field] \in Int
               PROVE  DueIn(T, w, field) = Head(T[r]).change[field]
    BY <1>4
  <2>1. A = {r}
    BY <1>2, <1>4
  <2>2. f[r] = Head(T[r]).change[field] /\ IsFiniteSet(A) /\ A \ {r} = {} /\ r \in A
    BY <2>1, FS_Singleton
  <2> HIDE DEF A, f
  <2>3. SumFunctionOnSet(f, A) = f[r] + SumFunctionOnSet(f, A \ {r})
    BY <2>1, <2>2, SumTakeOut
  <2>4. SumFunctionOnSet(f, A \ {r}) = 0
    BY <2>2, SumEmpty
  <2> QED
    BY <1>1, <2>2, <2>3, <2>4
<1> QED
  BY <1>3, <1>4
-----------------------------------------------------------------------------
(* The order of a request's steps, kept by each of them.                   *)

\* What a request may go on to: an order as before, that enters nothing new.
Follows(r, steps) ==
    /\ steps \in Seq(SoundSteps) /\ Laid(steps) /\ Enters(steps) \subseteq Enters(todo[r])
    /\ steps # << >> => Head(steps).op \notin {"alter", "adjust"}

LEMMA StepParts ==
    ASSUME OInv, NEW r \in Requests, todo[r] # << >>
    PROVE  /\ todo[r] \in Seq(SoundSteps) /\ Laid(todo[r])
           /\ Len(todo[r]) \in Nat \ {0} /\ 1 \in 1..Len(todo[r])
           /\ Step(r) = todo[r][1] /\ Step(r) \in SoundSteps
           /\ Tail(todo[r]) \in Seq(SoundSteps)
<1>1. todo[r] \in Seq(SoundSteps) /\ Laid(todo[r])
  BY DEF OInv, IInv, TypedWork
<1>2. Len(todo[r]) \in Nat \ {0} /\ Head(todo[r]) = todo[r][1] /\ Tail(todo[r]) \in Seq(SoundSteps)
  BY <1>1, TailByPlace
<1> QED
  BY <1>1, <1>2 DEF Step

LEMMA NothingFollows ==
    ASSUME NEW r PROVE Follows(r, << >>)
<1>1. Len(<< >>) = 0 /\ << >> \in Seq(SoundSteps)
  OBVIOUS
<1>2. Enters(<< >>) = {}
  BY <1>1, EntersNone
<1> QED
  BY <1>1, <1>2, LaidShort DEF Follows

LEMMA RestFollows ==
    ASSUME OInv, NEW r \in Requests, todo[r] # << >>, Step(r).op # "alter"
    PROVE  Follows(r, Tail(todo[r]))
<1> DEFINE rest == Tail(todo[r])
<1>1. /\ rest \in Seq(SoundSteps) /\ Laid(rest) /\ \A i \in 1..Len(rest) : rest[i].op \in Later
      /\ Enters(rest) \subseteq Enters(todo[r])
  BY StepParts, LaidTail, EntersTail
<1> HIDE DEF rest
<1>2. rest # << >> => 1 \in 1..Len(rest) /\ Head(rest) = rest[1]
  BY <1>1, TailByPlace
<1>3. Follows(r, rest)
  BY <1>1, <1>2 DEF Follows, Later
<1> QED
  BY <1>3 DEF rest

\* The same step again, for what is left of it.
LEMMA AgainFollows ==
    ASSUME OInv, NEW r \in Requests, todo[r] # << >>,
           NEW x \in SoundSteps, x.op \in {"check", "mark"}, x.op = Step(r).op
    PROVE  Follows(r, <<x>> \o Tail(todo[r]))
<1> DEFINE rest == Tail(todo[r])
           s == todo[r]
<1>1. /\ s \in Seq(SoundSteps) /\ s # << >> /\ s[1].op = x.op /\ Laid(s)
      /\ rest \in Seq(SoundSteps)
  BY StepParts
<1>2. /\ Laid(rest) /\ Enters(rest) \subseteq Enters(s)
      /\ \A i \in 1..Len(rest) : rest[i].op \in Later
      /\ s[1].op # "check" => \A i \in 1..Len(rest) : rest[i].op # "gate"
  BY <1>1, LaidTail, EntersTail
<1> HIDE DEF rest, s
<1>3. Laid(<<x>> \o rest) /\ <<x>> \o rest \in Seq(SoundSteps)
  BY <1>1, <1>2, LaidCons
<1>4. Enters(<<x>> \o rest) \subseteq Enters(s)
  BY <1>1, <1>2, EntersCons
<1>5. <<x>> \o rest # << >> /\ Head(<<x>> \o rest) = x
  BY <1>1
<1>6. Enters(<<x>> \o rest) \subseteq Enters(todo[r])
  BY <1>4 DEF s
<1> HIDE DEF Follows
<1>7. Follows(r, <<x>> \o rest)
  BY <1>3, <1>5, <1>6 DEF Follows
<1> QED
  BY <1>7 DEF rest
-----------------------------------------------------------------------------
(* The rows.                                                               *)

AnswersIn(V, w) == IF V[w] = {} THEN {[f \in Fields \union {"at"} |-> 0]} ELSE Newest(V[w])
CurrentIn(V, w) == CHOOSE row \in AnswersIn(V, w) : TRUE

LEMMA CurrentNow ==
    ASSUME NEW w PROVE Current(w) = CurrentIn(visible, w) /\ Answers(w) = AnswersIn(visible, w)
  BY DEF Current, CurrentIn, Answers, AnswersIn
LEMMA CurrentThen ==
    ASSUME NEW w PROVE Current(w)' = CurrentIn(visible', w)
  BY DEF Current, CurrentIn, Answers, AnswersIn

\* A query answers the only row there is, or zeros.
LEMMA OnlyAnswer ==
    ASSUME NEW V, NEW w
    PROVE  /\ V[w] = {} => /\ CurrentIn(V, w) = [f \in Fields \union {"at"} |-> 0]
                           /\ AnswersIn(V, w) = {CurrentIn(V, w)}
           /\ \A row \in Row : V[w] = {row} => /\ CurrentIn(V, w) = row
                                               /\ AnswersIn(V, w) = {CurrentIn(V, w)}
<1>1. CASE V[w] = {}
  <2>1. AnswersIn(V, w) = {[f \in Fields \union {"at"} |-> 0]}
    BY <1>1 DEF AnswersIn
  <2> QED
    BY <1>1, <2>1 DEF CurrentIn
<1>2. ASSUME NEW row \in Row, V[w] = {row}
      PROVE  CurrentIn(V, w) = row /\ AnswersIn(V, w) = {CurrentIn(V, w)}
  <2>1. Newest({row}) = {row}
    BY DEF Newest, Row
  <2>2. AnswersIn(V, w) = {row}
    BY <1>2, <2>1 DEF AnswersIn
  <2> QED
    BY <2>2 DEF CurrentIn
<1> QED
  BY <1>1, <1>2

LEMMA CurrentRow ==
    ASSUME OInv, NEW w \in Workers
    PROVE  /\ Answers(w) = {Current(w)}
           /\ Current(w).unpaid \in Int /\ Current(w).paid \in Int /\ Current(w).total \in Int
<1>1. visible[w] = {} \/ \E row \in Row : visible[w] = {row}
  BY DEF OInv, RowsSettled
<1>2. Answers(w) = AnswersIn(visible, w) /\ Current(w) = CurrentIn(visible, w)
  BY CurrentNow
<1>3. CASE visible[w] = {}
  BY <1>2, <1>3, OnlyAnswer DEF Fields
<1>4. CASE \E row \in Row : visible[w] = {row}
  BY <1>2, <1>4, OnlyAnswer DEF Row
<1> QED
  BY <1>1, <1>3, <1>4

\* No row is inserted, and the request holds none.
LEMMA RowsStay ==
    ASSUME OInv, OneAtATime, NEW r \in Requests, UNCHANGED <<visible, buffered>>,
           seen'[r] = Unread
    PROVE  RowsSettled'
  BY DEF OInv, RowsSettled, OneAtATime

\* A row is inserted: it is the one the next query answers.
LEMMA RowReplaced ==
    ASSUME OInv, OneAtATime, NEW r \in Requests, NEW w \in Workers, NEW b,
           b.unpaid \in Int, b.paid \in Int, b.total \in Int,
           InsertRow(w, b), seen'[r] = Unread
    PROVE  /\ RowsSettled'
           /\ CurrentIn(visible', w) = [unpaid |-> b.unpaid, paid |-> b.paid, total |-> b.total,
                                        at |-> clock]
           /\ \A v \in Workers \ {w} : CurrentIn(visible', v) = CurrentIn(visible, v)
<1> DEFINE row == [unpaid |-> b.unpaid, paid |-> b.paid, total |-> b.total, at |-> clock]
<1>1. row \in Row
  BY DEF Row, OInv, IInv, TypedRows
<1>2. visible' = [visible EXCEPT ![w] = {row}] /\ buffered' = buffered
  BY DEF InsertRow, OneAtATime
<1> HIDE DEF row
<1>3. visible'[w] = {row} /\ \A v \in Workers \ {w} : visible'[v] = visible[v]
  BY <1>2 DEF OInv, IInv, TypedRows
<1>4. RowsSettled'
  BY <1>1, <1>2, <1>3 DEF OInv, RowsSettled, OneAtATime
<1>5. CurrentIn(visible', w) = row
  BY <1>1, <1>3, OnlyAnswer
<1>6. \A v \in Workers \ {w} : CurrentIn(visible', v) = CurrentIn(visible, v)
  BY <1>3 DEF CurrentIn, AnswersIn
<1> QED
  BY <1>4, <1>5, <1>6 DEF row
-----------------------------------------------------------------------------
(* The ids of entries.                                                     *)

\* Nothing new is entered, and nothing new is to be.
LEMMA IdsStay ==
    ASSUME OInv, OneAtATime, NEW r \in Requests, DOMAIN entries' \subseteq DOMAIN entries,
           started' = started, ctx'[r].by = ctx[r].by, Enters(todo'[r]) \subseteq Enters(todo[r])
    PROVE  IdsAreFresh'
<1>1. IsFiniteSet(DOMAIN entries')
  BY FS_Subset DEF OInv, IdsAreFresh
<1> QED
  BY <1>1 DEF OInv, IdsAreFresh, OneAtATime

\* Every step but those that alter, enter or read a balance.
LEMMA GoesOnO ==
    ASSUME OInv, OneAtATime, IInv', TypedRest', RowsSettled', NEW r \in Requests,
           NEW steps, Follows(r, steps), todo'[r] = steps,
           DOMAIN entries' \subseteq DOMAIN entries, started' = started, ctx'[r].by = ctx[r].by
    PROVE  OInv'
<1>1. \A q \in Requests : q = r
  BY DEF OneAtATime
<1>2. IdsAreFresh'
  BY IdsStay DEF Follows
<1>3. AlterFits'
  BY <1>1 DEF AlterFits, At, Step, Follows
<1>4. \A q \in Requests : Laid(todo'[q])
  BY <1>1 DEF Follows
<1> QED
  BY <1>2, <1>3, <1>4 DEF OInv
-----------------------------------------------------------------------------
(* What each action does to that order.                                    *)

\* A request that holds no balance.
LEMMA HoldsNone ==
    ASSUME OInv, NEW r \in Requests, ~At(r, "adjust"), ~At(r, "edit")
    PROVE  seen[r] = Unread
  BY HoldsNothing DEF OInv

\* Steps that leave a request the rest of its list, or nothing.
LEMMA RestO ==
    ASSUME OInv, OneAtATime, IInv', TypedRest', RowsSettled', NEW r \in Requests, todo[r] # << >>,
           GoOn(r, << >>) \/ (Step(r).op # "alter" /\ Done(r)),
           entries' = entries, started' = started, ctx'[r].by = ctx[r].by
    PROVE  OInv'
<1>1. DOMAIN todo = Requests
  BY DEF OInv, IInv, TypedWork
<1>2. PICK steps : Follows(r, steps) /\ todo'[r] = steps
  BY <1>1, NothingFollows, RestFollows DEF GoOn, Done
<1> QED
  BY <1>2, GoesOnO

LEMMA DoCheckO ==
    ASSUME OInv, OneAtATime, IInv', TypedRest', NEW r \in Requests, DoCheck(r)
    PROVE  OInv'
<1> DEFINE rest == Tail(Step(r).items)
           first == IF rest = << >> THEN << >> ELSE <<Check(rest)>>
<1>1. /\ At(r, "check") /\ todo[r] # << >> /\ Step(r).op = "check"
      /\ GoOn(r, first \o Tail(todo[r])) /\ started' = started
      /\ UNCHANGED <<entries, visible, buffered, seen>>
  BY DEF DoCheck, At, tables
<1>2. ctx'[r].by = ctx[r].by
  BY DEF DoCheck, OInv, IInv, TypedWork
<1>3. Follows(r, first \o Tail(todo[r]))
  <2>1. CASE rest = << >>
    <3>1. first \o Tail(todo[r]) = Tail(todo[r])
      BY <1>1, <2>1, StepParts
    <3> QED
      BY <1>1, <3>1, RestFollows
  <2>2. CASE rest # << >>
    <3>1. Step(r).items \in ItemSeqs
      BY <1>1, StepParts, StepKinds
    <3>2. rest \in ItemSeqs
      BY <2>2, <3>1 DEF ItemSeqs
    <3>3. Check(rest) \in SoundSteps /\ Check(rest).op = "check"
      BY <3>2, StepsMade, Operations
    <3> HIDE DEF rest
    <3> QED
      BY <1>1, <2>2, <3>3, AgainFollows
  <2> QED
    BY <2>1, <2>2
<1>4. todo'[r] = first \o Tail(todo[r])
  BY <1>1 DEF GoOn, OInv, IInv, TypedWork
<1> HIDE DEF first
<1>5. RowsSettled'
  <2>1. seen'[r] = Unread
    BY <1>1, HoldsNone DEF At
  <2> QED
    BY <1>1, <2>1, RowsStay
<1> QED
  BY <1>1, <1>2, <1>3, <1>4, <1>5, GoesOnO

LEMMA DoMarkO ==
    ASSUME OInv, OneAtATime, IInv', TypedRest', NEW r \in Requests, DoMark(r)
    PROVE  OInv'
<1>1. /\ At(r, "mark") /\ todo[r] # << >> /\ Step(r).op = "mark" /\ started' = started
      /\ UNCHANGED <<entries, visible, buffered, seen, ctx>>
  BY DEF DoMark, At
<1>2. PICK steps : Follows(r, steps) /\ todo'[r] = steps
  <2>1. CASE Step(r).rewards = {}
    BY <1>1, <2>1, RestFollows DEF DoMark, Done, GoOn, OInv, IInv, TypedWork
  <2>2. CASE Step(r).rewards # {}
    <3>1. PICK reward \in Step(r).rewards :
            todo'[r] = <<Mark(Step(r).rewards \ {reward})>> \o Tail(todo[r])
      BY <2>2 DEF DoMark, GoOn, OInv, IInv, TypedWork
    <3>2. Mark(Step(r).rewards \ {reward}) \in SoundSteps
      <4>1. Step(r).rewards \in SUBSET Rewards
        BY <1>1, StepParts, StepKinds
      <4> QED
        BY <4>1, StepsMade
    <3> QED
      BY <1>1, <3>1, <3>2, AgainFollows, Operations
  <2> QED
    BY <2>1, <2>2
<1>3. RowsSettled'
  <2>1. seen'[r] = Unread
    BY <1>1, HoldsNone DEF At
  <2> QED
    BY <1>1, <2>1, RowsStay
<1> QED
  BY <1>1, <1>2, <1>3, GoesOnO

\* The gate, the batch row, and an edit of nobody.
LEMMA PlainStepsO ==
    ASSUME OInv, OneAtATime, IInv', TypedRest', NEW r \in Requests,
           DoGate(r) \/ DoBatch(r) \/ EditNotFound(r)
    PROVE  OInv'
<1>1. /\ todo[r] # << >> /\ Step(r).op # "alter" /\ (GoOn(r, << >>) \/ Done(r))
      /\ UNCHANGED <<entries, visible, buffered, seen, started>>
  BY DEF DoGate, DoBatch, EditNotFound, At, tables
<1>2. ctx'[r].by = ctx[r].by
  <2>1. CASE DoGate(r)
    BY <2>1 DEF DoGate, OInv, IInv, TypedWork
  <2>2. CASE DoBatch(r)
    BY <2>2 DEF DoBatch, OInv, IInv, TypedWork
  <2>3. CASE EditNotFound(r)
    BY <2>3 DEF EditNotFound
  <2> QED
    BY <2>1, <2>2, <2>3
<1>3. seen[r] = Unread
  BY HoldsNone DEF DoGate, DoBatch, EditNotFound, At
<1> QED
  BY <1>1, <1>2, <1>3, RowsStay, RestO

LEMMA FailO ==
    ASSUME OInv, OneAtATime, IInv', TypedRest', NEW r \in Requests, Fail(r)
    PROVE  OInv'
<1>1. /\ todo[r] # << >> /\ GoOn(r, << >>)
      /\ UNCHANGED <<entries, visible, buffered, ctx, started>> /\ seen'[r] = Unread
  BY DEF Fail, GoOn, tables, OInv, IInv, TypedWork
<1> QED
  BY <1>1, RowsStay, RestO

\* The row that supersedes another.
LEMMA WriteBalanceO ==
    ASSUME OInv, OneAtATime, IInv', TypedRest', NEW r \in Requests, WriteBalance(r)
    PROVE  /\ OInv'
           /\ LET w == Step(r).worker
              IN  /\ w \in Workers /\ seen[r] = Current(w)
                  /\ Step(r).change \in Balance
                  /\ \A f \in Fields : CurrentIn(visible', w)[f] = Current(w)[f] + Step(r).change[f]
                  /\ \A v \in Workers \ {w} : CurrentIn(visible', v) = CurrentIn(visible, v)
<1> DEFINE w == Step(r).worker
           new == Plus(seen[r], Step(r).change)
<1>1. /\ todo[r] # << >> /\ Step(r).op = "adjust" /\ seen[r] # Unread /\ Done(r)
      /\ InsertRow(w, new) /\ seen'[r] = Unread /\ UNCHANGED <<entries, ctx, started>>
  BY DEF WriteBalance, At, OInv, IInv, TypedWork
<1>2. w \in Workers /\ Step(r).change \in Balance
  BY <1>1, StepParts, StepKinds
<1>3. seen[r] = Current(w) /\ seen[r] \in Row
  BY <1>1 DEF OInv, RowsSettled, IInv, TypedWork
<1>4. /\ new.unpaid = Current(w).unpaid + Step(r).change.unpaid
      /\ new.paid = Current(w).paid + Step(r).change.paid
      /\ new.total = Current(w).total + Step(r).change.total
      /\ new.unpaid \in Int /\ new.paid \in Int /\ new.total \in Int
  BY <1>2, <1>3 DEF Plus, Row, Balance
<1> HIDE DEF new, w
<1>5. /\ RowsSettled' /\ \A v \in Workers \ {w} : CurrentIn(visible', v) = CurrentIn(visible, v)
      /\ CurrentIn(visible', w) = [unpaid |-> new.unpaid, paid |-> new.paid,
                                   total |-> new.total, at |-> clock]
  BY <1>1, <1>2, <1>4, RowReplaced
<1>6. \A f \in Fields : CurrentIn(visible', w)[f] = Current(w)[f] + Step(r).change[f]
  BY <1>4, <1>5 DEF Fields
<1>7. OInv'
  BY <1>1, <1>5, RestO
<1> QED
  BY <1>2, <1>3, <1>5, <1>6, <1>7 DEF w

\* The row an administrator sets: of the others, each is answered as before.
LEMMA WriteEditO ==
    ASSUME OInv, OneAtATime, IInv', TypedRest', NEW r \in Requests, WriteEdit(r)
    PROVE  /\ OInv' /\ Step(r).worker \in Workers
           /\ \A v \in Workers \ {Step(r).worker} : CurrentIn(visible', v) = CurrentIn(visible, v)
<1> DEFINE w == Step(r).worker
           set == Step(r).set
           new == [f \in Fields |-> IF f \in DOMAIN set THEN set[f] ELSE seen[r][f]]
<1>1. /\ todo[r] # << >> /\ Step(r).op = "edit" /\ seen[r] # Unread /\ Done(r)
      /\ InsertRow(w, new) /\ seen'[r] = Unread /\ UNCHANGED <<entries, ctx, started>>
  BY DEF WriteEdit, At, OInv, IInv, TypedWork
<1>2. w \in Workers /\ set \in EditSets
  BY <1>1, StepParts, StepKinds
<1>3. seen[r].unpaid \in Int /\ seen[r].paid \in Int /\ seen[r].total \in Int
  BY <1>1 DEF OInv, IInv, TypedWork, Row
<1>4. \A f \in DOMAIN set : set[f] \in Int
  <2>1. PICK fields \in SUBSET Fields : set \in [fields -> Amounts]
    BY <1>2 DEF EditSets
  <2>2. Amounts \subseteq Int
    BY LedgerAssumption
  <2> QED
    BY <2>1, <2>2
<1>5. new.unpaid \in Int /\ new.paid \in Int /\ new.total \in Int
  BY <1>3, <1>4 DEF Fields
<1> HIDE DEF new, w
<1>6. RowsSettled' /\ \A v \in Workers \ {w} : CurrentIn(visible', v) = CurrentIn(visible, v)
  BY <1>1, <1>2, <1>5, RowReplaced
<1>7. OInv'
  BY <1>1, <1>6, RestO
<1> QED
  BY <1>2, <1>6, <1>7 DEF w

LEMMA ReadBalanceO ==
    ASSUME OInv, OneAtATime, IInv', TypedRest', NEW r \in Requests, ReadBalance(r)
    PROVE  OInv'
<1>1. /\ todo[r] # << >> /\ (Step(r).op = "adjust" \/ Step(r).op = "edit")
      /\ UNCHANGED <<todo, entries, ctx, started, visible, buffered>>
      /\ \E row \in Answers(Step(r).worker) : seen' = [seen EXCEPT ![r] = row]
  BY DEF ReadBalance, At, tables
<1>2. Step(r).worker \in Workers
  BY <1>1, StepParts, StepKinds
<1>3. seen'[r] = Current(Step(r).worker)
  BY <1>1, <1>2, CurrentRow DEF OInv, IInv, TypedWork
<1>4. RowsSettled'
  <2>1. Current(Step(r).worker)' = Current(Step(r).worker)
    BY <1>1 DEF Current, Answers, Step
  <2> QED
    BY <1>1, <1>3, <2>1 DEF OInv, RowsSettled, OneAtATime
<1>5. AlterFits' /\ IdsAreFresh' /\ \A q \in Requests : Laid(todo[q])'
  BY <1>1 DEF OInv, AlterFits, AlterationDue, IdsAreFresh, At, Step
<1> QED
  BY <1>4, <1>5 DEF OInv

\* The request that finds an entry goes on to alter it, and to adjust the
\* balance by the difference that makes.
LEMMA DoFindO ==
    ASSUME OInv, OneAtATime, IInv', TypedRest', NEW r \in Requests, DoFind(r)
    PROVE  /\ OInv' /\ (todo'[r] # << >> => Head(todo'[r]).op = "alter")
           /\ Enters(todo'[r]) = {}
<1> DEFINE s == Step(r)
           due == AlterationDue(entries[s.id], s.amount)
           steps == <<Alter(s.id, s.amount)>> \o due
<1>1. /\ todo[r] # << >> /\ s.op = "find"
      /\ UNCHANGED <<entries, visible, buffered, seen, ctx, started>>
  BY DEF DoFind, At, tables
<1>2. RowsSettled'
  <2>1. seen'[r] = Unread
    BY <1>1, HoldsNone DEF At
  <2> QED
    BY <1>1, <2>1, RowsStay
<1>3. CASE s.id \notin DOMAIN entries
  <2>1. GoOn(r, << >>) /\ todo'[r] = << >>
    BY <1>3 DEF DoFind, GoOn, OInv, IInv, TypedWork
  <2> QED
    BY <1>1, <1>2, <2>1, RestO, EntersNone
<1>4. CASE s.id \in DOMAIN entries
  <2>1. todo'[r] = steps
    BY <1>4 DEF DoFind, GoOn, AlterationDue, OInv, IInv, TypedWork
  <2>2. s.amount \in Nat /\ s.id \in Nat \X Nat
    BY <1>1, StepParts, StepKinds
  <2>3. entries[s.id] \in KnownEntry
    BY <1>4 DEF OInv, IInv, TypedEntries
  <2>4. /\ entries[s.id].book \in {"earnings", "payouts"} /\ s.amount - entries[s.id].amount \in Int
        /\ entries[s.id].worker \in Workers
    BY <2>2, <2>3 DEF KnownEntry
  <2>5. due \in Seq(SoundSteps) /\ Laid(steps) /\ \A i \in 1..Len(steps) : steps[i].op # "enter"
    <3> DEFINE a == Alter(s.id, s.amount)
               c == Change(entries[s.id].book, s.amount - entries[s.id].amount)
               b == Adjust(entries[s.id].worker, c)
    <3>1. a.op = "alter" /\ b.op = "adjust" /\ b.change = c
      BY DEF Alter, Adjust
    <3>2. due = << >> \/ due = <<b>>
      BY DEF AlterationDue
    <3>3. b \in SoundSteps
      BY <2>4, ChangesConserve, StepsMade
    <3> HIDE DEF due, a, b, c
    <3>4. CASE due = << >>
      <4>1. <<a>> \o due = <<a>>
        BY <3>4
      <4> QED
        BY <3>1, <3>4, <4>1, LaidShort DEF a
    <3>5. CASE due = <<b>>
      <4>1. <<a>> \o due = <<a, b>>
        BY <3>5, TwoSteps
      <4>2. due \in Seq(SoundSteps)
        BY <3>3, <3>5
      <4>3. Laid(<<a, b>>)
        BY <2>4, <3>1 DEF Laid, c
      <4>4. \A i \in 1..Len(<<a, b>>) : <<a, b>>[i].op # "enter"
        BY <3>1
      <4>5. steps = <<a, b>>
        BY <4>1 DEF a
      <4> QED
        BY <4>2, <4>3, <4>4, <4>5
    <3> QED
      BY <3>2, <3>4, <3>5
  <2>6. Head(steps) = Alter(s.id, s.amount) /\ Tail(steps) = due /\ steps # << >>
    BY <2>5
  <2>7. Enters(steps) = {}
    BY <2>5, EntersNone
  <2> HIDE DEF steps, due
  <2>8. \A q \in Requests : q = r
    BY DEF OneAtATime
  <2>9. Step(r)' = Alter(s.id, s.amount)
    BY <2>1, <2>6 DEF Step
  <2>10. AlterFits'
    <3>1. Step(r)'.id = s.id /\ Step(r)'.amount = s.amount
      BY <2>9 DEF Alter
    <3>2. Tail(todo'[r]) = AlterationDue(entries'[Step(r)'.id], Step(r)'.amount)
      BY <1>1, <2>1, <2>6, <3>1 DEF due
    <3> QED
      BY <1>1, <1>4, <2>8, <3>1, <3>2 DEF AlterFits
  <2>11. IdsAreFresh'
    BY <1>1, <2>1, <2>7, IdsStay
  <2>12. Head(todo'[r]).op = "alter"
    BY <2>1, <2>6 DEF Alter
  <2> QED
    BY <1>2, <2>1, <2>5, <2>7, <2>8, <2>10, <2>11, <2>12 DEF OInv
<1> QED
  BY <1>3, <1>4

\* The entry is altered: what is left of the list is the adjustment.
LEMMA DoAlterO ==
    ASSUME OInv, OneAtATime, IInv', TypedRest', NEW r \in Requests, DoAlter(r)
    PROVE  OInv' /\ Enters(todo'[r]) = {}
<1> DEFINE s == Step(r)
           due == AlterationDue(entries[s.id], s.amount)
<1>1. /\ todo[r] # << >> /\ s.op = "alter" /\ todo'[r] = Tail(todo[r])
      /\ UNCHANGED <<visible, buffered, seen, ctx, started>>
  BY DEF DoAlter, Done, GoOn, At, OInv, IInv, TypedWork
<1>2. RowsSettled'
  <2>1. seen'[r] = Unread
    BY <1>1, HoldsNone DEF At
  <2> QED
    BY <1>1, <2>1, RowsStay
<1>3. s.id \in DOMAIN entries /\ todo'[r] = due
  BY <1>1 DEF OInv, AlterFits, At
<1>4. entries[s.id].book \in {"earnings", "payouts"} /\ s.amount - entries[s.id].amount \in Int
  <2>1. s.amount \in Nat
    BY <1>1, StepParts, StepKinds
  <2> QED
    BY <1>3, <2>1 DEF OInv, IInv, TypedEntries, KnownEntry
<1>5. Laid(due) /\ (due # << >> => Head(due).op = "adjust")
      /\ \A i \in 1..Len(due) : due[i].op # "enter"
  BY <1>4, LaidShort DEF AlterationDue, Adjust
<1> HIDE DEF due, s
<1>6. \A q \in Requests : q = r
  BY DEF OneAtATime
<1>7. Enters(todo'[r]) = {} /\ IdsAreFresh'
  <2>1. Enters(due) = {}
    BY <1>5, EntersNone
  <2>2. DOMAIN entries' \subseteq DOMAIN entries
    BY DEF DoAlter
  <2> QED
    BY <1>1, <1>3, <2>1, <2>2, IdsStay
<1>8. AlterFits'
  BY <1>3, <1>5, <1>6 DEF AlterFits, At, Step
<1> QED
  BY <1>2, <1>3, <1>5, <1>6, <1>7, <1>8 DEF OInv

\* One item is entered, under an id of its own.
LEMMA DoEnterO ==
    ASSUME OInv, OneAtATime, IInv', TypedRest', NEW r \in Requests, DoEnter(r)
    PROVE  /\ OInv' /\ <<ctx[r].by, Len(Step(r).items)>> \notin DOMAIN entries
           /\ todo'[r] # << >>
           /\ Head(todo'[r]) = Adjust(Head(Step(r).items).worker,
                                      Change(Step(r).book, Head(Step(r).items).amount))
           /\ \A e \in Enters(todo'[r]) : e.items = Tail(Step(r).items)
<1> DEFINE s == Step(r)
           list == todo[r]
           tail == Tail(list)
           item == Head(s.items)
           rest == Tail(s.items)
           again == Enter(s.book, rest)
           after == (IF rest = << >> THEN << >> ELSE <<again>>) \o tail
           adjust == Adjust(item.worker, Change(s.book, item.amount))
           id == <<ctx[r].by, Len(s.items)>>
<1>1. /\ list # << >> /\ s.op = "enter" /\ todo'[r] = <<adjust>> \o after
      /\ DOMAIN entries' = DOMAIN entries \union {id}
      /\ UNCHANGED <<visible, buffered, seen, ctx, started>>
  BY DEF DoEnter, GoOn, At, OInv, IInv, TypedWork
<1>2. /\ list \in Seq(SoundSteps) /\ Laid(list) /\ list[1] = s /\ 1 \in 1..Len(list)
      /\ tail \in Seq(SoundSteps)
      /\ s.items \in ItemSeqs /\ s.book \in {"earnings", "payouts"}
  BY <1>1, StepParts, StepKinds
<1>3. /\ Laid(tail)
      /\ \A i \in 1..Len(tail) : tail[i].op \in Later /\ tail[i].op # "enter" /\ tail[i].op # "gate"
  BY <1>1, <1>2, LaidTail
<1>4. item \in Item /\ rest \in Seq(Item) /\ Len(s.items) \in Nat \ {0} /\ Len(rest) = Len(s.items) - 1
  BY <1>2 DEF ItemSeqs
<1>5. Change(s.book, item.amount) \in Balance /\ adjust \in SoundSteps /\ item.amount \in Int
  BY <1>2, <1>4, ItemParts, ChangesConserve, StepsMade
<1>6. again.op = "enter" /\ again.items = rest /\ adjust.op = "adjust"
      /\ adjust.change = Change(s.book, item.amount)
  BY DEF Enter, Adjust
<1>7. rest # << >> => again \in SoundSteps
  BY <1>2, <1>4, StepsMade DEF ItemSeqs
<1>8. Enters(tail) = {}
  BY <1>3, EntersNone
<1> HIDE DEF s, list, tail, item, rest, again, adjust, id
<1>9. /\ after \in Seq(SoundSteps) /\ Laid(after)
      /\ \A i \in 1..Len(after) : after[i].op \in Later /\ after[i].op # "gate"
      /\ \A e \in Enters(after) : e = again
  <2>1. CASE rest = << >>
    <3>1. after = tail
      BY <1>2, <2>1
    <3> QED
      BY <1>2, <1>3, <1>8, <3>1
  <2>2. CASE rest # << >>
    <3>1. after = <<again>> \o tail
      BY <2>2
    <3>2. again \in SoundSteps /\ again.op = "enter"
      BY <1>6, <1>7, <2>2
    <3> HIDE DEF after
    <3>3. Laid(after) /\ after \in Seq(SoundSteps)
      BY <1>2, <1>3, <3>1, <3>2, LaidCons
    <3>4. \A i \in 1..Len(after) : after[i].op \in Later /\ after[i].op # "gate"
      <4>1. /\ Len(after) = Len(tail) + 1 /\ Len(tail) \in Nat /\ after[1] = again
            /\ \A i \in 2..(Len(tail) + 1) : after[i] = tail[i - 1]
        BY <1>2, <3>1, <3>2, ConsByPlace
      <4>2. ASSUME NEW i \in 1..Len(after), i # 1 PROVE i - 1 \in 1..Len(tail) /\ after[i] = tail[i - 1]
        BY <4>1, <4>2
      <4> QED
        BY <1>3, <3>2, <4>1, <4>2 DEF Later
    <3>5. \A e \in Enters(after) : e = again
      BY <1>2, <1>8, <3>1, <3>2, EntersCons
    <3> QED
      BY <3>3, <3>4, <3>5
  <2> QED
    BY <2>1, <2>2
<1> HIDE DEF after
<1>10. Laid(<<adjust>> \o after)
  <2>1. \E book \in {"earnings", "payouts"}, a \in Int : adjust.change = Change(book, a)
    BY <1>2, <1>5, <1>6
  <2> QED
    BY <1>5, <1>6, <1>9, <2>1, LaidCons
<1>11. \A e \in Enters(<<adjust>> \o after) : e = again
  BY <1>5, <1>6, <1>9, EntersCons
<1>12. \A q \in Requests : q = r
  BY DEF OneAtATime
<1>13. <<adjust>> \o after # << >> /\ Head(<<adjust>> \o after) = adjust
  BY <1>9
<1>14. AlterFits'
  BY <1>1, <1>6, <1>12, <1>13 DEF AlterFits, At, Step
<1>15. RowsSettled'
  <2>1. seen'[r] = Unread
    BY <1>1, HoldsNone DEF At, s
  <2> QED
    BY <1>1, <2>1, RowsStay
<1>16. \A k \in 1..Len(s.items) : <<ctx[r].by, k>> \notin DOMAIN entries
  <2>1. s \in Enters(list)
    BY <1>1, <1>2 DEF Enters
  <2> QED
    BY <2>1 DEF OInv, IdsAreFresh, list
<1>17. id \notin DOMAIN entries
  BY <1>4, <1>16 DEF id
<1>18. IdsAreFresh'
  <2>1. IsFiniteSet(DOMAIN entries')
    BY <1>1, FS_AddElement DEF OInv, IdsAreFresh
  <2>2. \A i \in DOMAIN entries' : i[1] <= started'
    BY <1>1 DEF OInv, IdsAreFresh, id
  <2>3. \A k \in 1..Len(rest) : <<ctx[r].by, k>> \notin DOMAIN entries'
    BY <1>1, <1>4, <1>16 DEF id
  <2> QED
    BY <1>1, <1>6, <1>11, <1>12, <2>1, <2>2, <2>3 DEF OInv, IdsAreFresh
<1>19. \A q \in Requests : Laid(todo'[q])
  BY <1>1, <1>10, <1>12
<1>20. OInv'
  BY <1>14, <1>15, <1>18, <1>19 DEF OInv
<1> QED
  BY <1>1, <1>6, <1>11, <1>13, <1>17, <1>20 DEF adjust, id, item, rest, s

\* A request arrives, under the next number.
LEMMA BeginO ==
    ASSUME OInv, OneAtATime, IInv', TypedRest', NEW r \in Requests, NEW override,
           NEW steps, Begin(r, override, steps), steps # << >>, Laid(steps),
           Head(steps).op # "alter"
    PROVE  OInv'
<1>1. /\ todo'[r] = steps /\ todo[r] = << >> /\ started' = started + 1
      /\ ctx'[r].by = started + 1 /\ UNCHANGED <<visible, buffered, seen, entries>>
  BY DEF Begin, tables, OInv, IInv, TypedWork, TypedRest
<1>2. \A q \in Requests : q = r
  BY DEF OneAtATime
<1>3. RowsSettled'
  <2>1. seen'[r] = Unread
    BY <1>1, HoldsNone DEF At
  <2> QED
    BY <1>1, <2>1, RowsStay
<1>4. IdsAreFresh'
  <2>1. \A id \in DOMAIN entries : id[1] \in Nat /\ id[1] <= started /\ started \in Nat
    BY DEF OInv, IdsAreFresh, IInv, TypedEntries, TypedWork
  <2>2. \A k : <<started + 1, k>> \notin DOMAIN entries
    BY <2>1
  <2>3. started \in Nat
    BY DEF OInv, IInv, TypedWork
  <2> QED
    BY <1>1, <1>2, <2>1, <2>2, <2>3 DEF OInv, IdsAreFresh
<1>5. AlterFits'
  BY <1>1, <1>2 DEF AlterFits, At, Step
<1> QED
  BY <1>1, <1>2, <1>3, <1>4, <1>5 DEF OInv

Begun(r) ==
    /\ \E override \in BOOLEAN : \E steps : Begin(r, override, steps)
    /\ todo'[r] # << >> /\ Head(todo'[r]).op \notin {"alter", "adjust"}

LEMMA ArriveO ==
    ASSUME OInv, OneAtATime, IInv', TypedRest', NEW r \in Requests, Arrive(r)
    PROVE  OInv' /\ Begun(r)
<1>1. ASSUME NEW override \in BOOLEAN, NEW steps, Begin(r, override, steps), steps # << >>,
             Laid(steps), Head(steps).op \notin {"alter", "adjust"}
      PROVE  OInv' /\ Begun(r)
  <2>1. todo'[r] = steps
    BY <1>1 DEF Begin, OInv, IInv, TypedWork
  <2> QED
    BY <1>1, <2>1, BeginO DEF Begun
<1>2. ASSUME NEW x, NEW override \in BOOLEAN, Begin(r, override, <<x>>),
             x.op \in {"enter", "find", "edit"}
      PROVE  OInv' /\ Begun(r)
  <2>1. Laid(<<x>>) /\ <<x>> # << >> /\ Head(<<x>>) = x
    BY <1>2, LaidShort
  <2> QED
    BY <1>1, <1>2, <2>1
<1>3. CASE \E items \in ItemLists : CreditEarnings(r, items)
  BY <1>2, <1>3, Operations DEF CreditEarnings
<1>4. CASE \E id \in DOMAIN entries, a \in Revisions : ReviseEntry(r, id, a)
  BY <1>2, <1>4, Operations DEF ReviseEntry
<1>5. CASE \E w \in Workers, set \in EditSets : EditBalance(r, w, set)
  BY <1>2, <1>5, Operations DEF EditBalance
<1>6. ASSUME NEW item \in Item, NEW override \in BOOLEAN, SinglePayout(r, item, override)
      PROVE  OInv' /\ Begun(r)
  <2>1. Laid(<<Check(<<item>>), Gate, Enter("payouts", <<item>>)>>)
    BY Operations DEF Laid, Later
  <2>2. Head(<<Check(<<item>>), Gate, Enter("payouts", <<item>>)>>).op = "check"
    BY Operations
  <2> QED
    BY <1>1, <1>6, <2>1, <2>2 DEF SinglePayout
<1>7. ASSUME NEW items \in ItemLists, NEW override \in BOOLEAN, NEW rewards \in SUBSET Rewards,
             BatchPayout(r, items, override, rewards)
      PROVE  OInv' /\ Begun(r)
  <2>1. Laid(<<Check(items), Gate, InsertBatch(items), Enter("payouts", items), Mark(rewards)>>)
    BY Operations DEF Laid, Later
  <2>2. Head(<<Check(items), Gate, InsertBatch(items), Enter("payouts", items),
               Mark(rewards)>>).op = "check"
    BY Operations
  <2> QED
    BY <1>1, <1>7, <2>1, <2>2 DEF BatchPayout
<1> QED
  BY <1>3, <1>4, <1>5, <1>6, <1>7 DEF Arrive

\* With one request and settled rows, no row waits in the buffer.
LEMMA IdleO ==
    ASSUME OInv, OneAtATime, IInv', TypedRest', UNCHANGED vars \/ Tick
    PROVE  OInv'
<1>1. UNCHANGED <<todo, entries, ctx, started, visible, buffered, seen>>
  BY DEF vars, Tick, tables
<1>2. RowsSettled'
  BY <1>1 DEF OInv, RowsSettled, Current, Answers, Step
<1>3. AlterFits' /\ IdsAreFresh' /\ \A q \in Requests : Laid(todo[q])'
  BY <1>1 DEF OInv, AlterFits, AlterationDue, IdsAreFresh, At, Step
<1> QED
  BY <1>2, <1>3 DEF OInv

LEMMA NoFlush ==
    ASSUME OInv, NEW w \in Workers, NEW row \in buffered[w] PROVE FALSE
  BY DEF OInv, RowsSettled

\* The order and the rows in the beginning.
LEMMA InitO == ASSUME OneAtATime, Init PROVE OInv
<1>1. IInv /\ TypedRest
  BY InitIInv, InitTyped
<1>2. RowsSettled /\ AlterFits
  BY DEF Init, RowsSettled, AlterFits, At
<1>3. \A r \in Requests : Laid(todo[r]) /\ Enters(todo[r]) = {}
  BY LaidShort, EntersNone DEF Init
<1>4. IdsAreFresh
  BY <1>3, FS_EmptySet DEF Init, IdsAreFresh
<1> QED
  BY <1>1, <1>2, <1>3, <1>4 DEF OInv

\* The steps of a request, of whatever kind.
LEMMA WorkO ==
    ASSUME OInv, OneAtATime, IInv', TypedRest', NEW r \in Requests, Work(r)
    PROVE  OInv'
  BY DoCheckO, DoMarkO, PlainStepsO, WriteBalanceO, WriteEditO, ReadBalanceO, DoFindO,
     DoAlterO, DoEnterO DEF Work

LEMMA NextO == ASSUME OneAtATime PROVE OInv /\ [Next]_vars => OInv'
<1> SUFFICES ASSUME OInv, [Next]_vars PROVE OInv'
  OBVIOUS
<1>1. IInv' /\ TypedRest'
  BY NextIInv, NextTyped DEF OInv
<1> QED
  BY <1>1, WorkO, ArriveO, FailO, IdleO, NoFlush DEF Next
-----------------------------------------------------------------------------
(* The books.  Each has a field of the balance that adds up its entries.   *)

FieldOf(book) == IF book = "earnings" THEN "total" ELSE "paid"
BothBooks == {"earnings", "payouts"}

\* A balance, with the adjustment due to it and those that failed, is what the
\* entries of the book add up to.
AddsUp(V, T, L, E, w, book) ==
    CurrentIn(V, w)[FieldOf(book)] + DueIn(T, w, FieldOf(book)) + L[w][FieldOf(book)]
        = EnteredIn(E, book, w)

BInv ==
    /\ OInv
    /\ \A w \in Workers \ edited, book \in BothBooks :
          AddsUp(visible, todo, lost, entries, w, book)

\* An entry of a changes the field of its book by a, and not that of the other.
LEMMA ChangeOfField ==
    ASSUME NEW b \in BothBooks, NEW a \in Int, NEW book \in BothBooks
    PROVE  Change(b, a)[FieldOf(book)] = IF b = book THEN a ELSE 0
  BY DEF Change, FieldOf, BothBooks

\* The numbers that are added up.
LEMMA Summands ==
    ASSUME OInv, NEW w \in Workers, NEW book \in BothBooks
    PROVE  /\ CurrentIn(visible, w)[FieldOf(book)] \in Int /\ lost[w][FieldOf(book)] \in Int
           /\ EnteredIn(entries, book, w) \in Int
           /\ IsFiniteSet(DOMAIN entries) /\ \A i \in DOMAIN entries : entries[i].amount \in Int
           /\ FieldOf(book) \in Fields
<1>1. Current(w) = CurrentIn(visible, w)
  BY CurrentNow
<1>2. Current(w).paid \in Int /\ Current(w).total \in Int
  BY CurrentRow
<1>3. lost[w].paid \in Int /\ lost[w].total \in Int
  BY DEF OInv, TypedRest, Balance
<1>4. IsFiniteSet(DOMAIN entries) /\ \A i \in DOMAIN entries : entries[i].amount \in Int
  BY DEF OInv, IdsAreFresh, IInv, TypedEntries, KnownEntry
<1>5. EnteredIn(entries, book, w) \in Int
  BY <1>4, EnteredApart
<1> QED
  BY <1>1, <1>2, <1>3, <1>4, <1>5 DEF FieldOf, BothBooks, Fields

\* A step that neither brings nor leaves an adjustment.
LEMMA Quiet ==
    ASSUME BInv, OneAtATime, NEW r \in Requests, NEW w \in Workers \ edited, NEW book \in BothBooks,
           ~Adjusting(todo, r, w), ~Adjusting(todo', r, w),
           CurrentIn(visible', w) = CurrentIn(visible, w), UNCHANGED <<lost, entries>>
    PROVE  AddsUp(visible', todo', lost', entries', w, book)
<1>1. DueIn(todo, w, FieldOf(book)) = 0 /\ DueIn(todo', w, FieldOf(book)) = 0
  BY DueOfOne
<1>2. AddsUp(visible, todo, lost, entries, w, book)
  BY DEF BInv
<1> QED
  BY <1>1, <1>2 DEF AddsUp

\* The rest of a list is no adjustment.
LEMMA RestIsQuiet ==
    ASSUME OInv, NEW r \in Requests, todo[r] # << >>, Step(r).op # "alter",
           todo'[r] = << >> \/ todo'[r] = Tail(todo[r])
    PROVE  \A w : ~Adjusting(todo', r, w)
  BY RestFollows DEF Follows, Adjusting

LEMMA QuietWork ==
    ASSUME OInv, NEW r \in Requests,
           \/ DoCheck(r) \/ DoGate(r) \/ DoBatch(r) \/ DoMark(r) \/ EditNotFound(r) \/ WriteEdit(r)
    PROVE  \A w : ~Adjusting(todo, r, w) /\ ~Adjusting(todo', r, w)
<1>1. todo[r] # << >> /\ Step(r).op \notin {"adjust", "alter"} /\ DOMAIN todo = Requests
  BY DEF DoCheck, DoGate, DoBatch, DoMark, EditNotFound, WriteEdit, At, OInv, IInv, TypedWork
<1>2. \A w : ~Adjusting(todo, r, w)
  BY <1>1 DEF Adjusting, Step
<1>3. CASE todo'[r] = << >> \/ todo'[r] = Tail(todo[r])
  BY <1>1, <1>2, <1>3, RestIsQuiet
<1>4. CASE DoCheck(r)
  <2> DEFINE rest == Tail(Step(r).items)
  <2>1. CASE rest = << >>
    <3>1. todo'[r] = << >> \o Tail(todo[r])
      BY <1>1, <1>4, <2>1 DEF DoCheck, GoOn
    <3>2. << >> \o Tail(todo[r]) = Tail(todo[r])
      BY <1>1, StepParts
    <3> QED
      BY <1>3, <3>1, <3>2
  <2>2. CASE rest # << >>
    <3>1. todo'[r] = <<Check(rest)>> \o Tail(todo[r])
      BY <1>1, <1>4, <2>2 DEF DoCheck, GoOn
    <3>2. Tail(todo[r]) \in Seq(SoundSteps)
      BY <1>1, StepParts
    <3>3. Head(<<Check(rest)>> \o Tail(todo[r])) = Check(rest)
      BY <3>2
    <3> QED
      BY <1>2, <3>1, <3>3, Operations DEF Adjusting
  <2> QED
    BY <2>1, <2>2
<1>5. CASE DoMark(r)
  <2>1. CASE Step(r).rewards = {}
    BY <1>1, <1>3, <1>5, <2>1 DEF DoMark, Done, GoOn
  <2>2. CASE Step(r).rewards # {}
    <3>1. PICK reward \in Step(r).rewards :
            todo'[r] = <<Mark(Step(r).rewards \ {reward})>> \o Tail(todo[r])
      BY <1>1, <1>5, <2>2 DEF DoMark, GoOn
    <3>2. Tail(todo[r]) \in Seq(SoundSteps)
      BY <1>1, StepParts
    <3>3. Head(<<Mark(Step(r).rewards \ {reward})>> \o Tail(todo[r])) = Mark(Step(r).rewards \ {reward})
      BY <3>2
    <3> QED
      BY <1>2, <3>1, <3>3, Operations DEF Adjusting
  <2> QED
    BY <2>1, <2>2
<1>6. CASE DoGate(r) \/ DoBatch(r) \/ EditNotFound(r) \/ WriteEdit(r)
  BY <1>1, <1>3, <1>6 DEF DoGate, DoBatch, EditNotFound, WriteEdit, Done, GoOn
<1> QED
  BY <1>4, <1>5, <1>6

\* An adjustment brought to the balance is no longer due.
LEMMA WriteBalanceB ==
    ASSUME BInv, OneAtATime, IInv', TypedRest', NEW r \in Requests, WriteBalance(r),
           NEW w \in Workers \ edited, NEW book \in BothBooks
    PROVE  AddsUp(visible', todo', lost', entries', w, book)
<1> DEFINE F == FieldOf(book)
           c == Step(r).change
<1>1. /\ todo[r] # << >> /\ Step(r).op = "adjust" /\ todo'[r] = Tail(todo[r])
      /\ UNCHANGED <<lost, entries>> /\ OInv
  BY DEF WriteBalance, Done, GoOn, At, BInv, OInv, IInv, TypedWork
<1>2. ~Adjusting(todo', r, w)
  BY <1>1, RestIsQuiet
<1>3. CASE w # Step(r).worker
  <2>1. CurrentIn(visible', w) = CurrentIn(visible, w)
    BY <1>1, <1>3, WriteBalanceO
  <2>2. ~Adjusting(todo, r, w)
    BY <1>3 DEF Adjusting, Step
  <2> QED
    BY <1>1, <1>2, <2>1, <2>2, Quiet
<1>4. CASE w = Step(r).worker
  <2>1. /\ CurrentIn(visible, w)[F] \in Int /\ lost[w][F] \in Int
        /\ EnteredIn(entries, book, w) \in Int /\ F \in Fields
    BY <1>1, Summands
  <2>2. CurrentIn(visible', w)[F] = CurrentIn(visible, w)[F] + c[F] /\ c \in Balance
    BY <1>1, <1>4, <2>1, WriteBalanceO, CurrentNow
  <2>3. c[F] \in Int
    BY <2>1, <2>2 DEF Balance, Fields
  <2>4. DueIn(todo, w, F) = c[F]
    BY <1>1, <1>4, <2>3, DueOfOne DEF Adjusting, Step
  <2>5. DueIn(todo', w, F) = 0
    BY <1>2, DueOfOne
  <2>6. CurrentIn(visible, w)[F] + DueIn(todo, w, F) + lost[w][F] = EnteredIn(entries, book, w)
    BY DEF BInv, AddsUp
  <2> HIDE DEF F, c
  <2>7. CurrentIn(visible', w)[F] + DueIn(todo', w, F) + lost'[w][F] = EnteredIn(entries', book, w)
    BY <1>1, <2>1, <2>2, <2>3, <2>4, <2>5, <2>6
  <2> QED
    BY <2>7 DEF AddsUp, F
<1> QED
  BY <1>3, <1>4

\* An adjustment that fails is lost.
LEMMA FailB ==
    ASSUME BInv, OneAtATime, NEW r \in Requests, Fail(r),
           NEW w \in Workers \ edited, NEW book \in BothBooks
    PROVE  AddsUp(visible', todo', lost', entries', w, book)
<1> DEFINE F == FieldOf(book)
           c == Step(r).change
<1>1. /\ todo[r] # << >> /\ todo'[r] = << >> /\ UNCHANGED <<visible, entries>> /\ OInv
      /\ lost' = IF Step(r).op = "adjust" THEN [lost EXCEPT ![Step(r).worker] = Plus(@, c)] ELSE lost
  BY DEF Fail, tables, BInv, OInv, IInv, TypedWork
<1>2. ~Adjusting(todo', r, w)
  BY <1>1 DEF Adjusting
<1>3. CASE ~Adjusting(todo, r, w)
  <2>1. lost'[w] = lost[w]
    BY <1>1, <1>3 DEF Adjusting, Step, OInv, TypedRest
  <2>2. DueIn(todo, w, F) = 0 /\ DueIn(todo', w, F) = 0
    BY <1>2, <1>3, DueOfOne
  <2> QED
    BY <1>1, <2>1, <2>2 DEF BInv, AddsUp
<1>4. CASE Adjusting(todo, r, w)
  <2>1. Step(r).op = "adjust" /\ Step(r).worker = w
    BY <1>4 DEF Adjusting, Step
  <2>2. c \in Balance
    BY <1>1, <2>1, StepParts, StepKinds
  <2>3. /\ CurrentIn(visible, w)[F] \in Int /\ lost[w][F] \in Int
        /\ EnteredIn(entries, book, w) \in Int /\ F \in Fields
    BY <1>1, Summands
  <2>4. c[F] \in Int
    BY <2>2, <2>3 DEF Balance, Fields
  <2>5. lost'[w][F] = lost[w][F] + c[F]
    BY <1>1, <2>1, <2>3 DEF Plus, Fields, OInv, TypedRest
  <2>6. DueIn(todo, w, F) = c[F] /\ DueIn(todo', w, F) = 0
    BY <1>2, <1>4, <2>4, DueOfOne DEF Step
  <2>7. CurrentIn(visible, w)[F] + DueIn(todo, w, F) + lost[w][F] = EnteredIn(entries, book, w)
    BY DEF BInv, AddsUp
  <2> HIDE DEF F, c
  <2>8. CurrentIn(visible', w)[F] + DueIn(todo', w, F) + lost'[w][F] = EnteredIn(entries', book, w)
    BY <1>1, <2>3, <2>4, <2>5, <2>6, <2>7
  <2> QED
    BY <2>8 DEF AddsUp, F
<1> QED
  BY <1>3, <1>4

\* An entry is made, and the adjustment it calls for is due.
LEMMA DoEnterB ==
    ASSUME BInv, OneAtATime, IInv', TypedRest', NEW r \in Requests, DoEnter(r),
           NEW w \in Workers \ edited, NEW book \in BothBooks
    PROVE  AddsUp(visible', todo', lost', entries', w, book)
<1> DEFINE F == FieldOf(book)
           s == Step(r)
           item == Head(s.items)
           id == <<ctx[r].by, Len(s.items)>>
           adjust == Adjust(item.worker, Change(s.book, item.amount))
           gain == IF s.book = book /\ item.worker = w THEN item.amount ELSE 0
<1>1. /\ OInv /\ OInv' /\ todo[r] # << >> /\ s.op = "enter"
      /\ UNCHANGED <<visible, lost>> /\ id \notin DOMAIN entries
      /\ todo'[r] # << >> /\ Head(todo'[r]) = adjust
  BY DoEnterO DEF DoEnter, At, BInv, ghosts
<1>2. /\ DOMAIN entries' = DOMAIN entries \union {id}
      /\ entries'[id].book = s.book /\ entries'[id].worker = item.worker
      /\ entries'[id].amount = item.amount
      /\ \A i \in DOMAIN entries : entries'[i] = entries[i]
  BY <1>1 DEF DoEnter
<1>3. s.book \in BothBooks /\ item.amount \in Int
  <2>1. s.items \in ItemSeqs /\ s.book \in BothBooks
    BY <1>1, StepParts, StepKinds DEF BothBooks
  <2>2. item \in Item
    BY <2>1, Ends DEF ItemSeqs
  <2> QED
    BY <2>1, <2>2, ItemParts
<1>4. adjust.op = "adjust" /\ adjust.worker = item.worker
      /\ adjust.change = Change(s.book, item.amount)
  BY DEF Adjust
<1>5. /\ CurrentIn(visible, w)[F] \in Int /\ lost[w][F] \in Int
      /\ EnteredIn(entries, book, w) \in Int
      /\ IsFiniteSet(DOMAIN entries) /\ \A i \in DOMAIN entries : entries[i].amount \in Int
  BY <1>1, Summands
<1> HIDE DEF s, item, id, adjust
<1>6. EnteredIn(entries', book, w) = EnteredIn(entries, book, w) + gain
  <2>1. IsFiniteSet(DOMAIN entries') /\ \A i \in DOMAIN entries' : entries'[i].amount \in Int
    BY <1>2, <1>3, <1>5, FS_AddElement
  <2>2. (DOMAIN entries) \ {id} = (DOMAIN entries') \ {id}
    BY <1>2
  <2>3. \A i \in (DOMAIN entries) \ {id} : entries[i] = entries'[i]
    BY <1>2
  <2>4. EnteredIn(entries', book, w) =
          EnteredIn(entries, book, w) - PartOf(entries, book, w, id) + PartOf(entries', book, w, id)
    BY <1>5, <2>1, <2>2, <2>3, OneEntryDiffers
  <2>5. PartOf(entries, book, w, id) = 0 /\ PartOf(entries', book, w, id) = gain
    BY <1>1, <1>2 DEF PartOf, Sought
  <2> QED
    BY <1>3, <1>5, <2>4, <2>5
<1>7. DueIn(todo, w, F) = 0
  BY <1>1, DueOfOne DEF Adjusting, Step, s
<1>8. DueIn(todo', w, F) = gain
  <2>1. Change(s.book, item.amount)[F] = IF s.book = book THEN item.amount ELSE 0
    BY <1>3, ChangeOfField
  <2>2. CASE item.worker = w
    <3>1. Adjusting(todo', r, w) /\ Head(todo'[r]).change[F] \in Int
      BY <1>1, <1>3, <1>4, <2>1, <2>2 DEF Adjusting
    <3> QED
      BY <1>1, <1>4, <2>1, <2>2, <3>1, DueOfOne
  <2>3. CASE item.worker # w
    <3>1. ~Adjusting(todo', r, w)
      BY <1>1, <1>4, <2>3 DEF Adjusting
    <3> QED
      BY <2>3, <3>1, DueOfOne
  <2> QED
    BY <2>2, <2>3
<1>9. CurrentIn(visible, w)[F] + DueIn(todo, w, F) + lost[w][F] = EnteredIn(entries, book, w)
  BY DEF BInv, AddsUp
<1>10. gain \in Int
  BY <1>3
<1> HIDE DEF F, gain
<1>11. CurrentIn(visible', w)[F] + DueIn(todo', w, F) + lost'[w][F] = EnteredIn(entries', book, w)
  BY <1>1, <1>5, <1>6, <1>7, <1>8, <1>9, <1>10
<1> QED
  BY <1>11 DEF AddsUp, F

\* An entry is altered or deleted, and the difference is due.
LEMMA DoAlterB ==
    ASSUME BInv, OneAtATime, IInv', TypedRest', NEW r \in Requests, DoAlter(r),
           NEW w \in Workers \ edited, NEW book \in BothBooks
    PROVE  AddsUp(visible', todo', lost', entries', w, book)
<1> DEFINE F == FieldOf(book)
           s == Step(r)
           id == s.id
           e == entries[id]
           diff == s.amount - e.amount
           gain == IF e.book = book /\ e.worker = w THEN diff ELSE 0
<1>1. /\ OInv /\ todo[r] # << >> /\ s.op = "alter" /\ UNCHANGED <<visible, lost>>
      /\ id \in DOMAIN entries /\ todo'[r] = AlterationDue(e, s.amount)
  <2>1. todo[r] # << >> /\ s.op = "alter" /\ UNCHANGED <<visible, lost>> /\ OInv
    BY DEF DoAlter, At, BInv, ghosts
  <2>2. todo'[r] = Tail(todo[r])
    BY DEF DoAlter, Done, GoOn, BInv, OInv, IInv, TypedWork
  <2> QED
    BY <2>1, <2>2 DEF OInv, AlterFits, At
<1>2. /\ DOMAIN entries' = IF s.amount = 0 THEN DOMAIN entries \ {id} ELSE DOMAIN entries
      /\ \A i \in (DOMAIN entries) \ {id} : entries'[i] = entries[i]
      /\ s.amount # 0 => entries'[id] = [e EXCEPT !.amount = s.amount]
  BY <1>1 DEF DoAlter
<1>3. e \in KnownEntry /\ s.amount \in Nat
  BY <1>1, StepParts, StepKinds DEF OInv, IInv, TypedEntries
<1>4. /\ e.book \in BothBooks /\ e.amount \in Int /\ diff \in Int /\ gain \in Int
      /\ s.amount # 0 => /\ entries'[id].book = e.book /\ entries'[id].worker = e.worker
                         /\ entries'[id].amount = s.amount
  BY <1>2, <1>3 DEF KnownEntry, BothBooks
<1>5. /\ CurrentIn(visible, w)[F] \in Int /\ lost[w][F] \in Int
      /\ EnteredIn(entries, book, w) \in Int
      /\ IsFiniteSet(DOMAIN entries) /\ \A i \in DOMAIN entries : entries[i].amount \in Int
  BY <1>1, Summands
<1> HIDE DEF s, id, e
<1>6. EnteredIn(entries', book, w) = EnteredIn(entries, book, w) + gain
  <2>1. IsFiniteSet(DOMAIN entries')
    BY <1>2, <1>5, FS_Subset
  <2>2. \A i \in DOMAIN entries' : entries'[i].amount \in Int
    BY <1>1, <1>2, <1>3, <1>4, <1>5
  <2>3. (DOMAIN entries) \ {id} = (DOMAIN entries') \ {id}
    BY <1>2
  <2>4. \A i \in (DOMAIN entries) \ {id} : entries[i] = entries'[i]
    BY <1>2
  <2>5. EnteredIn(entries', book, w) =
          EnteredIn(entries, book, w) - PartOf(entries, book, w, id) + PartOf(entries', book, w, id)
    BY <1>5, <2>1, <2>2, <2>3, <2>4, OneEntryDiffers
  <2>6. PartOf(entries, book, w, id) = IF e.book = book /\ e.worker = w THEN e.amount ELSE 0
    BY <1>1 DEF PartOf, Sought, e
  <2>7. PartOf(entries', book, w, id) = IF e.book = book /\ e.worker = w THEN s.amount ELSE 0
    <3>1. CASE s.amount = 0
      BY <1>2, <3>1 DEF PartOf, Sought
    <3>2. CASE s.amount # 0
      BY <1>1, <1>2, <1>4, <3>2 DEF PartOf, Sought
    <3> QED
      BY <3>1, <3>2
  <2> QED
    BY <1>3, <1>4, <1>5, <2>5, <2>6, <2>7
<1>7. DueIn(todo, w, F) = 0
  BY <1>1, DueOfOne DEF Adjusting, Step, s
<1>8. DueIn(todo', w, F) = gain
  <2>1. Change(e.book, diff)[F] = IF e.book = book THEN diff ELSE 0
    BY <1>4, ChangeOfField
  <2>2. CASE s.amount = e.amount
    <3>1. todo'[r] = << >> /\ gain = 0
      BY <1>1, <1>3, <1>4, <2>2 DEF AlterationDue
    <3>2. ~Adjusting(todo', r, w)
      BY <3>1 DEF Adjusting
    <3> QED
      BY <3>1, <3>2, DueOfOne
  <2>3. CASE s.amount # e.amount
    <3>1. todo'[r] # << >> /\ Head(todo'[r]) = Adjust(e.worker, Change(e.book, diff))
      BY <1>1, <2>3 DEF AlterationDue
    <3>2. /\ Head(todo'[r]).op = "adjust" /\ Head(todo'[r]).worker = e.worker
          /\ Head(todo'[r]).change = Change(e.book, diff)
      BY <3>1 DEF Adjust
    <3>3. CASE e.worker = w
      <4>1. Adjusting(todo', r, w) /\ Head(todo'[r]).change[F] \in Int
        BY <1>4, <2>1, <3>1, <3>2, <3>3 DEF Adjusting
      <4> QED
        BY <2>1, <3>2, <3>3, <4>1, DueOfOne
    <3>4. CASE e.worker # w
      <4>1. ~Adjusting(todo', r, w)
        BY <3>2, <3>4 DEF Adjusting
      <4> QED
        BY <3>4, <4>1, DueOfOne
    <3> QED
      BY <3>3, <3>4
  <2> QED
    BY <2>2, <2>3
<1>9. CurrentIn(visible, w)[F] + DueIn(todo, w, F) + lost[w][F] = EnteredIn(entries, book, w)
  BY DEF BInv, AddsUp
<1> HIDE DEF F, gain, diff
<1>10. CurrentIn(visible', w)[F] + DueIn(todo', w, F) + lost'[w][F] = EnteredIn(entries', book, w)
  BY <1>1, <1>4, <1>5, <1>6, <1>7, <1>8, <1>9
<1> QED
  BY <1>10 DEF AddsUp, F

\* The other steps bring nothing to a balance that is not set by hand, and owe
\* it nothing.
LEMMA OtherWorkB ==
    ASSUME BInv, OneAtATime, IInv', TypedRest', NEW r \in Requests,
           Work(r), ~WriteBalance(r), ~DoEnter(r), ~DoAlter(r),
           NEW w \in Workers \ edited', NEW book \in BothBooks
    PROVE  AddsUp(visible', todo', lost', entries', w, book)
<1>1. CASE ReadBalance(r)
  BY <1>1 DEF ReadBalance, tables, ghosts, BInv
<1>2. CASE DoCheck(r) \/ DoGate(r) \/ DoBatch(r) \/ DoMark(r) \/ EditNotFound(r)
  <2>1. ~Adjusting(todo, r, w) /\ ~Adjusting(todo', r, w)
    BY <1>2, QuietWork DEF BInv
  <2>2. UNCHANGED <<visible, lost, entries, edited>>
    BY <1>2 DEF DoCheck, DoGate, DoBatch, DoMark, EditNotFound, tables, ghosts
  <2> QED
    BY <2>1, <2>2, Quiet
<1>3. CASE DoFind(r)
  <2>1. todo[r] # << >> /\ Step(r).op = "find" /\ UNCHANGED <<visible, lost, entries, edited>>
    BY <1>3 DEF DoFind, At, tables, ghosts
  <2>2. ~Adjusting(todo, r, w) /\ ~Adjusting(todo', r, w)
    BY <1>3, <2>1, DoFindO DEF BInv, Adjusting, Step
  <2> QED
    BY <2>1, <2>2, Quiet
<1>4. CASE WriteEdit(r)
  <2>1. ~Adjusting(todo, r, w) /\ ~Adjusting(todo', r, w)
    BY <1>4, QuietWork DEF BInv
  <2>2. UNCHANGED <<lost, entries>> /\ edited' = edited \union {Step(r).worker}
    BY <1>4 DEF WriteEdit
  <2>3. CurrentIn(visible', w) = CurrentIn(visible, w)
    BY <1>4, <2>2, WriteEditO DEF BInv
  <2> QED
    BY <2>1, <2>2, <2>3, Quiet
<1> QED
  BY <1>1, <1>2, <1>3, <1>4 DEF Work

LEMMA NextB == ASSUME OneAtATime PROVE BInv /\ [Next]_vars => BInv'
<1> SUFFICES ASSUME BInv, [Next]_vars PROVE BInv'
  OBVIOUS
<1>1. OInv /\ OInv' /\ IInv' /\ TypedRest'
  BY NextO DEF BInv, OInv
<1> SUFFICES ASSUME NEW w \in Workers \ edited', NEW book \in BothBooks
             PROVE  AddsUp(visible', todo', lost', entries', w, book)
  BY <1>1 DEF BInv
<1>2. ASSUME NEW r \in Requests, WriteBalance(r) \/ DoEnter(r) \/ DoAlter(r)
      PROVE  AddsUp(visible', todo', lost', entries', w, book)
  <2>1. edited' = edited
    BY <1>2 DEF WriteBalance, DoEnter, DoAlter, ghosts
  <2> QED
    BY <1>1, <1>2, <2>1, WriteBalanceB, DoEnterB, DoAlterB
<1>3. ASSUME NEW r \in Requests, Work(r) PROVE AddsUp(visible', todo', lost', entries', w, book)
  BY <1>1, <1>2, <1>3, OtherWorkB
<1>4. ASSUME NEW r \in Requests, Fail(r) PROVE AddsUp(visible', todo', lost', entries', w, book)
  <2>1. edited' = edited
    BY <1>4 DEF Fail
  <2> QED
    BY <1>4, <2>1, FailB
<1>5. ASSUME NEW r \in Requests, Arrive(r) PROVE AddsUp(visible', todo', lost', entries', w, book)
  <2>1. todo[r] = << >> /\ UNCHANGED <<visible, lost, entries, edited>>
    BY <1>1, <1>5, ArriveO DEF Begun, Begin, tables, ghosts
  <2>2. ~Adjusting(todo, r, w) /\ ~Adjusting(todo', r, w)
    BY <1>1, <1>5, <2>1, ArriveO DEF Begun, Adjusting
  <2> QED
    BY <2>1, <2>2, Quiet
<1>6. CASE Tick \/ UNCHANGED vars
  BY <1>6 DEF Tick, vars, tables, ghosts, BInv
<1> QED
  BY <1>1, <1>3, <1>4, <1>5, <1>6, NoFlush DEF Next

LEMMA InitB == ASSUME OneAtATime, Init PROVE BInv
<1>1. OInv
  BY InitO
<1> SUFFICES ASSUME NEW w \in Workers \ edited, NEW book \in BothBooks
             PROVE  AddsUp(visible, todo, lost, entries, w, book)
  BY <1>1 DEF BInv
<1>2. DueIn(todo, w, FieldOf(book)) = 0
  <2>1. {q \in Requests : Adjusting(todo, q, w)} = {}
    BY DEF Init, Adjusting
  <2> QED
    BY <2>1, SumEmpty DEF DueIn, SumFunction
<1>3. EnteredIn(entries, book, w) = 0
  <2>1. Sought(entries, book, w) = {}
    BY DEF Init, Sought
  <2> QED
    BY <2>1, SumEmpty DEF EnteredIn, SumFunction
<1>4. visible[w] = {}
  BY DEF Init
<1>5. CurrentIn(visible, w)[FieldOf(book)] = 0
  BY <1>4, OnlyAnswer DEF FieldOf, BothBooks, Fields
<1>6. lost[w][FieldOf(book)] = 0
  BY DEF Init, Zero, FieldOf
<1> QED
  BY <1>2, <1>3, <1>5, <1>6 DEF AddsUp

\* What adds up is what Ledger calls balanced.
LEMMA BooksFollow == BInv => BooksBalance
<1> SUFFICES ASSUME BInv, NEW w \in Workers \ edited
             PROVE  /\ BalanceOf(w).total + Due(w, "total") + lost[w].total = Entered("earnings", w)
                    /\ BalanceOf(w).paid + Due(w, "paid") + lost[w].paid = Entered("payouts", w)
  BY DEF BooksBalance
<1>1. AddsUp(visible, todo, lost, entries, w, "earnings") /\ FieldOf("earnings") = "total"
  BY DEF BInv, BothBooks, FieldOf
<1>2. AddsUp(visible, todo, lost, entries, w, "payouts") /\ FieldOf("payouts") = "paid"
  BY DEF BInv, BothBooks, FieldOf
<1>3. /\ BalanceOf(w).total = CurrentIn(visible, w)["total"]
      /\ BalanceOf(w).paid = CurrentIn(visible, w)["paid"]
  <2>1. BalanceOf(w) = [f \in Fields |-> Current(w)[f]]
    BY DEF BalanceOf, Current, Answers
  <2> QED
    BY <2>1, CurrentNow DEF Fields
<1> QED
  BY <1>1, <1>2, <1>3, DueNow, EnteredNow DEF AddsUp

\* One request at a time on rows that are settled: the total of every worker's
\* balance, with the adjustment about to be made and those that failed, is the
\* sum of the worker's earnings, and the paid amount that of the payouts, as
\* long as nobody sets the balance by hand.
THEOREM BooksAlwaysBalance == ASSUME OneAtATime PROVE Spec => []BooksBalance
<1>1. Init => BInv
  BY InitB
<1>2. BInv /\ [Next]_vars => BInv'
  BY NextB
<1>3. BInv => BooksBalance
  BY BooksFollow
<1> QED
  BY <1>1, <1>2, <1>3, PTL DEF Spec
-----------------------------------------------------------------------------
(* The refinement of Account.                                              *)

BalanceIn(V, w) == [f \in Fields |-> CurrentIn(V, w)[f]]
Balances(V) == [w \in Workers |-> BalanceIn(V, w)]

LEMMA BalanceNow == [w \in Workers |-> BalanceOf(w)] = Balances(visible)
<1>1. \A w \in Workers : BalanceOf(w) = BalanceIn(visible, w)
  BY DEF BalanceOf, BalanceIn, CurrentIn, AnswersIn, Answers
<1> QED
  BY <1>1 DEF Balances

LEMMA BalanceThen == [w \in Workers |-> BalanceOf(w)]' = Balances(visible')
<1>1. \A w \in Workers : BalanceOf(w)' = BalanceIn(visible', w)
  BY DEF BalanceOf, BalanceIn, CurrentIn, AnswersIn, Answers
<1> QED
  BY <1>1 DEF Balances

\* A balance is a function of its fields.
LEMMA SameFields ==
    ASSUME NEW f, NEW g, f = [x \in Fields |-> f[x]], g = [x \in Fields |-> g[x]],
           f.unpaid = g.unpaid, f.paid = g.paid, f.total = g.total
    PROVE  f = g
  BY DEF Fields

TypedBalances(B) == B \in [Workers -> [Fields -> Int]]
Earned(B, w, a) == [B EXCEPT ![w].unpaid = @ + a, ![w].total = @ + a]
Paid(B, w, a) == [B EXCEPT ![w].unpaid = @ - a, ![w].paid = @ + a]

\* An earning of a, field by field.
LEMMA EarnFields ==
    ASSUME NEW B, NEW C, TypedBalances(B), TypedBalances(C),
           NEW w \in Workers, NEW a \in Int, \A v \in Workers \ {w} : C[v] = B[v],
           C[w].unpaid = B[w].unpaid + a, C[w].paid = B[w].paid, C[w].total = B[w].total + a
    PROVE  C = Earned(B, w, a)
<1> DEFINE D == [B EXCEPT ![w].unpaid = @ + a, ![w].total = @ + a]
<1> USE DEF TypedBalances
<1>1. D \in [Workers -> [Fields -> Int]] /\ \A v \in Workers \ {w} : D[v] = B[v]
  BY DEF Fields
<1>2. D[w].unpaid = B[w].unpaid + a /\ D[w].paid = B[w].paid /\ D[w].total = B[w].total + a
  BY DEF Fields
<1> HIDE DEF D
<1>3. D[w] = C[w]
  BY <1>1, <1>2, SameFields
<1>4. C = D
  BY <1>1, <1>3
<1> QED
  BY <1>4 DEF D, Earned

\* A payout of a.
LEMMA PayFields ==
    ASSUME NEW B, NEW C, TypedBalances(B), TypedBalances(C),
           NEW w \in Workers, NEW a \in Int, \A v \in Workers \ {w} : C[v] = B[v],
           C[w].unpaid = B[w].unpaid - a, C[w].paid = B[w].paid + a, C[w].total = B[w].total
    PROVE  C = Paid(B, w, a)
<1> DEFINE D == [B EXCEPT ![w].unpaid = @ - a, ![w].paid = @ + a]
<1> USE DEF TypedBalances
<1>1. D \in [Workers -> [Fields -> Int]] /\ \A v \in Workers \ {w} : D[v] = B[v]
  BY DEF Fields
<1>2. D[w].unpaid = B[w].unpaid - a /\ D[w].paid = B[w].paid + a /\ D[w].total = B[w].total
  BY DEF Fields
<1> HIDE DEF D
<1>3. D[w] = C[w]
  BY <1>1, <1>2, SameFields
<1>4. C = D
  BY <1>1, <1>3
<1> QED
  BY <1>4 DEF D, Paid

LEMMA BalancesTyped ==
    ASSUME OInv PROVE Balances(visible) \in [Workers -> [Fields -> Int]]
<1>1. ASSUME NEW w \in Workers PROVE BalanceIn(visible, w) \in [Fields -> Int]
  BY CurrentRow, CurrentNow DEF BalanceIn, Fields
<1> QED
  BY <1>1 DEF Balances

LEMMA BalancesTypedThen ==
    ASSUME OInv' PROVE Balances(visible') \in [Workers -> [Fields -> Int]]
<1>1. ASSUME NEW w \in Workers PROVE BalanceIn(visible', w) \in [Fields -> Int]
  <2>1. visible'[w] = {} \/ \E row \in Row : visible'[w] = {row}
    BY DEF OInv, RowsSettled
  <2>2. \A f \in Fields : CurrentIn(visible', w)[f] \in Int
    BY <2>1, OnlyAnswer DEF Row, Fields
  <2> QED
    BY <2>2 DEF BalanceIn
<1> QED
  BY <1>1 DEF Balances

\* A row that supersedes another is an earning or a payout.
LEMMA WriteBalanceRefines ==
    ASSUME OInv, OneAtATime, IInv', TypedRest', NEW r \in Requests, WriteBalance(r)
    PROVE  Books!Next
<1> DEFINE w == Step(r).worker
           c == Step(r).change
           B == Balances(visible)
           C == Balances(visible')
<1>1. /\ OInv' /\ w \in Workers
      /\ \A f \in Fields : CurrentIn(visible', w)[f] = Current(w)[f] + c[f]
      /\ \A v \in Workers \ {w} : CurrentIn(visible', v) = CurrentIn(visible, v)
  BY WriteBalanceO
<1>2. B \in [Workers -> [Fields -> Int]] /\ C \in [Workers -> [Fields -> Int]]
  BY <1>1, BalancesTyped, BalancesTypedThen
<1>3. \A v \in Workers \ {w} : C[v] = B[v]
  BY <1>1 DEF Balances, BalanceIn
<1>4. \A f \in Fields : C[w][f] = B[w][f] + c[f]
  BY <1>1, CurrentNow DEF Balances, BalanceIn
<1>5. PICK book \in {"earnings", "payouts"}, a \in Int : c = Change(book, a)
  <2>1. /\ todo[r] # << >> /\ Step(r).op = "adjust"
    BY DEF WriteBalance, At
  <2> QED
    BY <2>1, StepParts DEF Laid
<1>6. edited' = edited
  BY DEF WriteBalance
<1>7. [v \in Workers |-> BalanceOf(v)] = B /\ [v \in Workers |-> BalanceOf(v)]' = C
  BY BalanceNow, BalanceThen
<1> HIDE DEF w, c, B, C
<1>8. TypedBalances(B) /\ TypedBalances(C)
  BY <1>2 DEF TypedBalances
<1>9. B[w].total \in Int /\ B[w].paid \in Int /\ B[w].unpaid \in Int
  BY <1>1, <1>2 DEF Fields
<1>10. CASE book = "earnings"
  <2>1. C[w].unpaid = B[w].unpaid + a /\ C[w].paid = B[w].paid /\ C[w].total = B[w].total + a
    BY <1>4, <1>5, <1>9, <1>10 DEF Change, Fields
  <2>2. C = Earned(B, w, a)
    BY <1>1, <1>3, <1>8, <2>1, EarnFields
  <2>3. C[w].total - B[w].total = a
    BY <1>9, <2>1
  <2>4. Books!Earn(w, C[w].total - B[w].total)
    BY <1>6, <1>7, <2>2, <2>3 DEF Books!Earn, Earned
  <2> QED
    BY <1>1, <1>7, <2>4 DEF Books!Next
<1>11. CASE book = "payouts"
  <2>1. C[w].unpaid = B[w].unpaid - a /\ C[w].paid = B[w].paid + a /\ C[w].total = B[w].total
    BY <1>4, <1>5, <1>9, <1>11 DEF Change, Fields
  <2>2. C = Paid(B, w, a)
    BY <1>1, <1>3, <1>8, <2>1, PayFields
  <2>3. C[w].paid - B[w].paid = a
    BY <1>9, <2>1
  <2>4. Books!Pay(w, C[w].paid - B[w].paid)
    BY <1>6, <1>7, <2>2, <2>3 DEF Books!Pay, Paid
  <2> QED
    BY <1>1, <1>7, <2>4 DEF Books!Next
<1> QED
  BY <1>10, <1>11

\* A row set by hand is an edit.
LEMMA WriteEditRefines ==
    ASSUME OInv, OneAtATime, IInv', TypedRest', NEW r \in Requests, WriteEdit(r)
    PROVE  Books!Next
<1> DEFINE w == Step(r).worker
           B == Balances(visible)
           C == Balances(visible')
<1>1. /\ OInv' /\ w \in Workers
      /\ \A v \in Workers \ {w} : CurrentIn(visible', v) = CurrentIn(visible, v)
  BY WriteEditO
<1>2. B \in [Workers -> [Fields -> Int]] /\ C \in [Workers -> [Fields -> Int]]
  BY <1>1, BalancesTyped, BalancesTypedThen
<1>3. \A v \in Workers \ {w} : C[v] = B[v]
  BY <1>1 DEF Balances, BalanceIn
<1>4. edited' = edited \union {w}
  BY DEF WriteEdit
<1>5. [v \in Workers |-> BalanceOf(v)] = B /\ [v \in Workers |-> BalanceOf(v)]' = C
  BY BalanceNow, BalanceThen
<1> HIDE DEF w, B, C
<1>6. C = [B EXCEPT ![w] = C[w]]
  BY <1>1, <1>2, <1>3
<1>7. Books!Edit(w, C[w])
  BY <1>4, <1>5, <1>6 DEF Books!Edit
<1> QED
  BY <1>1, <1>5, <1>7 DEF Books!Next

\* Every other step changes no row.
LEMMA NextRefines ==
    ASSUME OInv, OneAtATime, [Next]_vars
    PROVE  Books!Next \/ UNCHANGED <<visible, edited>>
<1>1. IInv' /\ TypedRest'
  BY NextIInv, NextTyped DEF OInv
<1>2. ASSUME NEW r \in Requests, Work(r) PROVE Books!Next \/ UNCHANGED <<visible, edited>>
  <2>1. CASE WriteBalance(r) \/ WriteEdit(r)
    BY <1>1, <2>1, WriteBalanceRefines, WriteEditRefines
  <2>2. CASE DoCheck(r) \/ DoGate(r) \/ DoBatch(r) \/ DoEnter(r) \/ DoFind(r) \/ DoAlter(r)
    BY <2>2 DEF DoCheck, DoGate, DoBatch, DoEnter, DoFind, DoAlter, tables, ghosts
  <2>3. CASE ReadBalance(r) \/ EditNotFound(r) \/ DoMark(r)
    BY <2>3 DEF ReadBalance, EditNotFound, DoMark, tables, ghosts
  <2> QED
    BY <1>2, <2>1, <2>2, <2>3 DEF Work
<1>3. ASSUME NEW r \in Requests, Arrive(r) PROVE UNCHANGED <<visible, edited>>
  BY <1>1, <1>3, ArriveO DEF Begun, Begin, tables, ghosts
<1>4. ASSUME NEW r \in Requests, Fail(r) PROVE UNCHANGED <<visible, edited>>
  BY <1>4 DEF Fail, tables
<1>5. CASE Tick \/ UNCHANGED vars
  BY <1>5 DEF Tick, vars, tables, ghosts
<1> QED
  BY <1>2, <1>3, <1>4, <1>5, NoFlush DEF Next

LEMMA InitRefines == ASSUME Init PROVE Books!Init
<1>1. \A w \in Workers : visible[w] = {} /\ edited = {}
  BY DEF Init
<1>2. ASSUME NEW w \in Workers PROVE BalanceIn(visible, w) = [unpaid |-> 0, paid |-> 0, total |-> 0]
  <2>1. CurrentIn(visible, w) = [f \in Fields \union {"at"} |-> 0]
    BY <1>1, OnlyAnswer
  <2> QED
    BY <2>1 DEF BalanceIn, Fields
<1>3. Balances(visible) = [w \in Workers |-> [unpaid |-> 0, paid |-> 0, total |-> 0]]
  BY <1>2 DEF Balances
<1>4. edited = {}
  BY DEF Init
<1> QED
  BY <1>3, <1>4, BalanceNow DEF Books!Init

\* One request at a time on rows that are settled: the ledger implements
\* Account.  Every balance moves only by a whole earning, a whole payout or an
\* edit of its own worker, whatever the requests do before and after, and
\* wherever they fail.
THEOREM LedgerImplementsAccount == ASSUME OneAtATime PROVE Spec => LedgerRefined
<1> DEFINE B == [w \in Workers |-> BalanceOf(w)]
<1>1. Init => OInv /\ Books!Init
  BY InitO, InitRefines
<1>2. OInv /\ [Next]_vars => OInv'
  BY NextO
<1>3. OInv /\ [Next]_vars => [Books!Next]_<<B, edited>>
  <2> SUFFICES ASSUME OInv, [Next]_vars PROVE Books!Next \/ UNCHANGED <<B, edited>>
    OBVIOUS
  <2>1. visible' = visible => B' = B
    BY BalanceNow, BalanceThen
  <2> HIDE DEF B
  <2> QED
    BY <2>1, NextRefines
<1> QED
  BY <1>1, <1>2, <1>3, PTL DEF Spec, LedgerRefined, Books!Spec
-----------------------------------------------------------------------------
(* Payouts that were validated.  NoUnapprovedOverdraft is not inductive:   *)
(* what the check found must still be there when the balance is written,   *)
(* past the gate, the batch row and the payouts of the other workers.      *)

HeadIs(T, op) == T # << >> /\ Head(T).op = op
CoveredIn(V, item) == CurrentIn(V, item.worker).unpaid >= item.amount
Distinct(items) == \A j, k \in 1..Len(items) : items[j].worker = items[k].worker => j = k
ToCheck(T, item) == HeadIs(T, "check") /\ \E j \in 1..Len(Head(T).items) : Head(T).items[j] = item

\* The items a request c with the list T has still to pay: of different
\* workers, each covered by its balance once it has been checked.
Payable(V, c, T, items) ==
    /\ Distinct(items)
    /\ HeadIs(T, "adjust") => \A k \in 1..Len(items) : items[k].worker # Head(T).worker
    /\ c.validated => \A k \in 1..Len(items) : CoveredIn(V, items[k])
    /\ (HeadIs(T, "check") \/ HeadIs(T, "gate")) /\ ~c.short =>
          \A k \in 1..Len(items) : ToCheck(T, items[k]) \/ CoveredIn(V, items[k])

PaysUp(V, c, T) ==
    /\ \A e \in Enters(T) : Payable(V, c, T, e.items)
    /\ c.validated /\ T # << >> => Head(T).op \in {"batch", "enter", "adjust", "mark"}
    /\ c.validated /\ HeadIs(T, "adjust") =>
          CurrentIn(V, Head(T).worker).unpaid + Head(T).change.unpaid >= 0

SInv == OInv /\ overdrawn = {} /\ \A r \in Requests : PaysUp(visible, ctx[r], todo[r])

\* What a list without items to pay, and a request not validated, come to.
LEMMA NothingToPay ==
    ASSUME NEW V, NEW c, NEW T, Enters(T) = {}, ~c.validated \/ T = << >> \/ HeadIs(T, "mark")
    PROVE  PaysUp(V, c, T)
  BY DEF PaysUp, HeadIs

\* Behind a step that does not check or alter come neither checks nor gates.
LEMMA BehindStep ==
    ASSUME OInv, NEW r \in Requests, todo[r] # << >>, Step(r).op \notin {"alter", "check"},
           Tail(todo[r]) # << >>
    PROVE  Head(Tail(todo[r])).op \in {"batch", "enter", "mark"}
<1> DEFINE rest == Tail(todo[r])
           s == todo[r]
<1>1. /\ s \in Seq(SoundSteps) /\ s # << >> /\ Laid(s) /\ rest \in Seq(SoundSteps) /\ rest # << >>
      /\ s[1].op \notin {"alter", "check"}
  BY StepParts
<1>2. \A i \in 1..Len(rest) : rest[i].op \in Later /\ rest[i].op # "gate"
  BY <1>1, LaidTail
<1> HIDE DEF rest, s
<1>3. 1 \in 1..Len(rest) /\ Head(rest) = rest[1]
  BY <1>1
<1> QED
  BY <1>2, <1>3 DEF Later, rest

\* A request past its gate goes on with what it had to pay covered as before.
LEMMA PastGate ==
    ASSUME SInv, OneAtATime, NEW r \in Requests, todo[r] # << >>,
           Step(r).op \notin {"alter", "check", "gate"}, OInv', overdrawn' = {},
           ctx'[r].validated = ctx[r].validated,
           \/ todo'[r] = << >> \/ todo'[r] = Tail(todo[r])
           \/ HeadIs(todo'[r], "mark"),
           Enters(todo'[r]) \subseteq Enters(todo[r]),
           \A e \in Enters(todo'[r]) : \A k \in 1..Len(e.items) :
               CurrentIn(visible', e.items[k].worker) = CurrentIn(visible, e.items[k].worker)
    PROVE  SInv'
<1>1. todo'[r] # << >> => Head(todo'[r]).op \in {"batch", "enter", "mark"}
  BY BehindStep DEF SInv, HeadIs
<1>2. PaysUp(visible, ctx[r], todo[r])
  BY DEF SInv
<1>3. ASSUME NEW e \in Enters(todo'[r]) PROVE Payable(visible', ctx'[r], todo'[r], e.items)
  <2>1. Payable(visible, ctx[r], todo[r], e.items)
    BY <1>2 DEF PaysUp
  <2>2. Distinct(e.items) /\ (ctx[r].validated => \A k \in 1..Len(e.items) : CoveredIn(visible, e.items[k]))
    BY <2>1 DEF Payable
  <2>3. ctx'[r].validated => \A k \in 1..Len(e.items) : CoveredIn(visible', e.items[k])
    BY <2>2 DEF CoveredIn
  <2> QED
    BY <1>1, <2>2, <2>3 DEF Payable, HeadIs
<1>4. PaysUp(visible', ctx'[r], todo'[r])
  BY <1>1, <1>3 DEF PaysUp, HeadIs
<1> QED
  BY <1>4 DEF SInv, OneAtATime

LEMMA DoCheckS ==
    ASSUME SInv, OneAtATime, OInv', NEW r \in Requests, DoCheck(r)
    PROVE  SInv'
<1> DEFINE s == Step(r)
           item == Head(s.items)
           rest == Tail(s.items)
           first == IF rest = << >> THEN << >> ELSE <<Check(rest)>>
           T == todo'[r]
<1>1. /\ todo[r] # << >> /\ s.op = "check" /\ T = first \o Tail(todo[r])
      /\ UNCHANGED <<visible, overdrawn>> /\ OInv
      /\ DOMAIN todo = Requests
  BY DEF DoCheck, GoOn, At, tables, ghosts, SInv, OInv, IInv, TypedWork
<1>2. /\ s.items \in Seq(Item) /\ s.items # << >> /\ Tail(todo[r]) \in Seq(SoundSteps)
  BY <1>1, StepParts, StepKinds DEF ItemSeqs
<1>3. /\ item \in Item /\ rest \in Seq(Item)
      /\ \A j \in 1..Len(s.items) : s.items[j] = item \/ (j - 1 \in 1..Len(rest) /\ s.items[j] = rest[j - 1])
  BY <1>2
<1>4. ctx'[r].validated = ctx[r].validated /\ ~ctx[r].validated
  <2>1. ctx'[r].validated = ctx[r].validated
    BY DEF DoCheck, SInv, OInv, TypedRest
  <2> QED
    BY <1>1, <2>1 DEF SInv, PaysUp, Step
<1>5. ~ctx'[r].short => ~ctx[r].short /\ CoveredIn(visible, item)
  <2>1. item.worker \in Workers /\ item.amount \in Nat
    BY <1>3, ItemParts
  <2>2. Answers(item.worker) = {Current(item.worker)} /\ Current(item.worker).unpaid \in Int
    BY <1>1, <2>1, CurrentRow
  <2>3. ctx'[r].short = (ctx[r].short \/ Current(item.worker).unpaid < item.amount)
    BY <2>2 DEF DoCheck, SInv, OInv, TypedRest
  <2> HIDE DEF item
  <2>4. ~ctx'[r].short => ~ctx[r].short /\ ~(Current(item.worker).unpaid < item.amount)
    BY <2>3
  <2>5. ~(Current(item.worker).unpaid < item.amount) => Current(item.worker).unpaid >= item.amount
    BY <2>1, <2>2
  <2> QED
    BY <2>4, <2>5, CurrentNow DEF CoveredIn
<1>6. /\ Enters(T) \subseteq Enters(todo[r]) /\ ~HeadIs(T, "adjust")
      /\ IF rest = << >> THEN ~HeadIs(T, "check") ELSE HeadIs(T, "check") /\ Head(T).items = rest
  <2>1. CASE rest = << >>
    <3>1. T = Tail(todo[r])
      BY <1>1, <1>2, <2>1
    <3>2. Follows(r, T)
      BY <1>1, <3>1, RestFollows
    <3>3. T # << >> => Head(T).op \in Later
      <4>1. /\ todo[r] \in Seq(SoundSteps) /\ Laid(todo[r]) /\ todo[r][1].op = "check"
        BY <1>1, StepParts
      <4>2. \A i \in 1..Len(Tail(todo[r])) : Tail(todo[r])[i].op \in Later
        BY <1>1, <4>1, LaidTail
      <4>3. T # << >> => 1 \in 1..Len(T) /\ Head(T) = T[1]
        BY <1>2, <3>1
      <4> QED
        BY <3>1, <4>2, <4>3
    <3> QED
      BY <2>1, <3>2, <3>3 DEF Follows, HeadIs, Later
  <2>2. CASE rest # << >>
    <3>1. T = <<Check(rest)>> \o Tail(todo[r])
      BY <1>1, <2>2
    <3>2. Check(rest) \in SoundSteps /\ Check(rest).op = "check" /\ Check(rest).items = rest
      BY <1>3, <2>2, StepsMade, Operations DEF ItemSeqs, Check
    <3> HIDE DEF rest, T
    <3>3. Follows(r, T)
      BY <1>1, <3>1, <3>2, AgainFollows DEF T
    <3>4. T # << >> /\ Head(T) = Check(rest)
      BY <1>2, <3>1
    <3> QED
      BY <2>2, <3>2, <3>3, <3>4 DEF Follows, HeadIs
  <2> QED
    BY <2>1, <2>2
<1> HIDE DEF T, item, rest, first
<1>7. ASSUME NEW e \in Enters(T) PROVE Payable(visible', ctx'[r], T, e.items)
  <2>1. Payable(visible, ctx[r], todo[r], e.items)
    BY <1>6 DEF SInv, PaysUp
  <2>2. Distinct(e.items)
    BY <2>1 DEF Payable
  <2>3. ASSUME ~ctx'[r].short, NEW k \in 1..Len(e.items)
        PROVE  ToCheck(T, e.items[k]) \/ CoveredIn(visible', e.items[k])
    <3>1. ToCheck(todo[r], e.items[k]) \/ CoveredIn(visible, e.items[k])
      BY <1>1, <1>5, <2>1, <2>3 DEF Payable, HeadIs, Step
    <3>2. CASE CoveredIn(visible, e.items[k])
      BY <1>1, <3>2 DEF CoveredIn
    <3>3. CASE ToCheck(todo[r], e.items[k])
      <4>1. PICK j \in 1..Len(s.items) : s.items[j] = e.items[k]
        BY <3>3 DEF ToCheck, Step
      <4>2. CASE e.items[k] = item
        BY <1>1, <1>5, <2>3, <4>2 DEF CoveredIn
      <4>3. CASE e.items[k] # item
        <5>1. j - 1 \in 1..Len(rest) /\ e.items[k] = rest[j - 1]
          BY <1>3, <4>1, <4>3
        <5>2. rest # << >>
          BY <5>1
        <5> QED
          BY <1>6, <5>1, <5>2 DEF ToCheck
      <4> QED
        BY <4>2, <4>3
    <3> QED
      BY <3>1, <3>2, <3>3
  <2> QED
    BY <1>4, <1>6, <2>2, <2>3 DEF Payable
<1>8. PaysUp(visible', ctx'[r], todo'[r])
  BY <1>4, <1>7 DEF PaysUp, T
<1> QED
  BY <1>1, <1>8 DEF SInv, OneAtATime

\* The gate lets nothing pass that is short, unless it is overridden.
LEMMA DoGateS ==
    ASSUME SInv, OneAtATime, OInv', NEW r \in Requests, DoGate(r)
    PROVE  SInv'
<1>1. /\ todo[r] # << >> /\ Step(r).op = "gate" /\ UNCHANGED <<visible, overdrawn>> /\ OInv
      /\ todo'[r] = << >> \/ todo'[r] = Tail(todo[r])
      /\ ctx'[r].validated = ~ctx[r].override
      /\ ctx[r].short /\ ~ctx[r].override => todo'[r] = << >>
  BY DEF DoGate, Done, GoOn, At, tables, ghosts, SInv, OInv, IInv, TypedWork
<1>2. todo'[r] # << >> => Head(todo'[r]).op \in {"batch", "enter", "mark"}
  BY <1>1, BehindStep
<1>3. Enters(todo'[r]) \subseteq Enters(todo[r])
  BY <1>1, RestFollows, NothingFollows DEF Follows
<1>4. ASSUME NEW e \in Enters(todo'[r]) PROVE Payable(visible', ctx'[r], todo'[r], e.items)
  <2>1. Payable(visible, ctx[r], todo[r], e.items)
    BY <1>3 DEF SInv, PaysUp
  <2>2. CASE ctx[r].short /\ ~ctx[r].override
    <3>1. Enters(todo'[r]) = {}
      BY <1>1, <2>2, EntersNone
    <3> QED
      BY <3>1
  <2>3. CASE ~ctx[r].short
    <3>1. \A k \in 1..Len(e.items) : CoveredIn(visible, e.items[k])
      BY <1>1, <2>1, <2>3 DEF Payable, HeadIs, Step, ToCheck
    <3> QED
      BY <1>1, <1>2, <2>1, <3>1 DEF Payable, HeadIs, CoveredIn
  <2>4. CASE ctx[r].override
    BY <1>1, <1>2, <2>1, <2>4 DEF Payable, HeadIs
  <2> QED
    BY <2>2, <2>3, <2>4
<1>5. PaysUp(visible', ctx'[r], todo'[r])
  BY <1>2, <1>4 DEF PaysUp, HeadIs
<1> QED
  BY <1>1, <1>5 DEF SInv, OneAtATime

\* One payout is taken off the list; the others are of other workers.
LEMMA DoEnterS ==
    ASSUME SInv, OneAtATime, IInv', TypedRest', OInv', NEW r \in Requests, DoEnter(r)
    PROVE  SInv'
<1> DEFINE s == Step(r)
           item == Head(s.items)
           rest == Tail(s.items)
           T == todo'[r]
<1>1. /\ todo[r] # << >> /\ s.op = "enter" /\ UNCHANGED <<visible, overdrawn, ctx>> /\ OInv
      /\ T # << >> /\ Head(T) = Adjust(item.worker, Change(s.book, item.amount))
  BY DoEnterO DEF DoEnter, At, ghosts, SInv
<1>2. /\ s.items \in Seq(Item) /\ s.items # << >> /\ s.book \in {"earnings", "payouts"}
      /\ s \in Enters(todo[r])
  <2>1. s \in Enters(todo[r])
    BY <1>1, StepParts DEF Enters
  <2> QED
    BY <1>1, <2>1, StepParts, StepKinds DEF ItemSeqs
<1>3. /\ item \in Item /\ item = s.items[1] /\ Len(s.items) \in Nat \ {0} /\ Len(rest) = Len(s.items) - 1
      /\ \A k \in 1..Len(rest) : rest[k] = s.items[k + 1]
  BY <1>2
<1>4. item.worker \in Workers /\ item.amount \in Nat
  BY <1>3, ItemParts
<1>5. Payable(visible, ctx[r], todo[r], s.items)
  BY <1>2 DEF SInv, PaysUp
<1>6. /\ Head(T).op = "adjust" /\ Head(T).worker = item.worker
      /\ Head(T).change = Change(s.book, item.amount)
  BY <1>1 DEF Adjust
<1>7. \A e \in Enters(T) : e.items = rest
  BY <1>1, DoEnterO DEF SInv
<1>8. /\ Distinct(rest) /\ \A k \in 1..Len(rest) : rest[k].worker # item.worker
      /\ ctx[r].validated => \A k \in 1..Len(rest) : CoveredIn(visible, rest[k])
  <2>1. \A k \in 1..Len(rest) : k + 1 \in 1..Len(s.items) /\ k + 1 # 1 /\ 1 \in 1..Len(s.items)
    BY <1>3
  <2> HIDE DEF s, item, rest, T
  <2>2. \A k \in 1..Len(rest) : rest[k].worker # item.worker
    BY <1>3, <1>5, <2>1 DEF Payable, Distinct
  <2>3. ASSUME NEW j \in 1..Len(rest), NEW k \in 1..Len(rest), rest[j].worker = rest[k].worker
        PROVE  j = k
    <3>1. j + 1 = k + 1
      BY <1>3, <1>5, <2>1, <2>3 DEF Payable, Distinct
    <3> QED
      BY <1>3, <3>1
  <2>4. ctx[r].validated => \A k \in 1..Len(rest) : CoveredIn(visible, rest[k])
    BY <1>3, <1>5, <2>1 DEF Payable
  <2> QED
    BY <2>2, <2>3, <2>4 DEF Distinct
<1>9. ctx[r].validated => CurrentIn(visible, item.worker).unpaid + Head(T).change.unpaid >= 0
  <2>1. ctx[r].validated => CurrentIn(visible, item.worker).unpaid >= item.amount
    BY <1>3, <1>5 DEF Payable, CoveredIn
  <2>2. CurrentIn(visible, item.worker).unpaid \in Int
    BY <1>1, <1>4, CurrentRow, CurrentNow
  <2>3. Head(T).change.unpaid = item.amount \/ Head(T).change.unpaid = 0 - item.amount
    BY <1>2, <1>6 DEF Change
  <2> HIDE DEF item, T
  <2> QED
    BY <1>4, <2>1, <2>2, <2>3
<1> HIDE DEF s, item, rest, T
<1>10. \A e \in Enters(T) : Payable(visible', ctx'[r], T, e.items)
  BY <1>1, <1>6, <1>7, <1>8 DEF Payable, HeadIs, CoveredIn
<1>11. PaysUp(visible', ctx'[r], todo'[r])
  BY <1>1, <1>6, <1>9, <1>10 DEF PaysUp, T
<1> QED
  BY <1>1, <1>11 DEF SInv, OneAtATime

\* The balance is written; those of the other workers stay as they are.
LEMMA WriteBalanceS ==
    ASSUME SInv, OneAtATime, IInv', TypedRest', NEW r \in Requests, WriteBalance(r)
    PROVE  SInv'
<1> DEFINE w == Step(r).worker
<1>1. /\ todo[r] # << >> /\ Step(r).op = "adjust" /\ todo'[r] = Tail(todo[r]) /\ OInv
      /\ ctx' = ctx
  BY DEF WriteBalance, Done, GoOn, At, SInv, OInv, IInv, TypedWork
<1>2. /\ OInv' /\ seen[r] = Current(w) /\ w \in Workers /\ Step(r).change \in Balance
      /\ \A v \in Workers \ {w} : CurrentIn(visible', v) = CurrentIn(visible, v)
  BY <1>1, WriteBalanceO
<1>3. PaysUp(visible, ctx[r], todo[r])
  BY DEF SInv
<1>4. overdrawn' = {}
  <2>1. Plus(seen[r], Step(r).change).unpaid = CurrentIn(visible, w).unpaid + Step(r).change.unpaid
    BY <1>2, CurrentNow DEF Plus
  <2>2. ctx[r].validated => CurrentIn(visible, w).unpaid + Step(r).change.unpaid >= 0
    BY <1>1, <1>3 DEF PaysUp, HeadIs, Step
  <2>3. CurrentIn(visible, w).unpaid \in Int /\ Step(r).change.unpaid \in Int
    BY <1>1, <1>2, CurrentRow, CurrentNow DEF Balance
  <2>4. ctx[r].validated => ~(Plus(seen[r], Step(r).change).unpaid < 0)
    BY <2>1, <2>2, <2>3
  <2> QED
    BY <2>4 DEF WriteBalance, SInv
<1>5. Enters(todo'[r]) \subseteq Enters(todo[r])
  BY <1>1, RestFollows DEF Follows
<1>6. ASSUME NEW e \in Enters(todo'[r]), NEW k \in 1..Len(e.items)
      PROVE  CurrentIn(visible', e.items[k].worker) = CurrentIn(visible, e.items[k].worker)
  <2>1. e.items[k].worker # w
    BY <1>1, <1>3, <1>5, <1>6 DEF PaysUp, Payable, HeadIs, Step
  <2>2. e.items[k].worker \in Workers
    <3>1. e \in SoundSteps /\ e.op = "enter"
      BY <1>1, <1>5, <1>6, StepParts DEF Enters
    <3>2. e.items \in Seq(Item)
      BY <3>1, StepKinds DEF ItemSeqs
    <3> QED
      BY <1>6, <3>2, ItemParts
  <2> QED
    BY <1>2, <2>1, <2>2
<1> QED
  BY <1>1, <1>2, <1>4, <1>5, <1>6, PastGate

\* Steps of requests that are past their gate, or have none.
LEMMA OtherWorkS ==
    ASSUME SInv, OneAtATime, IInv', TypedRest', OInv', NEW r \in Requests,
           DoBatch(r) \/ DoMark(r) \/ EditNotFound(r)
    PROVE  SInv'
<1>1. /\ todo[r] # << >> /\ Step(r).op \notin {"alter", "check", "gate"} /\ DOMAIN todo = Requests
      /\ OInv /\ UNCHANGED <<visible, overdrawn>> /\ overdrawn = {}
  BY DEF DoBatch, DoMark, EditNotFound, At, tables, ghosts, SInv, OInv, IInv, TypedWork
<1>2. ctx'[r].validated = ctx[r].validated
  <2>1. CASE DoBatch(r)
    BY <2>1 DEF DoBatch, SInv, OInv, IInv, TypedWork
  <2>2. CASE DoMark(r) \/ EditNotFound(r)
    BY <2>2 DEF DoMark, EditNotFound
  <2> QED
    BY <2>1, <2>2
<1>3. CASE todo'[r] = Tail(todo[r])
  <2>1. Enters(todo'[r]) \subseteq Enters(todo[r])
    BY <1>1, <1>3, RestFollows DEF Follows
  <2> QED
    BY <1>1, <1>2, <1>3, <2>1, PastGate
<1>4. CASE DoBatch(r) \/ EditNotFound(r)
  BY <1>1, <1>3, <1>4 DEF DoBatch, EditNotFound, Done, GoOn
<1>5. CASE DoMark(r)
  <2>1. CASE Step(r).rewards = {}
    BY <1>1, <1>3, <1>5, <2>1 DEF DoMark, Done, GoOn
  <2>2. CASE Step(r).rewards # {}
    <3>1. PICK reward \in Step(r).rewards :
            todo'[r] = <<Mark(Step(r).rewards \ {reward})>> \o Tail(todo[r])
      BY <1>1, <1>5, <2>2 DEF DoMark, GoOn
    <3> DEFINE x == Mark(Step(r).rewards \ {reward})
    <3>2. x \in SoundSteps /\ x.op = "mark" /\ Step(r).op = "mark"
      <4>1. Step(r).rewards \in SUBSET Rewards /\ Step(r).op = "mark"
        BY <1>1, <1>5, StepParts, StepKinds DEF DoMark, At
      <4> QED
        BY <4>1, StepsMade, Operations
    <3> HIDE DEF x
    <3>3. Follows(r, <<x>> \o Tail(todo[r]))
      BY <1>1, <3>2, AgainFollows
    <3>4. <<x>> \o Tail(todo[r]) # << >> /\ Head(<<x>> \o Tail(todo[r])) = x
      <4>1. Tail(todo[r]) \in Seq(SoundSteps)
        BY <1>1, StepParts
      <4> QED
        BY <4>1
    <3>5. HeadIs(todo'[r], "mark") /\ Enters(todo'[r]) \subseteq Enters(todo[r])
      BY <3>1, <3>2, <3>3, <3>4 DEF HeadIs, Follows, x
    <3> QED
      BY <1>1, <1>2, <3>5, PastGate
  <2> QED
    BY <2>1, <2>2
<1> QED
  BY <1>4, <1>5

\* The lists a request with nothing to check may arrive with, and one that
\* checks all it is to pay.
LEMMA BegunPaysUp ==
    ASSUME NEW V, NEW c, ~c.validated, NEW T, ~HeadIs(T, "adjust"),
           \A e \in Enters(T) : /\ Distinct(e.items)
                                /\ HeadIs(T, "check") => Head(T).items = e.items
                                /\ ~HeadIs(T, "gate")
    PROVE  PaysUp(V, c, T)
<1>1. ASSUME NEW e \in Enters(T) PROVE Payable(V, c, T, e.items)
  BY <1>1 DEF Payable, ToCheck
<1> QED
  BY <1>1 DEF PaysUp

\* A batch names a worker once.
LEMMA ListsDistinct ==
    ASSUME RepeatWorkers = FALSE
    PROVE  /\ \A items \in ItemLists : Distinct(items)
           /\ \A item \in Item : Distinct(<<item>>)
<1>1. ASSUME NEW item PROVE Distinct(<<item>>)
  BY DEF Distinct
<1>2. ASSUME NEW p \in Pairs, p[1].worker # p[2].worker PROVE Distinct(p)
  <2>1. PICK i \in Item, j \in Item : p = <<i, j>>
    BY DEF Pairs
  <2>2. Len(p) = 2
    BY <2>1
  <2> QED
    BY <1>2, <2>2 DEF Distinct
<1> QED
  BY <1>1, <1>2 DEF ItemLists

LEMMA ArriveS ==
    ASSUME SInv, OneAtATime, RepeatWorkers = FALSE, OInv', NEW r \in Requests, Arrive(r)
    PROVE  SInv'
<1> DEFINE Good(T) == /\ ~HeadIs(T, "adjust")
                      /\ \A e \in Enters(T) : /\ Distinct(e.items)
                                              /\ HeadIs(T, "check") => Head(T).items = e.items
                                              /\ ~HeadIs(T, "gate")
<1>1. ASSUME NEW override \in BOOLEAN, NEW steps, Begin(r, override, steps), Good(steps)
      PROVE  SInv'
  <2>1. /\ todo'[r] = steps /\ ~ctx'[r].validated /\ overdrawn' = {}
    BY <1>1 DEF Begin, ghosts, SInv, OInv, IInv, TypedWork
  <2>2. PaysUp(visible', ctx'[r], todo'[r])
    BY <1>1, <2>1, BegunPaysUp
  <2> QED
    BY <2>1, <2>2 DEF SInv, OneAtATime
<1>2. ASSUME NEW x, x.op \in {"find", "edit"} PROVE Good(<<x>>)
  <2>1. Enters(<<x>>) = {}
    BY <1>2, EntersNone
  <2> QED
    BY <1>2, <2>1 DEF HeadIs
<1>3. ASSUME NEW items, Distinct(items) PROVE Good(<<Enter("earnings", items)>>)
  <2> DEFINE x == Enter("earnings", items)
  <2>1. x.op = "enter" /\ x.items = items
    BY DEF Enter
  <2> HIDE DEF x
  <2>2. \A e \in Enters(<<x>>) : e = x
    BY DEF Enters
  <2>3. Good(<<x>>)
    BY <1>3, <2>1, <2>2 DEF HeadIs
  <2> QED
    BY <2>3 DEF x
<1>4. ASSUME NEW items, Distinct(items)
      PROVE  Good(<<Check(items), Gate, Enter("payouts", items)>>)
  <2> DEFINE x == Check(items)
             y == Enter("payouts", items)
             T == <<x, Gate, y>>
  <2>1. x.op = "check" /\ x.items = items /\ y.op = "enter" /\ y.items = items /\ Gate.op = "gate"
    BY DEF Check, Enter, Gate
  <2> HIDE DEF x, y
  <2>2. Len(T) = 3 /\ T[1] = x /\ T[2] = Gate /\ T[3] = y /\ Head(T) = x /\ T # << >>
    OBVIOUS
  <2> HIDE DEF T
  <2>3. \A e \in Enters(T) : e = y
    BY <2>1, <2>2 DEF Enters
  <2>4. Good(T)
    BY <1>4, <2>1, <2>2, <2>3 DEF HeadIs
  <2> QED
    BY <2>4 DEF T, x, y
<1>5. ASSUME NEW items, Distinct(items), NEW rewards
      PROVE  Good(<<Check(items), Gate, InsertBatch(items), Enter("payouts", items), Mark(rewards)>>)
  <2> DEFINE x == Check(items)
             y == Enter("payouts", items)
             b == InsertBatch(items)
             m == Mark(rewards)
             T == <<x, Gate, b, y, m>>
  <2>1. /\ x.op = "check" /\ x.items = items /\ y.op = "enter" /\ y.items = items /\ Gate.op = "gate"
        /\ b.op = "batch" /\ m.op = "mark"
    BY DEF Check, Enter, Gate, InsertBatch, Mark
  <2> HIDE DEF x, y, b, m
  <2>2. /\ Len(T) = 5 /\ T[1] = x /\ T[2] = Gate /\ T[3] = b /\ T[4] = y /\ T[5] = m
        /\ Head(T) = x /\ T # << >>
    OBVIOUS
  <2> HIDE DEF T
  <2>3. \A e \in Enters(T) : e = y
    BY <2>1, <2>2 DEF Enters
  <2>4. Good(T)
    BY <1>5, <2>1, <2>2, <2>3 DEF HeadIs
  <2> QED
    BY <2>4 DEF T, x, y, b, m
<1>6. ASSUME NEW id, NEW a PROVE Good(<<Find(id, a)>>) /\ Good(<<Edit(id, a)>>)
  <2>1. Find(id, a).op = "find" /\ Edit(id, a).op = "edit"
    BY Operations
  <2> HIDE DEF Good
  <2> QED
    BY <1>2, <2>1
<1> HIDE DEF Good
<1>7. CASE \E items \in ItemLists : CreditEarnings(r, items)
  BY <1>1, <1>3, <1>7, ListsDistinct DEF CreditEarnings
<1>8. CASE \E id \in DOMAIN entries, a \in Revisions : ReviseEntry(r, id, a)
  BY <1>1, <1>8, <1>6 DEF ReviseEntry
<1>9. CASE \E w \in Workers, set \in EditSets : EditBalance(r, w, set)
  BY <1>1, <1>9, <1>6 DEF EditBalance
<1>10. CASE \E item \in Item, override \in BOOLEAN : SinglePayout(r, item, override)
  BY <1>1, <1>4, <1>10, ListsDistinct DEF SinglePayout
<1>11. CASE \E items \in ItemLists, override \in BOOLEAN, rewards \in SUBSET Rewards :
              BatchPayout(r, items, override, rewards)
  BY <1>1, <1>5, <1>11, ListsDistinct DEF BatchPayout
<1> QED
  BY <1>7, <1>8, <1>9, <1>10, <1>11 DEF Arrive

\* A request that is finding, altering or editing is not a validated one; it
\* ends with nothing more to pay.
LEMMA RevisionS ==
    ASSUME SInv, OneAtATime, IInv', TypedRest', OInv', NEW r \in Requests,
           DoFind(r) \/ DoAlter(r) \/ WriteEdit(r)
    PROVE  SInv'
<1>1. /\ todo[r] # << >> /\ Step(r).op \in {"find", "alter", "edit"} /\ ctx' = ctx
      /\ overdrawn' = {} /\ OInv /\ DOMAIN todo = Requests
  BY DEF DoFind, DoAlter, WriteEdit, At, ghosts, SInv, OInv, IInv, TypedWork
<1>2. ~ctx'[r].validated
  BY <1>1 DEF SInv, PaysUp, Step
<1>3. Enters(todo'[r]) = {}
  <2>1. CASE DoFind(r)
    BY <1>1, <2>1, DoFindO
  <2>2. CASE DoAlter(r)
    BY <1>1, <2>2, DoAlterO
  <2>3. CASE WriteEdit(r)
    <3>1. /\ todo[r] \in Seq(SoundSteps) /\ Laid(todo[r]) /\ todo[r][1] = Step(r) /\ Step(r).op = "edit"
      BY <1>1, <2>3, StepParts DEF WriteEdit, At
    <3>2. ~(Len(todo[r]) > 1)
      BY <3>1 DEF Laid
    <3>3. \A i \in 1..Len(Tail(todo[r])) : Tail(todo[r])[i].op # "enter"
      BY <1>1, <3>1, <3>2, TailByPlace
    <3>4. Enters(Tail(todo[r])) = {}
      BY <3>3, EntersNone
    <3> QED
      BY <1>1, <2>3, <3>4 DEF WriteEdit, Done, GoOn
  <2> QED
    BY <2>1, <2>2, <2>3
<1>4. PaysUp(visible', ctx'[r], todo'[r])
  BY <1>2, <1>3, NothingToPay
<1> QED
  BY <1>1, <1>4 DEF SInv, OneAtATime

LEMMA FailS ==
    ASSUME SInv, OneAtATime, OInv', NEW r \in Requests, Fail(r)
    PROVE  SInv'
<1>1. todo'[r] = << >> /\ overdrawn' = {}
  BY DEF Fail, SInv, OInv, IInv, TypedWork
<1>2. Enters(todo'[r]) = {}
  BY <1>1, EntersNone
<1>3. PaysUp(visible', ctx'[r], todo'[r])
  BY <1>1, <1>2, NothingToPay
<1> QED
  BY <1>1, <1>3 DEF SInv, OneAtATime

LEMMA NextS == ASSUME OneAtATime, RepeatWorkers = FALSE PROVE SInv /\ [Next]_vars => SInv'
<1> SUFFICES ASSUME SInv, [Next]_vars PROVE SInv'
  OBVIOUS
<1>1. OInv /\ OInv' /\ IInv' /\ TypedRest'
  BY NextO DEF SInv, OInv
<1>2. ASSUME NEW r \in Requests, Work(r) PROVE SInv'
  <2>1. CASE ReadBalance(r)
    BY <1>1, <2>1 DEF ReadBalance, tables, ghosts, SInv
  <2> QED
    BY <1>1, <1>2, <2>1, DoCheckS, DoGateS, DoEnterS, WriteBalanceS, OtherWorkS, RevisionS DEF Work
<1>3. CASE Tick \/ UNCHANGED vars
  BY <1>1, <1>3 DEF Tick, vars, tables, ghosts, SInv
<1> QED
  BY <1>1, <1>2, <1>3, ArriveS, FailS, NoFlush DEF Next

LEMMA InitS == ASSUME OneAtATime, Init PROVE SInv
<1>1. OInv /\ overdrawn = {} /\ \A r \in Requests : todo[r] = << >>
  BY InitO DEF Init
<1>2. ASSUME NEW r \in Requests PROVE PaysUp(visible, ctx[r], todo[r])
  <2>1. Enters(todo[r]) = {}
    BY <1>1, EntersNone
  <2> QED
    BY <1>1, <2>1, NothingToPay
<1> QED
  BY <1>1, <1>2 DEF SInv

\* One request at a time on rows that are settled, in which a batch names each
\* worker once: no payout that was validated and not overridden leaves a worker
\* with a negative balance.
THEOREM ValidatedNeverOverdraws ==
    ASSUME OneAtATime, RepeatWorkers = FALSE PROVE Spec => []NoUnapprovedOverdraft
<1>1. Init => SInv
  BY InitS
<1>2. SInv /\ [Next]_vars => SInv'
  BY NextS
<1>3. SInv => NoUnapprovedOverdraft
  BY DEF SInv, NoUnapprovedOverdraft
<1> QED
  BY <1>1, <1>2, <1>3, PTL DEF Spec
=============================================================================

------------------------------- MODULE Account -------------------------------
(***************************************************************************)
(* What the reward ledger promises of each worker's balance: the unpaid    *)
(* and the paid amount always add up to what was earned in total, and a    *)
(* balance moves only by an earning (credited or taken back) or by a       *)
(* payout (made or taken back), one at a time; an administrator may set    *)
(* the balance of a worker to anything, after which it is only moved on.   *)
(***************************************************************************)
EXTENDS Integers

CONSTANT Workers

VARIABLES
    balance,    \* [Workers -> [unpaid, paid, total]]
    edited      \* workers whose balance an administrator has set

Init ==
    /\ balance = [w \in Workers |-> [unpaid |-> 0, paid |-> 0, total |-> 0]]
    /\ edited = {}

\* An earning of a, or one of -a withdrawn.
Earn(w, a) ==
    /\ balance' = [balance EXCEPT ![w].unpaid = @ + a, ![w].total = @ + a]
    /\ UNCHANGED edited

Pay(w, a) ==
    /\ balance' = [balance EXCEPT ![w].unpaid = @ - a, ![w].paid = @ + a]
    /\ UNCHANGED edited

Edit(w, b) ==
    /\ balance' = [balance EXCEPT ![w] = b]
    /\ edited' = edited \union {w}

\* The one amount and the one balance a step can be about are read off it.
Next ==
    \E w \in Workers :
        \/ Earn(w, balance'[w].total - balance[w].total)
        \/ Pay(w, balance'[w].paid - balance[w].paid)
        \/ Edit(w, balance'[w])

Spec == Init /\ [][Next]_<<balance, edited>>
=============================================================================

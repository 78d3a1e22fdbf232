------------------------------ MODULE MCLedger ------------------------------
(***************************************************************************)
(* Two workers and one amount, which a revision may lower or take back:    *)
(* three requests in a row, or two at a time over two seconds.             *)
(***************************************************************************)
EXTENDS Ledger, TLC

CONSTANTS w1, w2, t1, r1, r2

\* Workers and requests are interchangeable in the safety runs.
Symmetry == Permutations(Workers) \union Permutations(Requests)
=============================================================================

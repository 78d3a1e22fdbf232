---------------------------- MODULE MCTidesStore ----------------------------
(***************************************************************************)
(* Two difficulties and one multiplier; the two tasks and one request;     *)
(* Ocean answers at first or it does not, and one thing more happens: a    *)
(* request, a new difficulty, another outage or a task that fails.         *)
(***************************************************************************)
EXTENDS TidesStore

CONSTANT r1

MCDefault == [network_difficulty |-> 1, multiplier |-> 8]
=============================================================================

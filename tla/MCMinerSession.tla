--------------------------- MODULE MCMinerSession ---------------------------
(***************************************************************************)
(* Two jobs for a queue of one, so that a share may be late for its job;   *)
(* an acceptance check every other share; a difficulty between two         *)
(* minimums, before or after any of three requests.  The miner subscribes, *)
(* authorizes and submits in any order, or never.                          *)
(***************************************************************************)
EXTENDS MinerSession

CONSTANTS j1, j2
=============================================================================

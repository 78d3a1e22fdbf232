------------------------------ MODULE MCSchema ------------------------------
(***************************************************************************)
(* A proxy that needs the database and an API service that does not; a     *)
(* table of shares, two views of which one selects from the other and      *)
(* which migrations drop, the table daily_rewards, to which migrations add *)
(* a column and set it, and the table tides_config with its default row.   *)
(* Three starts, of which two may overlap, and one failure.                *)
(***************************************************************************)
EXTENDS Schema

CONSTANTS proxy, api

MCMigrations ==
    << [kind |-> "drop", of |-> "worker_stats_5m", col |-> NoColumn],
       [kind |-> "drop", of |-> "worker_stats_mv", col |-> NoColumn],
       [kind |-> "column", of |-> "daily_rewards", col |-> "paid"],
       [kind |-> "data", of |-> "daily_rewards", col |-> "paid"] >>

MCStatements == <<"shares", "worker_stats_mv", "worker_stats_5m", "daily_rewards",
                  "tides_config", "tides_config row">>

MCSources == [x \in Objects |-> CASE x = "worker_stats_mv" -> {"shares"}
                                  [] x = "worker_stats_5m" -> {"worker_stats_mv"}
                                  [] x = "tides_config row" -> {"tides_config"}
                                  [] OTHER -> {}]

MCBornWith == [x \in Objects |-> {}]
=============================================================================

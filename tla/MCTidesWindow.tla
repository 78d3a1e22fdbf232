--------------------------- MODULE MCTidesWindow ----------------------------
(***************************************************************************)
(* Up to four of seven shares over four days, the first of which lies      *)
(* before TIDES_START_DATE; the target is that of two or three shares, so  *)
(* that windows end inside a day, at its boundary and at the first day.    *)
(***************************************************************************)
EXTENDS TidesWindow

MCShares == 1..7
MCDayOf == <<1, 2, 2, 3, 3, 4, 4>>
MCValueOf == <<1, 1, 3, 1, 2, 1, 3>>
=============================================================================

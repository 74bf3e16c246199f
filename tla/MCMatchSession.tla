---------------------------- MODULE MCMatchSession ----------------------------
(* Values for TLC: two humans on one team, a bot on the other. *)
EXTENDS MatchSession, TLC

Players == 1 .. 3
Humans == {1, 2}
Teams == (1 :> 0) @@ (2 :> 0) @@ (3 :> 1)
=============================================================================

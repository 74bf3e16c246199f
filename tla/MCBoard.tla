------------------------------ MODULE MCBoard ------------------------------
(* Board for TLC: a corridor of six tiles, with a wall on the third. *)
EXTENDS Board, TLC

Corridor == 1 .. 6

BothWays == {"left", "right"}

StepInCorridor ==
  [c \in Corridor |-> [d \in BothWays \cup {None} |->
     LET e == IF d = "left" THEN c - 1 ELSE c + 1 IN IF d # None /\ e \in Corridor THEN e ELSE Outside]]

Map == [c \in Corridor |-> IF c = 3 THEN "destructible" ELSE "empty"]

Ends == <<1, 6>>

Blocks == {{1, 2, 3}, {3, 4, 5}}

Rows == {Corridor}

Symmetry == Permutations(Player)
=============================================================================

---------------------------- MODULE MCRoomSession ----------------------------
(* RoomSession for TLC: who owns which tab. *)
EXTENDS RoomSession, TLC

CONSTANTS u1, u2, t1, t2, t3

OneTabEach == (t1 :> u1) @@ (t2 :> u2)

TwoTabsForOne == (t1 :> u1) @@ (t2 :> u1) @@ (t3 :> u2)

\* With one tab each the two users are interchangeable, tabs along with them.
Pairs == {(u1 :> u2) @@ (u2 :> u1) @@ (t1 :> t2) @@ (t2 :> t1)}

\* So are codes and games.
Symmetry == Pairs \cup Permutations(Code) \cup Permutations(Game)
=============================================================================

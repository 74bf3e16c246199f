---------------------------- MODULE MCPartySession ----------------------------
(* Values for TLC: two users, one of them with two tabs. *)
EXTENDS PartySession, TLC

CONSTANTS a, b, ta, tb1, tb2

Owners == (ta :> a) @@ (tb1 :> b) @@ (tb2 :> b)

\* Neither the parties nor the two tabs of b can be told apart.
Alike == Permutations(Party) \cup Permutations({tb1, tb2})
=============================================================================

----------------------------- MODULE MCOpenWorld -----------------------------
(* Values for TLC: an account with two tabs. *)
EXTENDS OpenWorld, TLC

CONSTANTS alice, a1, a2

Owners == (a1 :> alice) @@ (a2 :> alice)
=============================================================================

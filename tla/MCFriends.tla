----------------------------- MODULE MCFriends -----------------------------
(* Friends for TLC: neither users nor calls can be told apart. *)
EXTENDS Friends, TLC

Symmetry == Permutations(User) \cup Permutations(Call)
=============================================================================

--------------------------- MODULE MCLobbyService ---------------------------
(* LobbyService for TLC: model values for users, codes and callers. *)
EXTENDS LobbyService, TLC

Symmetry == Permutations(User) \cup Permutations(Code) \cup Permutations(Proc)
=============================================================================

------------------------------ MODULE MCLobby -------------------------------
(* Lobby for TLC: the users are interchangeable. *)
EXTENDS Lobby, TLC

UserSymmetry == Permutations(Users)
=============================================================================

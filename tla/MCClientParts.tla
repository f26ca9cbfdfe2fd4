---------------------------- MODULE MCClientParts ----------------------------
(* The instance of ClientParts that TLC checks: a catalog of two spells,   *)
(* one with two copies owned and one with one.                             *)
EXTENDS ClientParts, Texts, TLC
MCRarity == [c |-> "common", r |-> "rare"]
(* The entries of a page are told apart only by what they say.             *)
MCSymmetry == Permutations(Entries)
=============================================================================

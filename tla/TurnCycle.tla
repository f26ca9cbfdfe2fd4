----------------------------- MODULE TurnCycle ------------------------------
(***************************************************************************)
(* What a match of CheckMage promises about turns, as its two clients see  *)
(* it: the match rests only where a player must act, the players alternate *)
(* turn by turn, main phases may be skipped and a move phase never is.     *)
(* Module Match, which computes the phases step by step, is shown to       *)
(* implement it.                                                           *)
(***************************************************************************)
EXTENDS Phases

VARIABLES phase, turn, active

vars == <<phase, turn, active>>

here == RestAt(phase, turn, active)

(* White's first turn, in main1 or already in move. *)
Init == /\ phase \in {"main1", "move"}
        /\ turn = 1
        /\ active = White

Next == \E r \in NextRest(here) : /\ phase' = r.phase
                                  /\ turn' = r.turn
                                  /\ active' = r.active

Spec == Init /\ [][Next]_vars
=============================================================================

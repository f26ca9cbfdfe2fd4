------------------------------- MODULE Phases -------------------------------
(***************************************************************************)
(* The turn's phase machine (internal/phase) and the two sides of          *)
(* internal/match.  Only constants: every other module of the server       *)
(* extends this one.                                                       *)
(*                                                                         *)
(* A match is only ever seen at REST, in a phase that waits for its active *)
(* player: draw and end_turn are walked through inside one handler, and a  *)
(* main phase in which nothing can be cast is walked through as well       *)
(* (match.State.AutoAdvance).  NextRest is that walk with the cards left   *)
(* out; module Match has the cards, and shows that every walk it takes is  *)
(* one of these.                                                           *)
(***************************************************************************)
EXTENDS Integers

White  == "white"
Black  == "black"
Player == {White, Black}

Opponent(p) == IF p = White THEN Black ELSE White

Phase      == {"draw", "main1", "move", "main2", "end_turn"}
MainPhases == {"main1", "main2"}
RestPhases == {"main1", "move", "main2"}

(* phase.Order, as the successor it gives each phase. *)
NextPhase == [draw |-> "main1", main1 |-> "move", move |-> "main2",
              main2 |-> "end_turn", end_turn |-> "draw"]

(* phase.AllowedActions, for the actions a handler asks about. *)
Allows(ph, action) ==
    CASE action = "pass_phase" -> ph \in {"draw", "main1", "main2"}
      [] action = "make_move"  -> ph = "move"
      [] action = "cast_spell" -> ph \in MainPhases

(* Where a match can rest: the phase, the global turn, the active player. *)
Rest == [phase : RestPhases, turn : Nat \ {0}, active : Player]

RestAt(ph, t, p) == [phase |-> ph, turn |-> t, active |-> p]

(* The rollover: the opponent's next turn, resting in its main1 or, when    *)
(* nothing can be cast there, in its move phase.                            *)
NextTurn(r) ==
    {RestAt(ph, r.turn + 1, Opponent(r.active)) : ph \in {"main1", "move"}}

(* One Advance out of r, then AutoAdvance.  The move phase is never walked  *)
(* through.                                                                 *)
NextRest(r) ==
    CASE r.phase = "main1" -> {RestAt("move", r.turn, r.active)}
      [] r.phase = "move"  -> {RestAt("main2", r.turn, r.active)} \cup NextTurn(r)
      [] r.phase = "main2" -> NextTurn(r)
=============================================================================

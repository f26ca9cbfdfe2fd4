----------------------------- MODULE MatchStore -----------------------------
(***************************************************************************)
(* The state of a match in the client (matchStore.ts): the server's events *)
(* are its only source, and applyServerEvent the only way they enter.      *)
(*                                                                         *)
(* Of a match: whose turn and phase it is, the moves played, the cards in  *)
(* the own hand, whether some piece is frozen, whose clock runs; of the    *)
(* screen: the move shown in advance, the cast under way, the draw offers. *)
(***************************************************************************)
EXTENDS Naturals

initialMatchState ==
  [life |-> "idle", turn |-> "me", phase |-> "main", moves |-> 0, hand |-> 0, frozen |-> FALSE, clock |-> "none",
   optimistic |-> FALSE, cast |-> FALSE, incoming |-> FALSE, outgoing |-> FALSE]
enterQueue(s) == [initialMatchState EXCEPT !.life = "queued"]
previewMove(s) == [s EXCEPT !.optimistic = TRUE]
beginCast(s) == [s EXCEPT !.cast = TRUE]

(* The game is null until the first game_state.                            *)
HasGame(s) == s.life \in {"playing", "over"}

(* An offer received lapses with the own move, of which nobody is told:    *)
(* the state shows a move played while it was one's turn.                  *)
MovedByMe(s, e) == HasGame(s) /\ s.turn = "me" /\ e.moves > s.moves
GameState(s, e) ==
  [s EXCEPT !.life = "playing", !.turn = e.turn, !.phase = e.phase, !.moves = e.moves, !.frozen = e.frozen, !.clock = e.turn,
            !.incoming = @ /\ ~MovedByMe(s, e), !.optimistic = FALSE, !.cast = FALSE]
HandEvent(s, e) == [s EXCEPT !.hand = e.cards]
CardDrawn(s, e) == [s EXCEPT !.hand = @ + 1]
PhaseChanged(s, e) ==
  IF HasGame(s) THEN [s EXCEPT !.turn = e.turn, !.phase = e.phase, !.clock = e.turn] ELSE [s EXCEPT !.clock = e.turn]

(* As SpellCast, if the card were left for a hand event to take away.      *)
SpellCastKeepsCard(s, e) ==
  [s EXCEPT !.frozen = HasGame(s) /\ (@ \/ e.freezes), !.cast = @ /\ e.player # "me"]

(* The server sends no hand and, for an effect that leaves the board as it *)
(* is, no game_state after a cast: card and effect are applied here.       *)
SpellCast(s, e) ==
  [s EXCEPT !.hand = IF e.player = "me" /\ @ > 0 THEN @ - 1 ELSE @,
            !.frozen = HasGame(s) /\ (@ \/ e.freezes),
            !.cast = @ /\ e.player # "me"]
EffectExpired(s, e) == [s EXCEPT !.frozen = FALSE]
TimerUpdate(s, e) == [s EXCEPT !.clock = e.turn]
GameOver(s, e) ==
  [s EXCEPT !.life = "over", !.incoming = FALSE, !.outgoing = FALSE, !.clock = IF @ = "none" THEN @ ELSE "stopped"]
(* As Refusal, if a refused move stayed on the board.                      *)
RefusalKeepsPreview(s, e) == [s EXCEPT !.cast = FALSE]
Refusal(s, e) == [s EXCEPT !.optimistic = FALSE, !.cast = FALSE]
DrawOffer(s, e) == [s EXCEPT !.incoming = TRUE]
DrawOfferSent(s, e) == [s EXCEPT !.outgoing = TRUE]
DrawDeclined(s, e) == [s EXCEPT !.outgoing = FALSE]

applyServerEvent(s, e) ==
  IF s.life = "over" /\ e.type # "error" THEN s
  ELSE CASE e.type = "game_state" -> GameState(s, e)
         [] e.type = "hand" -> HandEvent(s, e)
         [] e.type = "card_drawn" -> CardDrawn(s, e)
         [] e.type = "phase_changed" -> PhaseChanged(s, e)
         [] e.type = "spell_cast" -> SpellCast(s, e)
         [] e.type = "effect_expired" -> EffectExpired(s, e)
         [] e.type = "timer_update" -> TimerUpdate(s, e)
         [] e.type = "game_over" -> GameOver(s, e)
         [] e.type = "error" -> Refusal(s, e)
         [] e.type = "draw_offer" -> DrawOffer(s, e)
         [] e.type = "draw_offer_sent" -> DrawOfferSent(s, e)
         [] e.type = "draw_declined" -> DrawDeclined(s, e)
=============================================================================

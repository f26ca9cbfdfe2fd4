----------------------------- MODULE SpellRoom -----------------------------
(***************************************************************************)
(* A match as the mock server plays it: room.ts over match.ts, tracker.ts  *)
(* and the board.  One action for each thing a player may do (move, cast,  *)
(* pass) and one for a phase that runs out of time.  Node runs a handler   *)
(* to its end before the next one, so every action is a whole handler:     *)
(* the checks, the effects, the reactions they set off (runes, triggers,   *)
(* auras), the phases that follow and the end of the game.                 *)
(*                                                                         *)
(* Left out: resignation, draw offers, connections (module Gateway), the   *)
(* third repetition, which needs eight half moves, and the identities in   *)
(* the graveyards.  A refused message changes nothing and is a stutter.    *)
(***************************************************************************)
EXTENDS Tracker, Sequences, SequencesExt, TLC

CONSTANTS
  Catalog,    \* the spells: cost, phases, uses per turn (0: no limit), targets, effects
  Starts,     \* the matches to play: position, hands, decks, mana floor and, as bounds,
              \* the squares aimed at and moved to and the last turn played
  MaxStrikes, \* phases in a row a player may let run out
  ManaCap     \* MAX_MANA_CAP

ASSUME BoundsAssumption == MaxStrikes \in Nat \ {0} /\ ManaCap \in Nat

VARIABLES start, fen, tracker, match, extra, strikes, ended
vars == <<start, fen, tracker, match, extra, strikes, ended>>

NoExtra == [player |-> "nobody", turn |-> 0, pieces |-> {}, noCapture |-> FALSE, active |-> FALSE, after |-> <<>>]
Going == [winner |-> "nobody", reason |-> "none"]
End(winner, reason) == [winner |-> winner, reason |-> reason]

-----------------------------------------------------------------------------
(* match.ts: phases, mana and cards.                                       *)

Draws(ps, n) ==
  LET k == IF n > Len(ps.deck) THEN Len(ps.deck) ELSE n
  IN  [ps EXCEPT !.hand = @ \o SubSeq(ps.deck, 1, k), !.deck = SubSeq(@, k + 1, Len(@))]
Least(a, b) == IF a < b THEN a ELSE b
Most(a, b) == IF a > b THEN a ELSE b
PlayerTurn(c, n) == IF c = "white" THEN (n + 1) \div 2 ELSE n \div 2
refreshMana(ps, c, n) ==
  LET m == Most(Least(PlayerTurn(c, n), ManaCap), start.floor[c])
  IN  [ps EXCEPT !.mana = m, !.maxMana = m, !.casts = <<>>]
advance(m) ==
  LET c == opponentOf(m.active)
  IN  CASE m.phase = "draw" -> [m EXCEPT !.phase = "main1"]
        [] m.phase = "main1" -> [m EXCEPT !.phase = "move"]
        [] m.phase = "move" -> [m EXCEPT !.phase = "main2"]
        [] OTHER -> [phase |-> "draw", active |-> c, turn |-> m.turn + 1,
                     ps |-> [m.ps EXCEPT ![c] = Draws(refreshMana(@, c, m.turn + 1), 1)]]

Used(ps, id) == IF id \in DOMAIN ps.casts THEN ps.casts[id] ELSE 0
withinLimits(ps, id) == Catalog[id].perTurn = 0 \/ Used(ps, id) < Catalog[id].perTurn
Affordable(m, c, id) ==
  /\ id \in ToSet(m.ps[c].hand)
  /\ Catalog[id].cost <= m.ps[c].mana
  /\ m.phase \in Catalog[id].phases
  /\ withinLimits(m.ps[c], id)
InMain(m) == m.phase \in {"main1", "main2"}
canCastAny(m) == \E id \in DOMAIN Catalog : Affordable(m, m.active, id)
shouldAutoAdvance(m) == m.phase = "draw" \/ (InMain(m) /\ ~canCastAny(m))
autoAdvance(m) ==
  FoldLeft(LAMBDA n, i : IF shouldAutoAdvance(n) THEN advance(n) ELSE n, m, [i \in 1..12 |-> i])
Spent(ps, id) ==
  [ps EXCEPT !.mana = @ - Catalog[id].cost, !.hand = RemoveFirst(@, id),
             !.discard = Append(@, id), !.casts = With(@, id, Used(ps, id) + 1)]

-----------------------------------------------------------------------------
(* Triggers and auras of the players (playerEffects.ts, events).           *)

OnLoss(t) == t.on = "own_piece_lost" /\ t.do = "draw_card"
OnAttack(t) == t.on = "shielded_piece_attacked" /\ t.do = "freeze_attacker"
SumOf(s) == FoldLeft(LAMBDA a, b : a + b, 0, s)
(* The owner of n pieces just lost draws for each of them.                 *)
onPieceLost(ps, n) ==
  IF n = 0 THEN ps
  ELSE LET fired == SelectSeq(ps.triggers, OnLoss)
       IN  [Draws(ps, SumOf([i \in DOMAIN fired |-> n * Most(fired[i].amount, 1)]))
              EXCEPT !.triggers = SelectSeq(@, LAMBDA t : ~(OnLoss(t) /\ t.oneShot))]
ownPawns(f, c) == countPieces(f, c, "pawn")
Refreshed(a, pawns) == [a EXCEPT !.active = pawns >= a.minPawns]
refreshAuras(players, f) ==
  [c \in Colors |-> [players[c] EXCEPT !.auras = [i \in DOMAIN @ |-> Refreshed(@[i], ownPawns(f, c))]]]
(* Durations of the triggers at the end of a turn.                         *)
tickTriggers(players, finishing) ==
  [c \in Colors |-> [players[c] EXCEPT !.triggers =
     SelectSeq([i \in DOMAIN @ |-> IF @[i].turns = PERMANENT \/ c = finishing THEN @[i]
                                   ELSE [@[i] EXCEPT !.turns = @ - 1]],
               LAMBDA t : t.turns = PERMANENT \/ t.turns > 0)]]
sidestepActive(players, c) ==
  \E i \in DOMAIN players[c].auras : players[c].auras[i].grant = "pawn_sidestep" /\ players[c].auras[i].active

-----------------------------------------------------------------------------
(* The moves a player has.                                                 *)

(* Mutant of isPlayable: frozen pieces move. *)
isPlayableFrozen(f, t, m) == ~moveBlocked(f, t, m)
isPlayable(f, t, m) == ~isFrozen(t, m.from) /\ ~moveBlocked(f, t, m)
PlayableMoves(f, t) == {m \in PseudoMoves(f) : isPlayable(f, t, m) /\ isLegal(f, m)}
hasPlayableMove(f, t) == \E m \in PseudoMoves(f) : isPlayable(f, t, m) /\ isLegal(f, m)
Specials(f, t, players) == specialMoves(f, t, sidestepActive(players, f.turn))
extraMoves(x, f, t) ==
  {m \in PlayableMoves(f, t) :
     /\ f.at[m.from].kind \in x.pieces
     /\ x.noCapture => captureSquare(f, m.from, m.to) = NoSquare}
gameStatus(f, t, players) ==
  IF ~hasPlayableMove(f, t) /\ Specials(f, t, players) = {}
  THEN IF isKingAttacked(f, f.turn) THEN "checkmate" ELSE "stalemate"
  ELSE IF insufficientMaterial(f) THEN "draw" ELSE "ongoing"
(* The end, if any, for the side to move of f.                             *)
EndBy(status, mover) ==
  CASE status = "checkmate" -> End(opponentOf(mover), "checkmate")
    [] status \in {"stalemate", "draw"} -> End("nobody", status)
    [] OTHER -> Going
StatusEnd(f, t, players) == EndBy(gameStatus(f, t, players), f.turn)

Rolled(m) == m.turn # match.turn
(* What a handler leaves: the phases advance, the effects of the turn that *)
(* ends come down, and the player whose turn begins may have no move.      *)
TickedTracker(t, m) ==
  IF Rolled(m) THEN tickSquares(tickTurnEnd(t, opponentOf(m.active)), opponentOf(m.active)) ELSE t
TickedMatch(m) == IF Rolled(m) THEN [m EXCEPT !.ps = tickTriggers(@, opponentOf(m.active))] ELSE m
Settle(f, t, m, over, checkActive) ==
  /\ fen' = f
  /\ tracker' = TickedTracker(t, m)
  /\ match' = TickedMatch(m)
  /\ ended' = IF over = Going /\ checkActive THEN StatusEnd(f, tracker', match'.ps) ELSE over

-----------------------------------------------------------------------------
(* A rune of the other player under the piece that has just moved.         *)

Buried(players, c, kind) == [players EXCEPT ![c].grave = Append(@, kind)]
Sanctified(t, s, rune, strike) ==
  IF strike.kind = "destroy_piece" /\ hasSquareEffect(t, s, "no_capture")
  THEN [kind |-> "freeze_piece", duration |-> Most(rune.fallbackDuration, 1)] ELSE strike
(* w: the position, the tracker, the players and the pieces lost so far.   *)
Struck(w, e, rune, mover) ==
  LET s == e.square
      strike == Sanctified(w.tracker, s, rune, runeStrike(rune, w.fen.at[s].kind))
      owner == opponentOf(mover)
  IN  CASE strike.kind = "freeze_piece" ->
             [w EXCEPT !.tracker = removeRune(freeze(@, s, owner, strike.duration + 1), s, owner)]
        [] strike.kind = "return_to_origin" ->
             [w EXCEPT !.fen = returnPiece(@, s, e.origin, e.piece),
                       !.tracker = removeRune(setType(relocate(@, s, e.origin), e.origin, e.piece), s, owner)]
        [] strike.kind = "destroy_piece" ->
             [w EXCEPT !.fen = clearStaleEnPassant(destroyPiece(@, s)),
                       !.tracker = removeRune(removeAt(@, s), s, owner),
                       !.ps = Buried(@, mover, w.fen.at[s].kind),
                       !.lost = [@ EXCEPT ![mover] = @ + 1]]
        [] OTHER -> w
triggerRune(before, w, m, mover) ==
  LET e == Entry(before, m)
      runes == runesAt(w.tracker, e.square, opponentOf(mover))
  IN  IF runes = {} THEN w
      ELSE LET struck == Struck(w, e, (CHOOSE r \in runes : TRUE).rune, mover)
           IN  IF isKingAttacked(struck.fen, mover) THEN w ELSE struck

(* The first trigger of the defender freezes the piece that attacked a     *)
(* shielded one, where it stands now; never the king.                      *)
onCaptureAttempt(w, attacker, id) ==
  LET owner == opponentOf(attacker)
      armed == {i \in DOMAIN w.ps[owner].triggers : OnAttack(w.ps[owner].triggers[i])}
      s == squareOf(w.tracker, id)
  IN  IF armed = {} \/ s = NoSquare THEN w
      ELSE IF info(w.tracker, s).kind = "king" THEN w
      ELSE LET i == CHOOSE i \in armed : \A j \in armed : i <= j
               t == w.ps[owner].triggers[i]
           IN  [w EXCEPT !.tracker = freeze(@, s, owner, Most(t.amount, 1) + 1),
                         !.ps = IF t.oneShot THEN [@ EXCEPT ![owner].triggers = RemoveAt(@, i)] ELSE @]

-----------------------------------------------------------------------------
(* applySpellEffects: the effects of a spell, one after the other, on a    *)
(* copy; "ok" is lost when one of them refuses, and nothing then happens.  *)

NoLoss == [c \in Colors |-> 0]
Copy == [ok |-> TRUE, fen |-> fen, tracker |-> tracker, graves |-> [c \in Colors |-> match.ps[c].grave],
         lost |-> NoLoss, changed |-> FALSE, squares |-> FALSE, draw |-> 0, mana |-> 0, overCap |-> FALSE,
         extra |-> extra, triggers |-> <<>>, auras |-> <<>>]
Bury(w, s) ==
  LET p == w.fen.at[s]
  IN  [w EXCEPT !.graves[p.color] = Append(@, p.kind), !.lost[p.color] = @ + 1]
Placed(w, f, t) == [w EXCEPT !.fen = f, !.tracker = t, !.changed = TRUE]
OnTracker(w, t) == [w EXCEPT !.tracker = t]
OnSquares(w, t) == [w EXCEPT !.tracker = t, !.squares = TRUE]
Dug(graves, kinds) == kinds \cap ToSet(graves)
(* The kind chosen among those available; a single one need not be named.  *)
Chosen(available, choice) ==
  IF choice # "none" THEN choice
  ELSE IF Cardinality(available) = 1 THEN CHOOSE k \in available : TRUE ELSE "none"
ShieldedArea(w, eff, c) ==
  IF eff.area = "own_king" THEN aroundKing(w.fen, c, eff.radius) ELSE pawnsSideBySide(w.fen, c)
Detonated(w, eff, c) ==
  {s \in UNION {aroundSquares(r, eff.radius) : r \in runesOf(w.tracker, c)} :
     Occupied(w.fen, s) /\ w.fen.at[s].color # c /\ w.fen.at[s].kind # "king"}
WithoutRunes(t, c) ==
  MapSquares(t, LAMBDA E : {e \in E : ~(e.kind = "rune" /\ e.caster = c)})
Runes(t, targets, c, rune) ==
  FoldLeft(LAMBDA u, s : addRune(u, s, c, rune), t, targets)
(* The pieces freeze_all is about: of the caster, or of the opponent. *)
Of(side, c) == IF side = "own" THEN c ELSE opponentOf(c)
(* moveEndpoints: the arrival of a move_piece, from the targets or forward. *)
Arrival(w, eff, ts, c) == IF eff.relative = "forward" THEN forwardSquare(ts[1], c, eff.squares) ELSE ts[2]
CanShift(w, eff, ts, c) ==
  LET to == Arrival(w, eff, ts, c)
  IN  /\ to \in Squares
      /\ ~Occupied(w.fen, to)
      /\ ~hasSquareEffect(w.tracker, to, "wall")
      /\ (eff.relative = "forward" /\ eff.noPromotion) => relativeRank(to, c) # 8

Feasible(w, eff, ts, choice, c) ==
  CASE eff.kind = "destroy_piece" ->
         hasSquareEffect(w.tracker, ts[1], "no_capture") => w.fen.at[ts[1]].color = c
    [] eff.kind = "freeze_piece" -> CanFreeze(w.tracker, ts[1], c)
    [] eff.kind = "shield_piece" -> CanShield(w.tracker, ts[1], c)
    [] eff.kind = "freeze_all" -> piecesOf(w.fen, Of(eff.side, c), eff.pieces) # {}
    [] eff.kind = "shield_area" -> ShieldedArea(w, eff, c) # {}
    [] eff.kind = "move_piece" -> CanShift(w, eff, ts, c)
    [] eff.kind = "swap_pieces" -> CanSwap(w.fen, ts[1], ts[2])
    [] eff.kind = "transform_piece" -> w.fen.at[ts[1]].kind \in DOMAIN eff.map
    [] eff.kind = "promote_piece" -> choice \in eff.choices
    [] eff.kind \in {"revive_piece", "borrow_movement"} ->
         Chosen(Dug(w.graves[c], eff.pieces), choice) \in Dug(w.graves[c], eff.pieces)
    [] eff.kind = "restore_castling_rights" -> Restorable(w.fen, c) # {}
    [] eff.kind = "detonate_runes" -> runesOf(w.tracker, c) # {}
    [] eff.kind = "summon_pawn" -> eff.max = 0 \/ countPieces(w.fen, c, "pawn") < eff.max
    [] eff.kind = "extra_move" -> ~(extra.player = c /\ extra.turn = match.turn)
    [] eff.kind = "add_aura" ->
         \A i \in DOMAIN match.ps[c].auras : match.ps[c].auras[i].grant # eff.grant
    [] OTHER -> TRUE

Recoloured(w, s, kind) == [w.fen.at[s] EXCEPT !.kind = kind]
Retyped(w, s, kind) ==
  Placed(w, setPiece(w.fen, s, Recoloured(w, s, kind)), setType(w.tracker, s, Recoloured(w, s, kind)))
Born(w, s, c, kind) ==
  LET p == [color |-> c, kind |-> kind] IN Placed(w, placePiece(w.fen, s, p), add(w.tracker, s, p))
PieceKinds == {"destroy_piece", "freeze_piece", "shield_piece", "freeze_all", "shield_area", "draw_card", "gain_mana"}
OnPieces(w, eff, ts, c) ==
  CASE eff.kind = "destroy_piece" -> Placed(Bury(w, ts[1]), destroyPiece(w.fen, ts[1]), removeAt(w.tracker, ts[1]))
    [] eff.kind = "freeze_piece" -> OnTracker(w, freeze(w.tracker, ts[1], c, eff.duration))
    [] eff.kind = "shield_piece" -> OnTracker(w, shield(w.tracker, ts[1], c, eff.duration))
    [] eff.kind = "freeze_all" ->
         OnTracker(w, OnAll(w.tracker, piecesOf(w.fen, Of(eff.side, c), eff.pieces), "freeze", eff.duration, c))
    [] eff.kind = "shield_area" -> OnTracker(w, OnAll(w.tracker, ShieldedArea(w, eff, c), "shield", eff.duration, c))
    [] eff.kind = "draw_card" -> [w EXCEPT !.draw = @ + eff.amount]
    [] OTHER -> [w EXCEPT !.mana = @ + eff.amount, !.overCap = eff.overCap]

BoardKinds == {"move_piece", "swap_pieces", "transform_piece", "promote_piece", "revive_piece", "restore_castling_rights"}
Revived(w, s, kind, c) == [Born(w, s, c, kind) EXCEPT !.graves[c] = RemoveFirst(@, kind)]
OnBoard(w, eff, ts, choice, c) ==
  CASE eff.kind = "move_piece" ->
         Placed(w, movePieceFen(w.fen, ts[1], Arrival(w, eff, ts, c)), relocate(w.tracker, ts[1], Arrival(w, eff, ts, c)))
    [] eff.kind = "swap_pieces" -> Placed(w, swapPieces(w.fen, ts[1], ts[2]), swap(w.tracker, ts[1], ts[2]))
    [] eff.kind = "transform_piece" -> Retyped(w, ts[1], eff.map[w.fen.at[ts[1]].kind])
    [] eff.kind = "promote_piece" -> Retyped(w, ts[1], choice)
    [] eff.kind = "revive_piece" -> Revived(w, ts[1], Chosen(Dug(w.graves[c], eff.pieces), choice), c)
    [] OTHER -> Placed(w, restoreCastling(w.fen, c), w.tracker)

SquareKinds == {"create_wall", "create_square_effect", "place_rune", "reveal_runes", "detonate_runes"}
OnSquareEffects(w, eff, ts, c) ==
  CASE eff.kind \in {"create_wall", "create_square_effect"} ->
         OnSquares(w, addSquareEffect(w.tracker, ts[1], eff.effect, eff.duration, c))
    [] eff.kind = "place_rune" -> OnSquares(w, Runes(w.tracker, ts, c, eff.rune))
    [] eff.kind = "reveal_runes" ->
         [OnTracker(w, revealRunes(w.tracker, opponentOf(c)))
            EXCEPT !.squares = @ \/ HiddenRunes(w.tracker, opponentOf(c)) # {}]
    [] OTHER ->
         OnSquares(w, WithoutRunes(OnAll(w.tracker, Detonated(w, eff, c), "freeze", eff.duration, c), c))

Granted(c, eff) ==
  [NoExtra EXCEPT !.player = c, !.turn = match.turn, !.pieces = eff.pieces, !.noCapture = eff.noCapture]
OnPlayer(w, eff, ts, choice, c) ==
  CASE eff.kind = "summon_pawn" -> Born(w, ts[1], c, "pawn")
    [] eff.kind = "add_effect" -> OnTracker(w, addEffect(w.tracker, ts[1], "phasing", eff.duration, c, "none"))
    [] eff.kind = "borrow_movement" ->
         OnTracker(w, addEffect(w.tracker, ts[1], "borrow_movement", eff.duration, c,
                                Chosen(Dug(w.graves[c], eff.pieces), choice)))
    [] eff.kind = "extra_move" -> [w EXCEPT !.extra = Granted(c, eff)]
    [] eff.kind = "add_trigger" -> [w EXCEPT !.triggers = Append(@, eff.trigger)]
    [] OTHER -> [w EXCEPT !.auras = Append(@, [grant |-> eff.grant, minPawns |-> eff.minPawns, active |-> FALSE])]

Applied(w, eff, ts, choice, c) ==
  CASE eff.kind \in PieceKinds -> OnPieces(w, eff, ts, c)
    [] eff.kind \in BoardKinds -> OnBoard(w, eff, ts, choice, c)
    [] eff.kind \in SquareKinds -> OnSquareEffects(w, eff, ts, c)
    [] OTHER -> OnPlayer(w, eff, ts, choice, c)
EffectsOf(spell, ts, choice, c) ==
  FoldLeft(LAMBDA w, eff : IF w.ok /\ Feasible(w, eff, ts, choice, c) THEN Applied(w, eff, ts, choice, c)
                           ELSE [w EXCEPT !.ok = FALSE],
           Copy, spell.effects)
(* No king is put in check by a spell, and the caster's is not left there. *)
validateNoCheck(before, after, c) ==
  /\ ~isKingAttacked(after, c)
  /\ isKingAttacked(after, opponentOf(c)) => isKingAttacked(before, opponentOf(c))

Gained(ps, w) ==
  IF w.mana = 0 THEN ps
  ELSE [ps EXCEPT !.mana = IF w.overCap THEN @ + w.mana ELSE Least(ManaCap, @ + w.mana)]
(* The players once the copy is committed: cards and mana, then what the   *)
(* lost pieces set off, then the auras on the new position.                *)
AfterCast(w, f, c) ==
  LET dug == [p \in Colors |-> [match.ps[p] EXCEPT !.grave = w.graves[p]]]
      given == [dug EXCEPT ![c] = [Gained(Draws(@, w.draw), w) EXCEPT !.triggers = @ \o w.triggers, !.auras = @ \o w.auras]]
  IN  refreshAuras([p \in Colors |-> onPieceLost(given[p], w.lost[p])], f)

-----------------------------------------------------------------------------
(* The handlers.                                                           *)

NewPosition(w) == IF w.changed THEN clearStaleEnPassant(w.fen) ELSE fen
CastMatch(w, c, id) == autoAdvance([match EXCEPT !.ps = [AfterCast(w, NewPosition(w), c) EXCEPT ![c] = Spent(@, id)]])
(* Mutant of CommitCast: the player whose turn begins is not checked. *)
CommitCastNoRollover(w, f, m, c) ==
  /\ w.ok
  /\ w.changed => validateNoCheck(fen, f, c)
  /\ extra' = w.extra
  /\ Settle(f, w.tracker, m, Going, (w.changed \/ w.squares) /\ f.turn = m.active)
CommitCast(w, f, m, c) ==
  /\ w.ok
  /\ w.changed => validateNoCheck(fen, f, c)
  /\ extra' = w.extra
  /\ Settle(f, w.tracker, m, Going, Rolled(m) \/ ((w.changed \/ w.squares) /\ f.turn = m.active))
CastWith(w, c, id) == CommitCast(w, NewPosition(w), CastMatch(w, c, id), c)
Playing == ended = Going /\ match.turn <= start.turns
handleCastSpell(c, id, ts, choice) ==
  /\ Playing
  /\ c = match.active /\ InMain(match)
  /\ Affordable(match, c, id)
  /\ validateTargets(fen, tracker, Catalog[id].targets, ts, c)
  /\ CastWith(EffectsOf(Catalog[id], ts, choice, c), c, id)
  /\ strikes' = [strikes EXCEPT ![c] = 0]
  /\ UNCHANGED start

(* The two halves of a move: the shield takes it, or it is played.         *)
Taken(m, special) ==
  IF special THEN (IF Occupied(fen, m.to) THEN m.to ELSE NoSquare) ELSE captureSquare(fen, m.from, m.to)
Absorbs(m, special) ==
  /\ hasShield(tracker, Taken(m, special))
  /\ ~isKingAttacked(passTurn(fen), fen.turn)
Absorbed(m, special) ==
  [fen |-> passTurn(fen), tracker |-> consumeShield(tracker, Taken(m, special)), ps |-> match.ps, lost |-> NoLoss]
Played(c, m, special) ==
  LET s == Taken(m, special)
      loss == IF Occupied(fen, s) THEN {s} ELSE {}
      w == [fen |-> IF special THEN applySpecialMove(fen, m.from, m.to) ELSE engineApplyMove(fen, m),
            tracker |-> IF special THEN relocate(tracker, m.from, m.to) ELSE movePiece(tracker, m),
            ps |-> IF loss = {} THEN match.ps ELSE Buried(match.ps, fen.at[s].color, fen.at[s].kind),
            lost |-> [p \in Colors |-> Cardinality({q \in loss : fen.at[q].color = p})]]
      hit == triggerRune(fen, w, m, c)
  IN  [hit EXCEPT !.ps = [p \in Colors |-> onPieceLost(@[p], hit.lost[p])]]
Reacted(w, c, m, special) ==
  IF hasShield(tracker, Taken(m, special)) THEN onCaptureAttempt(w, c, IdAt(tracker, m.from)) ELSE w
Aurified(w) == [w EXCEPT !.ps = refreshAuras(@, w.fen)]
Moved(c, m, special) ==
  Aurified(Reacted(IF Absorbs(m, special) THEN Absorbed(m, special) ELSE Played(c, m, special), c, m, special))

extraGranted(c) == extra.player = c /\ ~extra.active /\ extra.turn = match.turn
(* The second move of Haste: the same side is to move again, with no check *)
(* given and a move to make.                                               *)
SecondMove(f, c) == withoutEnPassant(withSideToMove(f, c))
MayMoveAgain(c, w) ==
  /\ extraGranted(c)
  /\ ~isKingAttacked(w.fen, opponentOf(c))
  /\ extraMoves(extra, SecondMove(w.fen, c), w.tracker) # {}
EnterExtraMove(c, w) ==
  /\ extra' = [extra EXCEPT !.active = TRUE, !.after = w.fen]
  /\ Settle(SecondMove(w.fen, c), w.tracker, [match EXCEPT !.ps = w.ps], Going, FALSE)
EndsMove(c, w, over) ==
  /\ extra' = IF over = Going /\ (extra.active \/ extraGranted(c)) THEN NoExtra ELSE extra
  /\ Settle(w.fen, w.tracker,
            IF over = Going THEN autoAdvance(advance([match EXCEPT !.ps = w.ps])) ELSE [match EXCEPT !.ps = w.ps],
            over, FALSE)
Concludes(c, w, over) ==
  IF over = Going /\ MayMoveAgain(c, w) THEN EnterExtraMove(c, w) ELSE EndsMove(c, w, over)
AfterMove(c, w) == Concludes(c, w, StatusEnd(w.fen, w.tracker, w.ps))
(* What the handler lets through: of the moves the engine does not know,   *)
(* none is played in place of one it knows, or as the second of a turn.    *)
Accepted(special) ==
  IF extra.active THEN (IF special THEN {} ELSE extraMoves(extra, fen, tracker))
  ELSE IF special THEN Specials(fen, tracker, match.ps) \ legalMoves(fen)
  ELSE PlayableMoves(fen, tracker)
CanMove(c) == Playing /\ c = match.active /\ match.phase = "move" /\ fen.turn = c
handleMove(c, m, special) ==
  /\ CanMove(c)
  /\ AfterMove(c, Moved(c, m, special))
  /\ UNCHANGED <<start, strikes>>

(* passPhase, also when the time of the phase is up.  Passing the second   *)
(* move of Haste brings back the position after the first.                 *)
Skipping == extra.active /\ extra.player = match.active
passPhase(m) ==
  /\ InMain(match) \/ Skipping
  /\ extra' = IF Skipping THEN NoExtra ELSE extra
  /\ Settle(IF Skipping THEN extra.after ELSE fen, tracker, m, Going, Rolled(m))
NextPhase == autoAdvance(advance(match))
handlePassPhase(c) ==
  /\ Playing /\ c = match.active
  /\ passPhase(NextPhase)
  /\ strikes' = [strikes EXCEPT ![c] = IF InMain(match) THEN 0 ELSE @]
  /\ UNCHANGED start

(* expirePhase: the move phase is lost, a main phase is passed and counted *)
EndsAt(reason) ==
  /\ ended' = End(opponentOf(match.active), reason)
  /\ UNCHANGED <<fen, tracker, match, extra>>
(* The strikes after this phase, and the reason to end here, if any.       *)
Struckout == IF InMain(match) THEN [strikes EXCEPT ![match.active] = @ + 1] ELSE strikes
Expired ==
  IF InMain(match) THEN (IF Struckout[match.active] >= MaxStrikes THEN "timeout_strikes" ELSE "none")
  ELSE IF Skipping THEN "none" ELSE "timeout"
expirePhase ==
  /\ Playing
  /\ strikes' = Struckout
  /\ IF Expired = "none" THEN passPhase(NextPhase) ELSE EndsAt(Expired)
  /\ UNCHANGED start

-----------------------------------------------------------------------------
NewPlayer(st, c) ==
  [hand |-> st.hand[c], deck |-> st.deck[c], discard |-> <<>>, mana |-> Most(1, st.floor[c]),
   maxMana |-> Most(1, st.floor[c]), casts |-> <<>>, grave |-> <<>>, triggers |-> <<>>, auras |-> <<>>]
Init ==
  /\ start \in Starts
  /\ fen = start.fen
  /\ tracker = NewTracker(start.fen)
  /\ match = autoAdvance([phase |-> "draw", active |-> "white", turn |-> 1, ps |-> [c \in Colors |-> NewPlayer(start, c)]])
  /\ extra = NoExtra
  /\ strikes = [c \in Colors |-> 0]
  /\ Playing

Targets(id) == [1..Len(Catalog[id].targets) -> start.aim]
Cast == \E id \in ToSet(match.ps[match.active].hand), choice \in {"none", "knight", "queen"} :
          \E ts \in Targets(id) : handleCastSpell(match.active, id, ts, choice)
Aimed(moves) == {m \in moves : m.to \in start.reach}
Move == CanMove(match.active) /\ \E special \in BOOLEAN :
          \E m \in Aimed(Accepted(special)) : handleMove(match.active, m, special)
Pass == handlePassPhase(match.active)
TimeOut == expirePhase
Next == Cast \/ Move \/ Pass \/ TimeOut
Spec == Init /\ [][Next]_vars

-----------------------------------------------------------------------------
TypeOK ==
  /\ fen.at \in [DOMAIN fen.at -> Piece] /\ DOMAIN fen.at \subseteq Squares
  /\ fen.turn \in Colors /\ fen.ep \in Squares \cup {NoSquare}
  /\ tracker.nextId \in Nat /\ DOMAIN tracker.squares \subseteq Squares
  /\ match.phase \in {"main1", "move", "main2"} /\ match.active \in Colors
  /\ strikes \in [Colors -> 0..MaxStrikes]

(* The tracker and the FEN agree: the same squares are occupied, by pieces *)
(* of the same kind and colour, and each identity knows its square.        *)
TrackerFollowsBoard ==
  /\ DOMAIN tracker.bySquare = DOMAIN fen.at
  /\ \A s \in DOMAIN fen.at : IdAt(tracker, s) \in Ids(tracker) /\ info(tracker, s) = fen.at[s]
  /\ \A id \in Ids(tracker) : Tracked(tracker, squareOf(tracker, id)) /\ IdAt(tracker, squareOf(tracker, id)) = id

(* Whatever the spells, the runes and the shields do, the position stays   *)
(* one of chess: a king each, the side that does not move is not in check, *)
(* no pawn on a first or last rank, castling rights with king and rook at  *)
(* home, an en passant square behind a pawn.                               *)
PositionIsSound ==
  /\ \A c \in Colors : Cardinality(KingSquares(fen, c)) = 1
  /\ ~isKingAttacked(fen, opponentOf(fen.turn))
  /\ \A s \in DOMAIN fen.at : fen.at[s].kind = "pawn" => s[2] \notin {1, 8}
  /\ \A r \in fen.castling : \E c \in Colors : r[2] = HomeRank(c) /\ Holds(fen, r, c, "rook") /\ Holds(fen, <<5, r[2]>>, c, "king")
  /\ clearStaleEnPassant(fen) = fen

(* No piece appears or vanishes: those on the board and in the graveyard   *)
(* are those of the start and the pawns summoned since.                    *)
Summons(c) ==
  Len(SelectSeq(match.ps[c].discard, LAMBDA id : \E i \in DOMAIN Catalog[id].effects : Catalog[id].effects[i].kind = "summon_pawn"))
PiecesAreAccountedFor ==
  \A c \in Colors : Cardinality(OwnSquares(fen, c)) + Len(match.ps[c].grave)
                      = Cardinality(OwnSquares(start.fen, c)) + Summons(c)

(* A player who has to move can: a phase with no move to make would be     *)
(* lost on time.                                                           *)
MoverHasAMove ==
  (ended = Going /\ match.phase = "move") =>
     /\ fen.turn = match.active
     /\ IF extra.active THEN extraMoves(extra, fen, tracker) # {}
        ELSE hasPlayableMove(fen, tracker) \/ Specials(fen, tracker, match.ps) # {}

(* Nothing that should have lapsed is left: an effect with no turns to     *)
(* cover is of the player whose turn it is, cast this turn.                *)
EffectsLapse ==
  ended = Going =>
    /\ \A id \in Ids(tracker) : \A k \in DOMAIN tracker.pieces[id].effects :
         LET e == tracker.pieces[id].effects[k] IN e.turns > 0 \/ (e.turns = 0 /\ e.caster = match.active)
    /\ \A s \in DOMAIN tracker.squares : \A e \in tracker.squares[s] : e.turns > 0 \/ e.turns = PERMANENT
    /\ extra # NoExtra => extra.player = match.active /\ extra.turn = match.turn

(* A frozen piece stays where it is until it thaws, unless it is taken or  *)
(* a spell moves it: a move of its owner never does, but for a castling,   *)
(* which asks only whether the king is frozen and takes the rook along.    *)
FrozenStays ==
  [][match.phase = "move" =>
       \A s \in OwnSquares(fen, match.active) :
         isFrozen(tracker, s) =>
           \/ Occupied(fen', s) /\ fen'.at[s] = fen.at[s]
           \/ s \in CastlingRooks(fen, match.active) /\ Holds(fen', CastleTo(s), match.active, "king")]_vars

(* The board is sound: the tracker follows it, the position is one of      *)
(* chess, its pieces are those of the match, no effect outlives its turns. *)
BoardIsSound == TypeOK /\ TrackerFollowsBoard /\ PositionIsSound /\ PiecesAreAccountedFor /\ EffectsLapse
=============================================================================

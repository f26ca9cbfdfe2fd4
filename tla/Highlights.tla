------------------------------ MODULE Highlights ------------------------------
(***************************************************************************)
(* What the client lets a player do with the state it is shown: the piece  *)
(* that may be picked up and the squares it may be dropped on              *)
(* (selection.ts, squareRules.ts), the cards that may be cast              *)
(* (playability.ts) and, one step after the other, the squares a spell may *)
(* be aimed at and the pieces it may choose (targeting.ts,                 *)
(* targets.registry.ts, effects.registry.tsx).  These are rules of the     *)
(* server written a second time, over its public view of the match; here   *)
(* they are held against the handlers of SpellRoom.                        *)
(***************************************************************************)
EXTENDS SpellRoom

(* What the state sent to the player says (room.ts, publicState).          *)
SquareStates == squareEffectsFor(tracker, match.active)
has(s, kind) == s \in DOMAIN SquareStates /\ \E e \in SquareStates[s] : e.kind = kind
frozenSquares == {s \in DOMAIN fen.at : isFrozen(tracker, s)}
SpecialMoves ==
  IF ended # Going \/ match.phase # "move" THEN {}
  ELSE IF extra.active THEN extraMoves(extra, fen, tracker) ELSE Specials(fen, tracker, match.ps)
me == match.active

(***************************************************************************)
(* The board.  The squares passed are counted up to the arrival, and for a *)
(* castling up to the rook.                                                *)
(***************************************************************************)
Passed(a, b) == {n \in 1..8 : (a < n /\ n < b) \/ (b < n /\ n < a)}
Crossed(from, to) ==
  LET kind == fen.at[from].kind
  IN  CASE kind = "king" /\ Abs(to[1] - from[1]) = 2 -> {<<f, from[2]>> : f \in Passed(from[1], IF to[1] > from[1] THEN 8 ELSE 1)}
        [] kind = "pawn" /\ Abs(to[2] - from[2]) = 2 -> {forwardSquare(from, fen.at[from].color, 1)}
        [] kind \in {"rook", "queen"} /\ from[1] = to[1] -> {<<from[1], r>> : r \in Passed(from[2], to[2])}
        [] kind \in {"rook", "queen"} /\ from[2] = to[2] -> {<<f, from[2]>> : f \in Passed(from[1], to[1])}
        [] kind \in {"bishop", "queen"} /\ Abs(to[1] - from[1]) = Abs(to[2] - from[2]) ->
             {q \in Passed(from[1], to[1]) \X Passed(from[2], to[2]) : Abs(q[1] - from[1]) = Abs(q[2] - from[2])}
        [] OTHER -> {}
(* As blockedMove, with no thought for en passant.                         *)
blockedMoveOnArrival(from, to) ==
  \/ \E s \in Crossed(from, to) \cup {to} : has(s, "wall")
  \/ Occupied(fen, to) /\ has(to, "no_capture")
blockedMove(from, to) ==
  LET enPassant == ~Occupied(fen, to) /\ fen.at[from].kind = "pawn" /\ from[1] # to[1]
      captured == IF Occupied(fen, to) THEN {to} ELSE IF enPassant THEN {<<to[1], from[2]>>} ELSE {}
  IN  \/ \E s \in Crossed(from, to) \cup {to} : has(s, "wall")
      \/ \E s \in captured : has(s, "no_capture")

pickupRefusal(s) ==
  IF ~(Occupied(fen, s) /\ fen.at[s].color = me) THEN "not_your_piece"
  ELSE IF match.phase # "move" THEN "wrong_phase"
  ELSE IF s \in frozenSquares THEN "piece_frozen" ELSE "none"
legalTargets(s) == {m.to : m \in {n \in legalMoves(fen) : n.from = s}}
pickup(s) ==
  IF pickupRefusal(s) # "none" THEN {}
  ELSE (IF extra.active THEN {} ELSE {to \in legalTargets(s) : ~blockedMove(s, to)})
       \cup {m.to : m \in {n \in SpecialMoves : n.from = s}}

(***************************************************************************)
(* The cards.                                                              *)
(***************************************************************************)
cardRefusal(id) ==
  IF match.phase \notin Catalog[id].phases THEN "wrong_phase"
  ELSE IF match.ps[me].mana < Catalog[id].cost THEN "insufficient_mana" ELSE "none"

removesPiece(id) == \E i \in DOMAIN Catalog[id].effects : Catalog[id].effects[i].kind = "destroy_piece"
candidates(type) ==
  CASE type = "own_piece" -> OwnSquares(fen, me)
    [] type = "enemy_piece" -> OwnSquares(fen, opponentOf(me))
    [] type = "square" -> Squares
(* A wall takes up a square; as isEmpty, if it did not.                    *)
isEmptyOfPieces(s) == ~Occupied(fen, s)
isEmpty(s) == ~Occupied(fen, s) /\ ~has(s, "wall")
allowed(spec, s, chosen, removes) ==
  /\ s \notin ToSet(chosen)
  /\ IF spec.type = "square" THEN spec.empty => isEmpty(s)
     ELSE /\ ~(removes /\ fen.at[s].color # me /\ has(s, "no_capture"))
          /\ fen.at[s].kind = "king" => spec.type = "own_piece" /\ "king" \in spec.pieces
          /\ fen.at[s].kind # "king" /\ spec.pieces # {} => fen.at[s].kind \in spec.pieces
          /\ spec.require # "none" => hasEffect(tracker, s, spec.require)
  /\ spec.maxDistance > 0 /\ chosen # <<>> => chebyshev(Last(chosen), s) <= spec.maxDistance
  /\ spec.ownRanks # {} => relativeRank(s, me) \in spec.ownRanks
  /\ relativeRank(s, me) >= spec.minRank
spellTargets(id, chosen) ==
  LET spec == Catalog[id].targets[Len(chosen) + 1]
  IN  {s \in candidates(spec.type) : allowed(spec, s, chosen, removesPiece(id))}

(* The pieces to choose from: asked for only if there are two at least.    *)
OptionsOf(eff) ==
  CASE eff.kind = "promote_piece" -> eff.choices
    [] eff.kind \in {"revive_piece", "borrow_movement"} -> eff.pieces \cap ToSet(match.ps[me].grave)
    [] OTHER -> {}
spellChoiceOptions(id) ==
  LET asked == {i \in DOMAIN Catalog[id].effects : Cardinality(OptionsOf(Catalog[id].effects[i])) > 1}
  IN  IF asked = {} THEN {"none"} ELSE OptionsOf(Catalog[id].effects[CHOOSE i \in asked : \A j \in asked : i <= j])
-----------------------------------------------------------------------------
(* In the move phase the squares lit for a piece are those the server lets *)
(* it move to, walls, sanctuaries, freezes, castlings, en passant, the     *)
(* moves of spells and the second move of Haste included.                  *)
MovesShownAreAccepted ==
  Playing /\ match.phase = "move" =>
    \A s \in OwnSquares(fen, me) :
      pickup(s) = {m.to : m \in {n \in Accepted(FALSE) \cup Accepted(TRUE) : n.from = s}}

(* In the main phases a card is lit if and only if it can be paid for now  *)
(* and was not cast too often; at every step the squares lit are those the *)
(* server takes; and the pieces offered are those a spell can choose from. *)
Step(id, ts) == {s \in Squares : ValidTarget(fen, tracker, Catalog[id].targets, Append(ts, s), Len(ts) + 1, me)}
Spared(id, s) == removesPiece(id) /\ has(s, "no_capture") /\ fen.at[s].color # me
Steps(id) ==
  {<<>>} \cup IF Len(Catalog[id].targets) < 2 THEN {} ELSE {<<s>> : s \in start.aim \cap Step(id, <<>>)}
TargetsShownAreAccepted ==
  Playing /\ InMain(match) =>
    \A id \in ToSet(match.ps[me].hand) :
      /\ cardRefusal(id) = "none" /\ withinLimits(match.ps[me], id) <=> Affordable(match, me, id)
      /\ Catalog[id].targets # <<>> =>
           \A ts \in Steps(id) : spellTargets(id, ts) = {s \in Step(id, ts) : ~Spared(id, s)}
      /\ \A i \in DOMAIN Catalog[id].effects :
           LET eff == Catalog[id].effects[i]
           IN  OptionsOf(eff) # {} => \A choice \in spellChoiceOptions(id) : Feasible(Copy, eff, <<>>, choice, me)
=============================================================================

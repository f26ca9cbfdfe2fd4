------------------------------ MODULE Tracker ------------------------------
(***************************************************************************)
(* tracker.ts: the identity of each piece and the effects it carries, kept *)
(* in parallel with the FEN, and the effects on squares (walls,            *)
(* sanctuaries, runes).  A tracker is a record: "bySquare" maps occupied   *)
(* squares to ids, "pieces" ids to their state, "squares" the squares with *)
(* effects to the set of them, "nextId" is the next identity.              *)
(***************************************************************************)
EXTENDS Board

PERMANENT == -1
NoRune == [onEnter |-> "none", duration |-> 0, only |-> {}, fallback |-> "none", fallbackDuration |-> 0]

Ids(t) == DOMAIN t.pieces
Tracked(t, s) == s \in DOMAIN t.bySquare
IdAt(t, s) == t.bySquare[s]
State(t, s) == t.pieces[t.bySquare[s]]
info(t, s) == State(t, s).type
squareOf(t, id) == IF id \in Ids(t) THEN t.pieces[id].square ELSE NoSquare

(* Numbered in the order of the scan, from a8 to h1.                       *)
ScannedUpTo(fen, s) ==
  {q \in DOMAIN fen.at : q[2] > s[2] \/ (q[2] = s[2] /\ q[1] <= s[1])}
NewTracker(fen) ==
  LET number == [s \in DOMAIN fen.at |-> Cardinality(ScannedUpTo(fen, s))]
      n == Cardinality(DOMAIN fen.at)
  IN  [bySquare |-> number,
       pieces |-> [i \in 1..n |-> LET s == CHOOSE q \in DOMAIN fen.at : number[q] = i
                                  IN  [type |-> fen.at[s], square |-> s, effects |-> <<>>]],
       squares |-> <<>>, nextId |-> n + 1]

-----------------------------------------------------------------------------
(* Identities.                                                             *)

removeAt(t, s) ==
  IF Tracked(t, s)
  THEN [t EXCEPT !.bySquare = Without(@, {s}), !.pieces = Without(@, {IdAt(t, s)})]
  ELSE t
Reseat(t, from, to) ==
  IF Tracked(t, from)
  THEN [t EXCEPT !.bySquare = Shifted(@, from, to),
                 !.pieces = [@ EXCEPT ![IdAt(t, from)] = [@ EXCEPT !.square = to]]]
  ELSE t
(* A magical move: no en passant, castling or promotion.                   *)
relocate(t, from, to) == IF Tracked(t, from) THEN Reseat(removeAt(t, to), from, to) ELSE t

CastlingEnds == {<<7, 1>>, <<3, 1>>, <<7, 8>>, <<3, 8>>}
moveCastlingRook(t, to) ==
  IF to \in CastlingEnds
  THEN Reseat(t, <<IF to[1] = 7 THEN 8 ELSE 1, to[2]>>, <<IF to[1] = 7 THEN 6 ELSE 4, to[2]>>)
  ELSE t
(* A chess move, recognised from its squares: a pawn that leaves its file  *)
(* for an empty square takes en passant, a king that reaches g or c of a   *)
(* home rank brings the rook along.                                        *)
movePiece(t, m) ==
  IF ~Tracked(t, m.from) THEN t
  ELSE LET p == info(t, m.from)
           taken == IF Tracked(t, m.to) THEN removeAt(t, m.to)
                    ELSE IF p.kind = "pawn" /\ m.from[1] # m.to[1]
                         THEN removeAt(t, <<m.to[1], m.from[2]>>) ELSE t
           moved == Reseat(taken, m.from, m.to)
           typed == [moved EXCEPT !.pieces[IdAt(moved, m.to)].type = Promoted(@, m.promo)]
       IN  IF p.kind = "king" THEN moveCastlingRook(typed, m.to) ELSE typed

add(t, s, p) ==
  LET free == removeAt(t, s)
  IN  [free EXCEPT !.bySquare = With(@, s, t.nextId), !.nextId = @ + 1,
                   !.pieces = With(@, t.nextId, [type |-> p, square |-> s, effects |-> <<>>])]
swap(t, a, b) ==
  IF Tracked(t, a) /\ Tracked(t, b)
  THEN [t EXCEPT !.bySquare = [@ EXCEPT ![a] = IdAt(t, b), ![b] = IdAt(t, a)],
                 !.pieces = [@ EXCEPT ![IdAt(t, a)] = [@ EXCEPT !.square = b],
                                      ![IdAt(t, b)] = [@ EXCEPT !.square = a]]]
  ELSE t
setType(t, s, p) == IF Tracked(t, s) THEN [t EXCEPT !.pieces[IdAt(t, s)].type = p] ELSE t

-----------------------------------------------------------------------------
(* Effects on pieces: one of each kind, with the turns it still covers.    *)

Effect(turns, caster, borrow) == [turns |-> turns, caster |-> caster, borrow |-> borrow]
addEffect(t, s, kind, turns, caster, borrow) ==
  [t EXCEPT !.pieces[IdAt(t, s)].effects = With(@, kind, Effect(turns, caster, borrow))]
hasEffect(t, s, kind) == Tracked(t, s) /\ kind \in DOMAIN State(t, s).effects
isFrozen(t, s) == hasEffect(t, s, "freeze")
hasShield(t, s) == hasEffect(t, s, "shield")
CanFreeze(t, s, caster) == Tracked(t, s) /\ info(t, s).color # caster
CanShield(t, s, caster) == Tracked(t, s) /\ info(t, s).color = caster
freeze(t, s, caster, turns) == addEffect(t, s, "freeze", turns, caster, "none")
shield(t, s, caster, turns) == addEffect(t, s, "shield", turns, caster, "none")
consumeShield(t, s) ==
  IF Tracked(t, s) THEN [t EXCEPT !.pieces[IdAt(t, s)].effects = Without(@, {"shield"})] ELSE t
borrowedAs(t, s) ==
  IF hasEffect(t, s, "borrow_movement") THEN State(t, s).effects["borrow_movement"].borrow ELSE "none"
(* The same effect on every square of S.                                   *)
OnAll(t, S, kind, turns, caster) ==
  [t EXCEPT !.pieces = [id \in Ids(t) |->
     IF \E s \in S : Tracked(t, s) /\ IdAt(t, s) = id
     THEN [@[id] EXCEPT !.effects = With(@, kind, Effect(turns, caster, "none"))] ELSE @[id]]]

(* At the end of a turn the effects of the other player come down by one;  *)
(* those at zero expire.                                                   *)
Ticked(e, finishing) ==
  IF e.turns = PERMANENT \/ e.caster = finishing THEN e ELSE [e EXCEPT !.turns = @ - 1]
Lasts(e, finishing) == e.turns = PERMANENT \/ Ticked(e, finishing).turns > 0
tickTurnEnd(t, finishing) ==
  [t EXCEPT !.pieces = [id \in Ids(t) |-> [@[id] EXCEPT !.effects =
     [k \in {k \in DOMAIN @ : Lasts(@[k], finishing)} |-> Ticked(@[k], finishing)]]]]

-----------------------------------------------------------------------------
(* Effects on squares.                                                     *)

SquareEffects(t, s) == IF s \in DOMAIN t.squares THEN t.squares[s] ELSE {}
SetSquareEffects(t, s, E) ==
  [t EXCEPT !.squares = IF E = {} THEN Without(@, {s}) ELSE With(@, s, E)]
SquareEffect(kind, turns, caster, hidden, rune) ==
  [kind |-> kind, turns |-> turns, caster |-> caster, hidden |-> hidden, rune |-> rune]
(* One effect of a kind on a square; one rune of each owner.               *)
putSquareEffect(t, s, e) ==
  SetSquareEffects(t, s, {f \in SquareEffects(t, s) :
     f.kind # e.kind \/ (e.kind = "rune" /\ f.caster # e.caster)} \cup {e})
addSquareEffect(t, s, kind, turns, caster) ==
  putSquareEffect(t, s, SquareEffect(kind, turns, caster, FALSE, NoRune))
addRune(t, s, owner, rune) ==
  putSquareEffect(t, s, SquareEffect("rune", PERMANENT, owner, TRUE, rune))
runesAt(t, s, owner) == {e \in SquareEffects(t, s) : e.kind = "rune" /\ e.caster = owner}
runesOf(t, owner) == {s \in DOMAIN t.squares : runesAt(t, s, owner) # {}}
removeRune(t, s, owner) == SetSquareEffects(t, s, SquareEffects(t, s) \ runesAt(t, s, owner))
MapSquares(t, F(_)) ==
  [t EXCEPT !.squares = [s \in {s \in DOMAIN @ : F(@[s]) # {}} |-> F(@[s])]]
revealRunes(t, owner) ==
  MapSquares(t, LAMBDA E : {IF e.kind = "rune" /\ e.caster = owner THEN [e EXCEPT !.hidden = FALSE] ELSE e : e \in E})
HiddenRunes(t, owner) == {s \in runesOf(t, owner) : \E e \in runesAt(t, s, owner) : e.hidden}
tickSquares(t, finishing) ==
  MapSquares(t, LAMBDA E : {Ticked(e, finishing) : e \in {e \in E : Lasts(e, finishing)}})
(* What a player is shown: not the hidden runes of the other.              *)
squareEffectsFor(t, viewer) ==
  MapSquares(t, LAMBDA E : {e \in E : ~(e.kind = "rune" /\ e.hidden /\ e.caster # viewer)}).squares
hasSquareEffect(t, s, kind) == \E e \in SquareEffects(t, s) : e.kind = kind

-----------------------------------------------------------------------------
(* squares.ts: moves a wall or a sanctuary forbids.  A wall stops the      *)
(* arrival and the squares passed; a sanctuary forbids the capture.        *)

CrossedSquares(fen, from, to) ==
  LET d == <<Sign(to[1] - from[1]), Sign(to[2] - from[2])>>
      kind == fen.at[from].kind
      strictly == {Off(from, d, k) : k \in 1..(chebyshev(from, to) - 1)}
  IN  CASE kind = "king" /\ Abs(to[1] - from[1]) = 2 ->
             {<<f, from[2]>> : f \in FilesBetween(from[1], IF to[1] > from[1] THEN 8 ELSE 1)}
        [] kind = "pawn" -> IF Abs(to[2] - from[2]) = 2 THEN strictly ELSE {}
        [] kind \in {"rook", "bishop", "queen"} -> strictly
        [] OTHER -> {}
moveBlocked(fen, t, m) ==
  \/ \E s \in CrossedSquares(fen, m.from, m.to) \cup {m.to} : hasSquareEffect(t, s, "wall")
  \/ hasSquareEffect(t, captureSquare(fen, m.from, m.to), "no_capture")

(* special.ts: the moves the engine does not know.                         *)
MayLand(fen, t, s, canCapture) ==
  /\ s \in Squares
  /\ ~hasSquareEffect(t, s, "wall")
  /\ Occupied(fen, s) =>
       /\ canCapture
       /\ fen.at[s].color # fen.turn
       /\ fen.at[s].kind # "king"
       /\ ~hasSquareEffect(t, s, "no_capture")
(* Along d up to the first wall, or, when pieces stop it, the first piece. *)
Slide(fen, t, s, d, throughPieces) ==
  {Off(s, d, k) : k \in {k \in 1..7 :
     /\ \A j \in 1..k : Off(s, d, j) \in Squares /\ ~hasSquareEffect(t, Off(s, d, j), "wall")
     /\ throughPieces \/ \A j \in 1..(k - 1) : ~Occupied(fen, Off(s, d, j))}}
PhasingMoves(fen, t, s) ==
  IF fen.at[s].kind = "bishop" /\ hasEffect(t, s, "phasing")
  THEN {q \in UNION {Slide(fen, t, s, d, TRUE) : d \in Diagonals} : ~Occupied(fen, q)} ELSE {}
BorrowedMoves(fen, t, s) ==
  LET ends == IF fen.at[s].kind # "pawn" THEN {}
              ELSE CASE borrowedAs(t, s) = "knight" -> {Off(s, d, 1) : d \in KnightJumps}
                     [] borrowedAs(t, s) = "bishop" -> UNION {Slide(fen, t, s, d, FALSE) : d \in Diagonals}
                     [] OTHER -> {}
  IN  {q \in ends : q[2] \notin {1, 8} /\ MayLand(fen, t, q, TRUE)}
SidestepMoves(fen, t, s, sidestep) ==
  IF sidestep /\ fen.at[s].kind = "pawn"
  THEN {q \in {<<s[1] - 1, s[2]>>, <<s[1] + 1, s[2]>>} : MayLand(fen, t, q, FALSE)} ELSE {}
specialMoves(fen, t, sidestep) ==
  {m \in UNION {{UciMove(s, q, "none") :
                   q \in PhasingMoves(fen, t, s) \cup BorrowedMoves(fen, t, s) \cup SidestepMoves(fen, t, s, sidestep)} :
                s \in {s \in OwnSquares(fen, fen.turn) : ~isFrozen(t, s)}} :
     ~isKingAttacked(applySpecialMove(fen, m.from, m.to), fen.turn)}

-----------------------------------------------------------------------------
(* runes.ts: who enters a square with a move, and what a rune does to it.  *)

Entry(fen, m) ==
  IF fen.at[m.from].kind # "king" THEN [square |-> m.to, origin |-> m.from, piece |-> fen.at[m.from]]
  ELSE IF IsCastle(fen, m) /\ Occupied(fen, CastledRook(m))
       THEN [square |-> CastleRookTo(CastledRook(m)), origin |-> CastledRook(m), piece |-> fen.at[CastledRook(m)]]
       ELSE [square |-> NoSquare, origin |-> NoSquare, piece |-> fen.at[m.from]]
runeStrike(rune, kind) ==
  IF rune.only = {} \/ kind \in rune.only
  THEN [kind |-> rune.onEnter, duration |-> rune.duration]
  ELSE [kind |-> rune.fallback, duration |-> rune.fallbackDuration]

(* targets.ts: the i-th target of a spell fits its specification.          *)
PieceKindAllowed(spec, kind) ==
  IF kind = "king" THEN spec.type = "own_piece" /\ "king" \in spec.pieces
  ELSE spec.pieces = {} \/ kind \in spec.pieces
ValidTarget(fen, t, specs, targets, i, caster) ==
  LET spec == specs[i]
      s == targets[i]
  IN  /\ \A j \in 1..(i - 1) : targets[j] # s
      /\ IF spec.type = "square"
         THEN spec.empty => ~Occupied(fen, s) /\ ~hasSquareEffect(t, s, "wall")
         ELSE /\ Occupied(fen, s)
              /\ (fen.at[s].color = caster) = (spec.type = "own_piece")
              /\ PieceKindAllowed(spec, fen.at[s].kind)
              /\ spec.require # "none" => hasEffect(t, s, spec.require)
      /\ (spec.maxDistance > 0 /\ i > 1) => chebyshev(targets[i - 1], s) <= spec.maxDistance
      /\ spec.ownRanks # {} => relativeRank(s, caster) \in spec.ownRanks
      /\ relativeRank(s, caster) >= spec.minRank
validateTargets(fen, t, specs, targets, caster) ==
  \A i \in DOMAIN specs : ValidTarget(fen, t, specs, targets, i, caster)
=============================================================================

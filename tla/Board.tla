------------------------------- MODULE Board -------------------------------
(***************************************************************************)
(* The chess board the mock server keeps beside its engine: fen.ts and the *)
(* pure parts of runes.ts, squares.ts.  A FEN is a record: "at" maps the   *)
(* occupied squares to pieces, "turn" is the side to move, "castling" the  *)
(* home squares of the rooks that may still castle and "ep" the square     *)
(* passed by the pawn of the last double push (or NoSquare).  The two move *)
(* counters are left out: nothing here plays a hundred half moves.         *)
(*                                                                         *)
(* Squares are pairs <<file, rank>>.  The operators that follow the        *)
(* engine's rules (chess.js) are external: engine.ts only calls them.      *)
(***************************************************************************)
EXTENDS Integers, FiniteSets

Colors == {"white", "black"}
Kinds == {"pawn", "knight", "bishop", "rook", "queen", "king"}
Lines == 1..8
Squares == Lines \X Lines
NoSquare == <<0, 0>>

Piece == [color : Colors, kind : Kinds]
opponentOf(c) == IF c = "white" THEN "black" ELSE "white"
Forward(c) == IF c = "white" THEN 1 ELSE -1
relativeRank(s, c) == IF c = "black" THEN 9 - s[2] ELSE s[2]
forwardSquare(s, c, n) == <<s[1], s[2] + n * Forward(c)>>
HomeRank(c) == IF c = "white" THEN 1 ELSE 8

Occupied(fen, s) == s \in DOMAIN fen.at
Holds(fen, s, c, k) == Occupied(fen, s) /\ fen.at[s] = [color |-> c, kind |-> k]
OwnSquares(fen, c) == {s \in DOMAIN fen.at : fen.at[s].color = c}
Without(f, S) == [x \in DOMAIN f \ S |-> f[x]]
With(f, x, v) == [y \in DOMAIN f \cup {x} |-> IF y = x THEN v ELSE f[y]]

Abs(n) == IF n < 0 THEN -n ELSE n
Sign(n) == IF n > 0 THEN 1 ELSE IF n < 0 THEN -1 ELSE 0
chebyshev(s, t) == IF Abs(s[1] - t[1]) > Abs(s[2] - t[2])
                   THEN Abs(s[1] - t[1]) ELSE Abs(s[2] - t[2])
aroundSquares(s, radius) == {t \in Squares \ {s} : chebyshev(s, t) <= radius}

-----------------------------------------------------------------------------
(* Edits of the placement.  Each keeps the side to move.                   *)

RookHome(s, p) == p.kind = "rook" /\ s \in {<<1, HomeRank(p.color)>>, <<8, HomeRank(p.color)>>}
(* Mutant of clearCastlingForRook: the right stays. *)
keepCastlingForRook(fen, s, p) == fen
clearCastlingForRook(fen, s, p) ==
  [fen EXCEPT !.castling = IF RookHome(s, p) THEN @ \ {s} ELSE @]
clearCastlingForMovedPiece(fen, s, p) ==
  IF p.kind = "king"
  THEN [fen EXCEPT !.castling = {r \in @ : r[2] # HomeRank(p.color)}]
  ELSE clearCastlingForRook(fen, s, p)

passTurn(fen) == [fen EXCEPT !.turn = opponentOf(@), !.ep = NoSquare]
withSideToMove(fen, c) == [fen EXCEPT !.turn = c]
withoutEnPassant(fen) == [fen EXCEPT !.ep = NoSquare]

destroyPiece(fen, s) ==
  clearCastlingForRook([fen EXCEPT !.at = Without(@, {s})], s, fen.at[s])
placePiece(fen, s, p) == [fen EXCEPT !.at = With(@, s, p)]
Shifted(at, from, to) == With(Without(at, {from}), to, at[from])
movePieceFen(fen, from, to) ==
  clearCastlingForMovedPiece([fen EXCEPT !.at = Shifted(@, from, to)], from, fen.at[from])
setPiece(fen, s, p) ==
  clearCastlingForRook([fen EXCEPT !.at = [@ EXCEPT ![s] = p]], s, fen.at[s])
swapPieces(fen, a, b) ==
  LET swapped == [fen EXCEPT !.at = [@ EXCEPT ![a] = fen.at[b], ![b] = fen.at[a]]]
  IN  clearCastlingForMovedPiece(clearCastlingForMovedPiece(swapped, a, fen.at[a]), b, fen.at[b])
CanSwap(fen, a, b) ==
  /\ fen.at[a].kind = "pawn" => b[2] \notin {1, 8}
  /\ fen.at[b].kind = "pawn" => a[2] \notin {1, 8}

(* The rights restoreCastling would add: king and rook stand at home.      *)
Restorable(fen, c) ==
  {r \in {<<1, HomeRank(c)>>, <<8, HomeRank(c)>>} :
     /\ Holds(fen, <<5, HomeRank(c)>>, c, "king")
     /\ Holds(fen, r, c, "rook")
     /\ r \notin fen.castling}
restoreCastling(fen, c) == [fen EXCEPT !.castling = @ \cup Restorable(fen, c)]

(* The pawn whose double push made the en passant square is still there,   *)
(* and the square it passed is still empty.                                *)
EpPawn(ep) == IF ep[2] = 3 THEN <<ep[1], 4>> ELSE <<ep[1], 5>>
clearStaleEnPassant(fen) ==
  IF \/ fen.ep = NoSquare
     \/ /\ ~Occupied(fen, fen.ep)
        /\ Holds(fen, EpPawn(fen.ep), IF fen.ep[2] = 3 THEN "white" ELSE "black", "pawn")
  THEN fen ELSE withoutEnPassant(fen)
returnPiece(fen, at, origin, p) ==
  clearStaleEnPassant([fen EXCEPT !.at = With(Without(@, {at}), origin, p)])

countPieces(fen, c, k) == Cardinality({s \in DOMAIN fen.at : fen.at[s] = [color |-> c, kind |-> k]})
piecesOf(fen, c, kinds) ==
  {s \in OwnSquares(fen, c) : IF kinds = {} THEN fen.at[s].kind # "king" ELSE fen.at[s].kind \in kinds}
KingSquares(fen, c) == {s \in OwnSquares(fen, c) : fen.at[s].kind = "king"}
aroundKing(fen, c, radius) ==
  {s \in OwnSquares(fen, c) \ KingSquares(fen, c) :
     \E k \in KingSquares(fen, c) : chebyshev(s, k) <= radius}
pawnsSideBySide(fen, c) ==
  {s \in OwnSquares(fen, c) :
     /\ fen.at[s].kind = "pawn"
     /\ \E d \in {-1, 1} : Holds(fen, <<s[1] + d, s[2]>>, c, "pawn")}

-----------------------------------------------------------------------------
(* Attacks, found from the attacked square outwards, without the engine.   *)

Diagonals == {<<1, 1>>, <<1, -1>>, <<-1, 1>>, <<-1, -1>>}
Straights == {<<1, 0>>, <<-1, 0>>, <<0, 1>>, <<0, -1>>}
KnightJumps == {d \in (-2..2) \X (-2..2) : Abs(d[1] * d[2]) = 2}
Off(s, d, k) == <<s[1] + k * d[1], s[2] + k * d[2]>>
(* The squares met from s along d, up to the first piece.                  *)
Ray(fen, s, d) ==
  {Off(s, d, k) : k \in {k \in 1..7 :
     Off(s, d, k) \in Squares /\ \A j \in 1..(k - 1) : ~Occupied(fen, Off(s, d, j))}}
Towards(s, t) == <<Sign(t[1] - s[1]), Sign(t[2] - s[2])>>
Aligned(s, t) == s[1] = t[1] \/ s[2] = t[2] \/ Abs(s[1] - t[1]) = Abs(s[2] - t[2])
Between(s, t) == {Off(s, Towards(s, t), k) : k \in 1..(chebyshev(s, t) - 1)}
Sees(fen, s, dirs, c, kinds) ==
  \E t \in DOMAIN fen.at \ {s} :
     /\ fen.at[t].kind \in kinds /\ fen.at[t].color = c
     /\ Aligned(s, t) /\ Towards(s, t) \in dirs
     /\ \A q \in Between(s, t) : ~Occupied(fen, q)

squareAttacked(fen, s, by) ==
  \/ \E df \in {-1, 1} : Holds(fen, <<s[1] + df, s[2] - Forward(by)>>, by, "pawn")
  \/ \E d \in KnightJumps : Holds(fen, Off(s, d, 1), by, "knight")
  \/ \E d \in Diagonals \cup Straights : Holds(fen, Off(s, d, 1), by, "king")
  \/ Sees(fen, s, Straights, by, {"rook", "queen"})
  \/ Sees(fen, s, Diagonals, by, {"bishop", "queen"})
isKingAttacked(fen, c) == \E s \in KingSquares(fen, c) : squareAttacked(fen, s, opponentOf(c))

-----------------------------------------------------------------------------
(* The engine's moves.  A move has a promotion kind or "none".             *)

UciMove(from, to, promo) == [from |-> from, to |-> to, promo |-> promo]
Dirs(kind) == CASE kind = "rook" -> Straights [] kind = "bishop" -> Diagonals
                [] OTHER -> Straights \cup Diagonals
(* The squares the engine says a piece attacks, found from the piece.      *)
Reach(fen, s) ==
  LET p == fen.at[s] IN
  CASE p.kind = "pawn" -> {<<s[1] + 1, s[2] + Forward(p.color)>>, <<s[1] - 1, s[2] + Forward(p.color)>>} \cap Squares
    [] p.kind = "knight" -> {Off(s, d, 1) : d \in KnightJumps} \cap Squares
    [] p.kind = "king" -> aroundSquares(s, 1)
    [] OTHER -> UNION {Ray(fen, s, d) : d \in Dirs(p.kind)}
PawnSteps(fen, s) ==
  LET c == fen.at[s].color
      one == forwardSquare(s, c, 1)
      two == forwardSquare(s, c, 2)
  IN  (IF one \in Squares /\ ~Occupied(fen, one) THEN {one} ELSE {})
        \cup (IF relativeRank(s, c) = 2 /\ ~Occupied(fen, one) /\ ~Occupied(fen, two) THEN {two} ELSE {})
        \cup {t \in Reach(fen, s) : t = fen.ep \/ (Occupied(fen, t) /\ fen.at[t].color # c)}
Destinations(fen, s) ==
  IF fen.at[s].kind = "pawn" THEN PawnSteps(fen, s)
  ELSE {t \in Reach(fen, s) : ~Occupied(fen, t) \/ fen.at[t].color # fen.at[s].color}
(* Castling with the rook at home on r: nothing between it and the king,  *)
(* and no square the king stands on, passes or reaches is attacked.        *)
FilesBetween(a, b) == {f \in Lines : (a < f /\ f < b) \/ (b < f /\ f < a)}
CastleTo(r) == <<IF r[1] = 8 THEN 7 ELSE 3, r[2]>>
CastleRookTo(r) == <<IF r[1] = 8 THEN 6 ELSE 4, r[2]>>
CastlingRooks(fen, c) ==
  {r \in fen.castling :
     /\ r[2] = HomeRank(c)
     /\ \A f \in FilesBetween(5, r[1]) : ~Occupied(fen, <<f, r[2]>>)
     /\ \A f \in {5, CastleRookTo(r)[1], CastleTo(r)[1]} : ~squareAttacked(fen, <<f, r[2]>>, opponentOf(c))}
IsCastle(fen, m) == fen.at[m.from].kind = "king" /\ Abs(m.to[1] - m.from[1]) = 2
CastledRook(m) == <<IF m.to[1] = 7 THEN 8 ELSE 1, m.to[2]>>

Promotions(fen, from, to) ==
  IF fen.at[from].kind = "pawn" /\ to[2] \in {1, 8} THEN {"queen", "rook", "bishop", "knight"} ELSE {"none"}
PseudoMoves(fen) ==
  UNION {{UciMove(s, t, k) : k \in Promotions(fen, s, t)} :
           <<s, t>> \in UNION {{s} \X Destinations(fen, s) : s \in OwnSquares(fen, fen.turn)}}
    \cup {UciMove(<<5, r[2]>>, CastleTo(r), "none") : r \in CastlingRooks(fen, fen.turn)}

(* captureSquare: where the captured piece stands, en passant included.    *)
captureSquare(fen, from, to) ==
  IF Occupied(fen, to) THEN to
  ELSE IF fen.at[from].kind = "pawn" /\ from[1] # to[1] THEN <<to[1], from[2]>> ELSE NoSquare

Promoted(p, promo) == IF promo = "none" THEN p ELSE [p EXCEPT !.kind = promo]
EpAfter(fen, m) ==
  IF /\ fen.at[m.from].kind = "pawn" /\ Abs(m.to[2] - m.from[2]) = 2
     /\ \E d \in {-1, 1} : Holds(fen, <<m.to[1] + d, m.to[2]>>, opponentOf(fen.turn), "pawn")
  THEN <<m.from[1], (m.from[2] + m.to[2]) \div 2>> ELSE NoSquare
(* The captured piece goes, the piece moves and is promoted, the rook of a *)
(* castling follows; rights end with a king's or rook's move or capture.   *)
engineApplyMove(fen, m) ==
  LET p == fen.at[m.from]
      gone == {captureSquare(fen, m.from, m.to)}
      moved == With(Without(fen.at, gone \cup {m.from}), m.to, Promoted(p, m.promo))
      placed == IF IsCastle(fen, m) THEN Shifted(moved, CastledRook(m), <<(m.from[1] + m.to[1]) \div 2, m.to[2]>>)
                                    ELSE moved
  IN  [at |-> placed, turn |-> opponentOf(fen.turn), ep |-> EpAfter(fen, m),
       castling |-> IF p.kind = "king" THEN {r \in fen.castling : r[2] # HomeRank(p.color)} \ {m.to}
                                       ELSE fen.castling \ {m.from, m.to}]
isLegal(fen, m) == ~isKingAttacked(engineApplyMove(fen, m), fen.turn)
legalMoves(fen) == {m \in PseudoMoves(fen) : isLegal(fen, m)}
insufficientMaterial(fen) ==
  /\ \A s \in DOMAIN fen.at : fen.at[s].kind \in {"king", "bishop", "knight"}
  /\ Cardinality({s \in DOMAIN fen.at : fen.at[s].kind # "king"}) <= 1

(* A move the engine does not know: no castling, en passant or promotion.  *)
applySpecialMove(fen, from, to) ==
  LET taken == IF Occupied(fen, to) THEN clearCastlingForRook(fen, to, fen.at[to]) ELSE fen
  IN  passTurn(clearCastlingForMovedPiece([taken EXCEPT !.at = Shifted(fen.at, from, to)], from, fen.at[from]))
=============================================================================

------------------------------- MODULE Match --------------------------------
(***************************************************************************)
(* internal/match: one match's phase machine together with the card        *)
(* resources of its two players (internal/spells.PlayerState).             *)
(*                                                                         *)
(* The variable match is match.State.  Hands, decks and discard piles are  *)
(* bags, functions from Spells to the number of copies; a deck is shuffled *)
(* once, when the match is built, and never looked into afterwards, so its *)
(* order is left out and a draw takes any card the deck still holds.  An   *)
(* operation whose result depends on what is drawn is the SET of its       *)
(* possible results.                                                       *)
(*                                                                         *)
(* The chess board is not here, as in the code: a move, a rejected cast    *)
(* and the pieces a step buries are choices of the room (module Room).     *)
(***************************************************************************)
EXTENDS Phases, FiniteSets, Functions

CONSTANTS
    Spells,          \* spells.Catalog, the ids
    Cost,            \* ManaCost of each spell
    CastPhases,      \* Phases of each spell: main1 and main2, or main1 alone
    PerTurn,         \* Limits["per_turn"], NoLimit when the spell has none
    DrawAmount,      \* cards its draw_card effect draws
    ManaGain,        \* mana its gain_mana effect gives (never can_exceed_cap)
    NoLimit,
    Decks,           \* each player's deck, before the first hand is dealt
    StartingHand,
    InitialMana,
    MaxManaCap,
    MaxTurns,        \* bound: the turn after which no turn begins
    MaxLost          \* bound: cards one step makes a player draw for lost pieces

Bag == [Spells -> Nat]

ASSUME CatalogAssumption ==
    /\ IsFiniteSet(Spells)
    /\ Cost \in [Spells -> Nat]
    /\ CastPhases \in [Spells -> SUBSET MainPhases]
    /\ DrawAmount \in [Spells -> Nat]
    /\ ManaGain \in [Spells -> Nat]
    /\ PerTurn \in [Spells -> Nat \cup {NoLimit}]
    /\ NoLimit \notin Nat

ASSUME RulesAssumption ==
    /\ Decks \in [Player -> Bag]
    /\ StartingHand \in Nat
    /\ InitialMana \in Nat
    /\ MaxManaCap \in Nat
    /\ InitialMana <= MaxManaCap
    /\ MaxTurns \in Nat \ {0}
    /\ MaxLost \in Nat

VARIABLE match

-----------------------------------------------------------------------------
(* Bags of cards. *)

Plus(b, s)  == [b EXCEPT ![s] = @ + 1]
Minus(b, s) == [b EXCEPT ![s] = @ - 1]
NoCards     == [s \in Spells |-> 0]

Min2(a, b) == IF a <= b THEN a ELSE b

(* The ways to take n cards from a deck, or all of it when it holds fewer. *)
Top(deck, n) ==
    {b \in [Spells -> 0 .. n] :
        /\ \A s \in Spells : b[s] <= deck[s]
        /\ SumFunction(b) = Min2(n, SumFunction(deck))}

(* The state of a match: match.State and its two spells.PlayerState.  The   *)
(* cards of a player are a bag per place.                                   *)
MatchState ==
    [phase : Phase, turn : Nat \ {0}, active : Player,
     mana : [Player -> Nat], maxMana : [Player -> Nat],
     hand : [Player -> Bag], deck : [Player -> Bag],
     discard : [Player -> Bag], casts : [Player -> Bag]]

-----------------------------------------------------------------------------
(* The operations of match.State, each as the set of states it may lead to. *)

(* p draws n cards; an empty deck gives none, and nothing else happens. *)
drawCards(m, p, n) ==
    {[m EXCEPT !.deck[p] = [s \in Spells |-> @[s] - b[s]],
               !.hand[p] = [s \in Spells |-> @[s] + b[s]]] :
        b \in Top(m.deck[p], n)}

(* The number of own turns p has begun: White acts in the odd turns. *)
playerTurnIndex(p, t) == IF p = White THEN (t + 1) \div 2 ELSE t \div 2

refreshMana(m, p) ==
    LET max == Min2(playerTurnIndex(p, m.turn), MaxManaCap)
    IN  [m EXCEPT !.maxMana[p] = max, !.mana[p] = max]

(* Mutants of Rollover: no card is drawn; the active player stays.          *)
RolloverNoDraw(m) ==
    LET p == Opponent(m.active)
        begun == [m EXCEPT !.phase = "draw", !.turn = @ + 1,
                           !.active = p, !.casts[p] = NoCards]
    IN  {refreshMana(begun, p)}

RolloverSamePlayer(m) ==
    LET p == m.active
        begun == [m EXCEPT !.phase = "draw", !.turn = @ + 1, !.casts[p] = NoCards]
    IN  drawCards(refreshMana(begun, p), p, 1)

(* The end of a turn: the opponent is active, with its limits, its mana and *)
(* its draw.                                                                *)
Rollover(m) ==
    LET p == Opponent(m.active)
        begun == [m EXCEPT !.phase = "draw", !.turn = @ + 1,
                           !.active = p, !.casts[p] = NoCards]
    IN  drawCards(refreshMana(begun, p), p, 1)

Advance(m) ==
    IF NextPhase[m.phase] = "end_turn"
    THEN Rollover(m)
    ELSE {[m EXCEPT !.phase = NextPhase[m.phase]]}

withinLimits(m, s) ==
    PerTurn[s] # NoLimit => m.casts[m.active][s] < PerTurn[s]

(* s is in the active player's hand and every rule of the card game lets it *)
(* be cast now.                                                             *)
Castable(m, s) ==
    /\ m.phase \in CastPhases[s]
    /\ m.hand[m.active][s] > 0
    /\ Cost[s] <= m.mana[m.active]
    /\ withinLimits(m, s)

CanCastAny(m) == \E s \in Spells : Castable(m, s)

shouldAutoAdvance(m) ==
    \/ m.phase = "draw"
    \/ m.phase \in MainPhases /\ ~CanCastAny(m)

Step(S) ==
    UNION {IF shouldAutoAdvance(m) THEN Advance(m) ELSE {m} : m \in S}

(* Mutant of AutoAdvance: one step only. *)
AutoAdvanceOnce(S) == Step(S)

(* At most three phases in a row ask for no input: the opponent's draw, its *)
(* main1, and the main phase the walk starts from.  The code's cap of 12    *)
(* steps is never reached (RestNeedsInput).                                 *)
AutoAdvance(S) == Step(Step(Step(S)))

(* Without can_exceed_cap the gain stops at the absolute cap, not at the    *)
(* turn's maximum.                                                          *)
GainMana(m, p, n) == [m EXCEPT !.mana[p] = Min2(@ + n, MaxManaCap)]

(* Lost pieces: each player's own_piece_lost triggers draw, White's first.  *)
LosePieces(m) ==
    UNION {UNION {drawCards(w, Black, n[Black]) : w \in drawCards(m, White, n[White])} :
             n \in [Player -> 0 .. MaxLost]}

(* What a cast of s leaves once its effects were accepted: the deferred     *)
(* gain and draw, the triggers, and only then the price and the discard.    *)
Resolved(m, s) ==
    LET p == m.active
        applied == UNION {LosePieces(d) :
                            d \in drawCards(GainMana(m, p, ManaGain[s]), p, DrawAmount[s])}
    IN  {[a EXCEPT !.mana[p] = @ - Cost[s],
                   !.hand[p] = Minus(@, s),
                   !.discard[p] = Plus(@, s),
                   !.casts[p] = Plus(@, s)] : a \in applied}

-----------------------------------------------------------------------------
(* The behaviours: a new match, then the handlers' calls. *)

(* NewWithDecks, and the AutoAdvance with which the room starts the match.  *)
(* White does not draw on turn 1.                                           *)
Dealt ==
    {[phase |-> "draw", turn |-> 1, active |-> White,
      mana |-> [p \in Player |-> InitialMana],
      maxMana |-> [p \in Player |-> InitialMana],
      hand |-> h,
      deck |-> [p \in Player |-> [s \in Spells |-> Decks[p][s] - h[p][s]]],
      discard |-> [p \in Player |-> NoCards],
      casts |-> [p \in Player |-> NoCards]] :
        h \in {g \in [Player -> [Spells -> 0 .. StartingHand]] :
                  \A p \in Player : g[p] \in Top(Decks[p], StartingHand)}}

Init == match \in AutoAdvance(Dealt)

(* pass_phase, by the player or by the clock. *)
PassPhase ==
    /\ match.phase \in MainPhases
    /\ match' \in AutoAdvance(Advance(match))

(* A move after which the match stays in the move phase: Fretta's second    *)
(* move is still to come.                                                   *)
FirstOfTwoMoves ==
    /\ match.phase = "move"
    /\ match' \in LosePieces(match)

(* The move that closes the move phase, or Fretta's second move skipped. *)
Move ==
    /\ match.phase = "move"
    /\ \E m \in LosePieces(match) : match' \in AutoAdvance(Advance(m))

CastSpell(s) ==
    /\ Castable(match, s)
    /\ match' \in AutoAdvance(Resolved(match, s))

Next ==
    /\ \/ PassPhase
       \/ FirstOfTwoMoves
       \/ Move
       \/ \E s \in Spells : CastSpell(s)
    /\ match'.turn <= MaxTurns

Spec == Init /\ [][Next]_match

-----------------------------------------------------------------------------
(* Properties. *)

TypeOK == match \in MatchState

(* No card is ever created or lost: whatever is drawn, cast, discarded or   *)
(* drawn by a trigger in the middle of a cast, hand, deck and discard pile  *)
(* together always hold the deck the player brought.                        *)
CardsConserved ==
    \A p \in Player, s \in Spells :
        match.hand[p][s] + match.deck[p][s] + match.discard[p][s] = Decks[p][s]

(* Between two handlers the match waits for its active player in a phase    *)
(* where that player has something to do: never in draw or end_turn, and    *)
(* never in a main phase without a castable card.                           *)
RestNeedsInput == match.phase \in RestPhases /\ ~shouldAutoAdvance(match)

(* The turns p has begun with a rollover: White's first turn is not one. *)
Rollovers(p) == playerTurnIndex(p, match.turn) - (IF p = White THEN 1 ELSE 0)

(* A player's maximum follows the turns it has begun, one crystal a turn up *)
(* to the cap, and no gain takes the current mana over the cap.             *)
ManaOnSchedule ==
    \A p \in Player :
        /\ match.mana[p] <= MaxManaCap
        /\ match.maxMana[p] = IF Rollovers(p) = 0 THEN InitialMana
                              ELSE Min2(playerTurnIndex(p, match.turn), MaxManaCap)

(* Nothing is cast for free: in its turn the active player's mana and the   *)
(* price of everything it cast this turn stay within what the turn gave.    *)
SpendingBacked ==
    LET p == match.active
        Total(value) == SumFunction([s \in Spells |-> match.casts[p][s] * value[s]])
    IN  match.mana[p] + Total(Cost) <= match.maxMana[p] + Total(ManaGain)

(* Every turn after the first starts with a draw, as long as the deck has   *)
(* cards: no deck is larger than the turns its player has begun allow.      *)
DrawnEachTurn ==
    \A p \in Player :
        LET owed == StartingHand + Rollovers(p)
            size == SumFunction(Decks[p])
        IN  SumFunction(match.deck[p]) <= IF size <= owed THEN 0 ELSE size - owed

(* The match implements the abstract turn cycle. *)
Turns == INSTANCE TurnCycle WITH phase <- match.phase, turn <- match.turn,
                                 active <- match.active
TurnsSpec == Turns!Spec

(* No card is lost or made, and the match rests only where its player can  *)
(* do something: handlers, draws, triggers and skipped phases together.    *)
MatchSound == TypeOK /\ CardsConserved /\ RestNeedsInput

(* Mana and cards come as the turns do, and are spent only if there.       *)
TurnsPay == ManaOnSchedule /\ SpendingBacked /\ DrawnEachTurn
=============================================================================

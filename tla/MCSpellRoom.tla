---------------------------- MODULE MCSpellRoom ----------------------------
(* Small matches for SpellRoom.  The spells have the effects of            *)
(* spells.json, with the amounts of a small board (the banner asks for two *)
(* pawns, not six); each match deals a few of them.                        *)
EXTENDS Highlights

Main == {"main1", "main2"}
Target(type, pieces) ==
  [type |-> type, pieces |-> pieces, require |-> "none", empty |-> FALSE,
   maxDistance |-> 0, ownRanks |-> {}, minRank |-> 0]
EmptySquare == [Target("square", {}) EXCEPT !.empty = TRUE]
Spell(cost, phases, targets, effects) ==
  [cost |-> cost, phases |-> phases, perTurn |-> 0, targets |-> targets, effects |-> effects]
Minor == {"knight", "bishop"}
Freeze(n) == [NoRune EXCEPT !.onEnter = "freeze_piece", !.duration = n]
Trigger(on, do, hidden, oneShot) ==
  [on |-> on, do |-> do, amount |-> 1, turns |-> 1, hidden |-> hidden, oneShot |-> oneShot]

MCCatalog ==
  [blood_pact |-> [Spell(0, Main, <<Target("own_piece", {"pawn"})>>,
       <<[kind |-> "destroy_piece"], [kind |-> "gain_mana", amount |-> 2, overCap |-> FALSE]>>) EXCEPT !.perTurn = 1],
   forced_march |-> Spell(1, Main, <<Target("own_piece", {"pawn"})>>,
       <<[kind |-> "move_piece", relative |-> "forward", squares |-> 1, noPromotion |-> TRUE]>>),
   frost |-> Spell(1, Main, <<Target("enemy_piece", {"pawn"})>>, <<[kind |-> "freeze_piece", duration |-> 1]>>),
   revelation |-> Spell(1, Main, <<>>, <<[kind |-> "reveal_runes"], [kind |-> "draw_card", amount |-> 1]>>),
   banner |-> Spell(2, Main, <<>>, <<[kind |-> "add_aura", grant |-> "pawn_sidestep", minPawns |-> 2]>>),
   ice_wall |-> Spell(2, Main, <<EmptySquare>>, <<[kind |-> "create_wall", effect |-> "wall", duration |-> 2]>>),
   phase_step |-> Spell(2, {"main1"}, <<Target("own_piece", {"bishop"})>>, <<[kind |-> "add_effect", duration |-> 0]>>),
   repel_rune |-> Spell(2, Main, <<EmptySquare>>,
       <<[kind |-> "place_rune", rune |-> [NoRune EXCEPT !.onEnter = "return_to_origin"]]>>),
   restless_soul |-> Spell(2, Main, <<>>,
       <<[kind |-> "add_trigger", trigger |-> Trigger("own_piece_lost", "draw_card", FALSE, FALSE)]>>),
   shield |-> Spell(2, Main, <<Target("own_piece", {"pawn", "knight", "bishop", "rook"})>>,
       <<[kind |-> "shield_piece", duration |-> 1]>>),
   stasis_rune |-> Spell(2, Main, <<EmptySquare>>, <<[kind |-> "place_rune", rune |-> Freeze(2)]>>),
   explosive_rune |-> Spell(3, Main, <<EmptySquare>>,
       <<[kind |-> "place_rune", rune |-> [NoRune EXCEPT !.onEnter = "destroy_piece", !.only = {"pawn", "knight", "bishop"},
                                                         !.fallback = "freeze_piece", !.fallbackDuration = 1]]>>),
   phalanx |-> Spell(3, Main, <<>>, <<[kind |-> "shield_area", area |-> "side_by_side", radius |-> 0, duration |-> 1]>>),
   recall |-> Spell(3, Main, <<[EmptySquare EXCEPT !.ownRanks = {2}]>>, <<[kind |-> "revive_piece", pieces |-> {"pawn"}]>>),
   reflection |-> Spell(3, Main, <<>>,
       <<[kind |-> "add_trigger", trigger |-> Trigger("shielded_piece_attacked", "freeze_attacker", TRUE, TRUE)]>>),
   royal_guard |-> Spell(3, Main, <<>>, <<[kind |-> "shield_area", area |-> "own_king", radius |-> 1, duration |-> 1]>>),
   swap |-> Spell(3, Main, <<Target("own_piece", {}), Target("own_piece", {})>>, <<[kind |-> "swap_pieces"]>>),
   blink |-> Spell(4, Main, <<Target("own_piece", Minor), [EmptySquare EXCEPT !.maxDistance = 2]>>,
       <<[kind |-> "move_piece", relative |-> "none", squares |-> 0, noPromotion |-> FALSE]>>),
   conscription |-> Spell(4, Main, <<[EmptySquare EXCEPT !.ownRanks = {2}]>>, <<[kind |-> "summon_pawn", max |-> 8]>>),
   detonation |-> Spell(4, Main, <<>>, <<[kind |-> "detonate_runes", radius |-> 1, duration |-> 1]>>),
   divine_castling |-> Spell(4, {"main1"}, <<>>, <<[kind |-> "restore_castling_rights"]>>),
   echo_of_fallen |-> Spell(4, {"main1"}, <<Target("own_piece", {"pawn"})>>,
       <<[kind |-> "borrow_movement", pieces |-> Minor, duration |-> 0]>>),
   shatter |-> Spell(4, Main, <<[Target("enemy_piece", {"pawn", "knight", "bishop", "rook"}) EXCEPT !.require = "freeze"]>>,
       <<[kind |-> "destroy_piece"]>>),
   metamorphosis |-> Spell(5, Main, <<Target("own_piece", Minor)>>,
       <<[kind |-> "transform_piece", map |-> [knight |-> "bishop", bishop |-> "knight"]]>>),
   sanctuary |-> Spell(5, Main, <<Target("square", {})>>,
       <<[kind |-> "create_square_effect", effect |-> "no_capture", duration |-> 3]>>),
   early_promotion |-> Spell(6, Main, <<[Target("own_piece", {"pawn"}) EXCEPT !.minRank = 6]>>,
       <<[kind |-> "promote_piece", choices |-> {"knight", "bishop", "rook", "queen"}]>>),
   haste |-> Spell(6, {"main1"}, <<>>, <<[kind |-> "extra_move", pieces |-> {"pawn"}, noCapture |-> TRUE]>>),
   eternal_winter |-> Spell(7, Main, <<>>, <<[kind |-> "freeze_all", side |-> "opponent", pieces |-> {"pawn"}, duration |-> 1]>>),
   minefield |-> Spell(7, Main, <<EmptySquare, EmptySquare>>, <<[kind |-> "place_rune", rune |-> Freeze(2)]>>),
   resurrection |-> Spell(8, Main, <<[EmptySquare EXCEPT !.ownRanks = {1}]>>,
       <<[kind |-> "revive_piece", pieces |-> {"knight", "bishop", "rook"}]>>)]

W(kind) == [color |-> "white", kind |-> kind]
B(kind) == [color |-> "black", kind |-> kind]
Match(at, castling, hands, aim, reach, turns) ==
  [fen |-> [at |-> at, turn |-> "white", castling |-> castling, ep |-> NoSquare],
   hand |-> [white |-> hands[1], black |-> hands[2]],
   deck |-> [white |-> hands[3], black |-> hands[4]],
   floor |-> [white |-> 10, black |-> 10], aim |-> aim, reach |-> reach, turns |-> turns]

(* Castling with rights given back by a spell, over a rune of the other.   *)
Castle == Match(<<5, 1>> :> W("king") @@ <<8, 1>> :> W("rook") @@ <<4, 1>> :> W("knight")
                  @@ <<5, 8>> :> B("king") @@ <<8, 8>> :> B("rook") @@ <<8, 7>> :> B("pawn"),
                {<<8, 8>>}, <<<<"divine_castling", "swap">>, <<"repel_rune">>, <<>>, <<>>>>,
                {<<8, 1>>, <<4, 1>>, <<6, 1>>}, {<<7, 1>>, <<7, 8>>, <<3, 3>>}, 3)
(* Runes and a sanctuary in front of pawns about to meet, en passant.      *)
RuneWar == Match(<<1, 1>> :> W("king") @@ <<4, 5>> :> W("pawn") @@ <<3, 3>> :> W("knight")
                  @@ <<8, 8>> :> B("king") @@ <<5, 7>> :> B("pawn"),
                {}, <<<<"sanctuary">>, <<"explosive_rune", "repel_rune">>, <<>>, <<>>>>,
                {<<5, 6>>, <<5, 5>>}, {<<1, 2>>, <<5, 6>>, <<5, 5>>}, 3)
(* Runes seen and set off by their owner, beside shielded pieces.          *)
Detonate == Match(<<1, 1>> :> W("king") @@ <<4, 4>> :> W("pawn")
                  @@ <<8, 8>> :> B("king") @@ <<5, 6>> :> B("pawn") @@ <<6, 6>> :> B("pawn"),
                {}, <<<<"stasis_rune", "royal_guard", "detonation">>, <<"revelation", "phalanx">>, <<>>, <<>>>>,
                {<<5, 5>>, <<4, 5>>}, {<<4, 5>>, <<5, 5>>}, 3)
(* Shields, the trigger behind them, and a frozen piece shattered.         *)
Shields == Match(<<1, 1>> :> W("king") @@ <<4, 5>> :> W("pawn") @@ <<3, 2>> :> W("rook")
                  @@ <<8, 8>> :> B("king") @@ <<3, 6>> :> B("pawn"),
                {}, <<<<"frost", "shatter">>, <<"shield", "reflection">>, <<>>, <<>>>>,
                {<<3, 6>>}, {<<1, 2>>, <<3, 6>>, <<3, 5>>, <<4, 5>>}, 3)
(* Pawns near promotion, pacts, recalls and levies.                        *)
Pawns == Match(<<1, 1>> :> W("king") @@ <<5, 6>> :> W("pawn") @@ <<2, 3>> :> W("pawn")
                  @@ <<8, 8>> :> B("king") @@ <<7, 3>> :> B("pawn"),
                {}, <<<<"blood_pact", "recall", "early_promotion">>, <<"conscription", "forced_march">>, <<>>, <<>>>>,
                {<<5, 6>>, <<2, 2>>, <<7, 7>>, <<7, 3>>}, {<<2, 4>>, <<5, 8>>, <<7, 2>>, <<7, 1>>}, 2)
(* Walls, sidesteps and the second move of Haste.                          *)
Marches == Match(<<1, 1>> :> W("king") @@ <<2, 2>> :> W("pawn") @@ <<3, 2>> :> W("pawn")
                  @@ <<1, 8>> :> B("king") @@ <<2, 4>> :> B("pawn"),
                {}, <<<<"haste", "banner">>, <<"ice_wall", "ice_wall", "eternal_winter">>, <<>>, <<>>>>,
                {<<2, 3>>}, {<<1, 2>>, <<2, 3>>, <<3, 4>>, <<4, 2>>}, 3)
(* What the graveyard gives back, and who draws for a piece it lost.       *)
Fallen == Match(<<1, 1>> :> W("king") @@ <<3, 3>> :> W("knight") @@ <<1, 2>> :> W("pawn")
                  @@ <<8, 8>> :> B("king") @@ <<3, 8>> :> B("rook"),
                {}, <<<<"restless_soul">>, <<>>, <<"echo_of_fallen", "resurrection">>, <<>>>>,
                {<<1, 2>>, <<3, 1>>}, {<<2, 1>>, <<3, 3>>, <<2, 4>>, <<1, 3>>}, 3)
(* Pieces that pass through others, jump and change kind.                  *)
Phase == Match(<<1, 1>> :> W("king") @@ <<2, 1>> :> W("bishop") @@ <<3, 2>> :> W("pawn")
                  @@ <<8, 8>> :> B("king") @@ <<6, 6>> :> B("knight"),
                {}, <<<<"phase_step", "metamorphosis">>, <<"blink">>, <<>>, <<>>>>,
                {<<2, 1>>, <<6, 6>>, <<4, 4>>}, {<<4, 3>>, <<6, 5>>, <<3, 3>>, <<5, 5>>}, 2)
(* A mate on the last rank, and a king left with frozen pawns.             *)
Mate == Match(<<1, 1>> :> W("king") @@ <<3, 1>> :> W("rook") @@ <<7, 8>> :> B("king") @@ <<6, 7>> :> B("pawn")
                  @@ <<7, 7>> :> B("pawn") @@ <<8, 7>> :> B("pawn"),
              {}, <<<<"frost">>, <<"forced_march">>, <<>>, <<>>>>, {<<8, 7>>}, {<<3, 8>>, <<8, 6>>}, 2)
Winter == Match(<<3, 7>> :> W("king") @@ <<2, 5>> :> W("knight") @@ <<1, 8>> :> B("king") @@ <<8, 5>> :> B("pawn")
                  @@ <<7, 3>> :> W("pawn"),
              {}, <<<<"eternal_winter">>, <<>>, <<>>, <<>>>>, {}, {<<7, 4>>}, 2)
(* A rook frozen at home, by runes set off beside it, and its castling.    *)
Frozen == Match(<<5, 1>> :> W("king") @@ <<8, 1>> :> W("rook") @@ <<1, 2>> :> W("pawn")
                  @@ <<5, 8>> :> B("king") @@ <<1, 7>> :> B("pawn"),
                {<<8, 1>>}, <<<<>>, <<"stasis_rune", "detonation">>, <<>>, <<>>>>,
                {<<8, 2>>}, {<<7, 1>>, <<1, 3>>, <<1, 6>>}, 3)
MCStarts == {Castle, RuneWar, Detonate, Shields, Pawns, Marches, Fallen, Phase, Mate, Winter, Frozen}
(* A king that walks back beside its own rook.                             *)
Walk == Match(<<6, 1>> :> W("king") @@ <<8, 1>> :> W("rook") @@ <<8, 8>> :> B("king") @@ <<7, 7>> :> B("pawn"),
              {}, <<<<>>, <<>>, <<>>, <<>>>>, {}, Squares, 1)
WalkStarts == {Walk}
=============================================================================

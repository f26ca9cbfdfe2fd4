--------------------------------- MODULE Wire ---------------------------------
(***************************************************************************)
(* What one player is shown of a match: the handlers of the room send      *)
(* frames (room.ts), the adapter reads them field by field (adapter.ts)    *)
(* and the store of the match applies them (matchStore.ts).                *)
(*                                                                         *)
(* The state of the match is a set of items, each with the number of times *)
(* it changed.  A frame carries the numbers of the items it is about; one  *)
(* of its fields may arrive other than the decoder expects it, from a      *)
(* server of another version or a faulty one.  A connection that drops     *)
(* loses what is in flight, and the next one starts with the whole state.  *)
(***************************************************************************)
EXTENDS Integers, Sequences, SequencesExt

CONSTANT MaxEvents   \* bound: handlers run, fields damaged and connections dropped, together

VARIABLES truth,     \* the state in the server: [Items -> Nat]
          turn,      \* whose turn it is; none once the match is over
          fretta,    \* a second move this turn: none, granted by a spell, or under way
          inFlight,  \* frames sent and not read
          shown,     \* the state in the store: [Items -> Nat \cup {Wrong}]
          hasGame,   \* a game_state was applied: game # null
          myColor,   \* the own colour is known
          suspect,   \* ghost: items that a reported frame may have left behind
          sinceFull, \* ghost: items changed with no frame about them since the last whole state
          late,      \* ghost: items told last as they were before
          left       \* what the bound still allows
vars == <<truth, turn, fretta, inFlight, shown, hasGame, myColor, suspect, sinceFull, late, left>>

Items == {"board", "phase", "clock", "strikes", "myMana", "theirMana", "hand", "mySize", "theirSize", "myDeck", "theirDeck", "states", "movement",
          "graveyards", "squares", "effects", "options", "players", "control", "friendly"}
Wrong == -1  \* what is shown of a field read wrong: the number of no change

(***************************************************************************)
(* How a field is read.  odd: of the right type, but negative, an          *)
(* enumerator of a later server, or a list with one such entry; bad: of    *)
(* another type.  A field is kept as sent, repaired with a warning, taken  *)
(* by its default in silence, or costs the whole frame.                    *)
(***************************************************************************)
Damages == {"odd", "bad", "null", "absent"}
Reading(odd, bad, null, absent) == [odd |-> odd, bad |-> bad, null |-> null, absent |-> absent]
Readers ==
  [required |-> Reading("refused", "refused", "refused", "refused"),
   clamped  |-> Reading("repaired", "refused", "refused", "refused"),
   counted  |-> Reading("repaired", "refused", "refused", "default"),
   passed   |-> Reading("kept", "refused", "refused", "refused"),
   nullable |-> Reading("refused", "refused", "default", "default"),
   items    |-> Reading("repaired", "refused", "default", "default"),
   tolerant |-> Reading("repaired", "repaired", "default", "default"),
   object   |-> Reading("default", "repaired", "default", "default"),
   openEnum |-> Reading("repaired", "repaired", "repaired", "repaired"),
   lateEnum |-> Reading("repaired", "repaired", "default", "default"),
   entry    |-> Reading("repaired", "repaired", "repaired", "repaired"),
   flag     |-> Reading("default", "default", "default", "default")]

F(name, reader, items) == [name |-> name, reader |-> reader, items |-> items]

decodeGameState ==
  {F("board.fen", "required", {"board"}), F("board.moves", "nullable", {"board"}), F("board.turn", "openEnum", {"board"}),
   F("board.status", "openEnum", {"board"}), F("phase_time", "tolerant", {"clock"}), F("timeouts", "tolerant", {"strikes"}),
   F("phase", "openEnum", {"phase"}), F("active_player", "openEnum", {"phase", "clock"}), F("turn_number", "clamped", {"phase"}),
   F("mana", "clamped", {"myMana", "theirMana"}), F("hand_size", "clamped", {"mySize", "theirSize"}), F("deck_size", "clamped", {"myDeck", "theirDeck"}),
   F("active_effects", "tolerant", {"states", "movement"}), F("graveyard", "tolerant", {"graveyards"}),
   F("square_effects", "tolerant", {"squares"}), F("triggers", "tolerant", {"effects"}), F("auras", "tolerant", {"effects"}),
   F("special_moves", "tolerant", {"options"}), F("extra_move", "object", {"options"}), F("players", "openEnum", {"players"}),
   F("time_control", "tolerant", {"control"}), F("friendly", "flag", {"friendly"})}

(* The fields of one applied effect: an effect with a field it cannot do   *)
(* without is unknown, and leaves no state on a piece.                     *)
AppliedEffects ==
  [freeze |-> {F("target", "entry", {"states"}), F("remaining_turns", "entry", {"states"})},
   destroy |-> {F("target", "entry", {}), F("piece_destroyed", "openEnum", {})},
   wall |-> {F("target", "entry", {}), F("remaining_turns", "entry", {})},
   rune |-> {F("targets", "entry", {}), F("on_enter", "entry", {})},
   phasing |-> {F("target", "entry", {}), F("effect", "entry", {})},
   draw |-> {F("count", "entry", {})},
   mana |-> {F("amount", "entry", {}), F("mana", "entry", {})},
   trigger |-> {F("on", "entry", {}), F("do", "entry", {})},
   extra |-> {F("pieces", "entry", {}), F("no_capture", "entry", {})}]
decodeSpellCast(effect) ==
  {F("player", "required", {"hand"}), F("spell_id", "required", {"hand"}), F("targets", "items", {}),
   F("effects_applied", "tolerant", IF effect = "freeze" THEN {"states"} ELSE {})} \cup AppliedEffects[effect]
hiddenSpellCast == {F("player", "required", {}), F("effects_applied", "tolerant", {})}

decodeHand == {F("hand", "nullable", {"hand"}), F("mana", "clamped", {"myMana"}), F("deck_size", "clamped", {"myDeck"})}
decodeCardDrawn == {F("card_id", "required", {"hand"}), F("deck_size", "counted", {"myDeck"})}
decodeHandSizeChanged(size) == {F("player", "required", {size}), F("size", "clamped", {size})}
decodeManaChanged(mana) == {F("player", "required", {mana}), F("current", "clamped", {mana})}
decodePhaseChanged ==
  {F("phase", "openEnum", {"phase", "clock"}), F("active_player", "required", {"phase"}), F("turn_number", "clamped", {"phase"})}
decodeEffectExpired ==
  {F("square", "required", {"states"}), F("effect_kind", "required", {"states"}), F("reason", "lateEnum", {})}
decodeGraveyardChanged == {F("player", "required", {"graveyards"}), F("graveyard", "tolerant", {"graveyards"})}
decodeSquareEffectsChanged == {F("square_effects", "tolerant", {"squares"})}
decodeRuneTriggered == {F("square", "required", {}), F("owner", "required", {}), F("result", "openEnum", {})}
decodePlayerEffectsChanged == {F("triggers", "tolerant", {"effects"}), F("auras", "tolerant", {"effects"})}
decodeTriggerFired == {F("player", "required", {}), F("result", "openEnum", {})}
decodeAuraChanged == {F("player", "required", {}), F("active", "required", {})}
decodeMoveOptions == {F("special_moves", "tolerant", {"options"}), F("extra_move", "object", {"options"})}
decodeTimerUpdate == {F("phase_time", "clamped", {"clock"}), F("turn", "openEnum", {"clock"}), F("phase", "lateEnum", {})}
decodePhaseTimeout == {F("player", "required", {"strikes"}), F("phase", "openEnum", {}), F("strikes", "passed", {"strikes"})}
DECODERS ==
  [game_state |-> decodeGameState, hand |-> decodeHand, card_drawn |-> decodeCardDrawn,
   my_hand_size_changed |-> decodeHandSizeChanged("mySize"), their_hand_size_changed |-> decodeHandSizeChanged("theirSize"),
   my_mana_changed |-> decodeManaChanged("myMana"), their_mana_changed |-> decodeManaChanged("theirMana"), phase_changed |-> decodePhaseChanged, effect_expired |-> decodeEffectExpired,
   graveyard_changed |-> decodeGraveyardChanged, square_effects_changed |-> decodeSquareEffectsChanged,
   rune_triggered |-> decodeRuneTriggered, player_effects_changed |-> decodePlayerEffectsChanged,
   trigger_fired |-> decodeTriggerFired, aura_changed |-> decodeAuraChanged, move_options |-> decodeMoveOptions,
   timer_update |-> decodeTimerUpdate, phase_timeout |-> decodePhaseTimeout]
fieldsOf(m) ==
  IF m.type # "spell_cast" THEN DECODERS[m.type]
  ELSE IF m.hidden THEN hiddenSpellCast ELSE decodeSpellCast(m.effect)

(***************************************************************************)
(* What the decoder makes of a frame whose field f is damaged as d.        *)
(***************************************************************************)
Intact == [field |-> F("none", "flag", {}), as |-> "good"]
ReadAs(damage) == IF damage = Intact THEN "kept" ELSE Readers[damage.field.reader][damage.as]
ItemsOf(m) == UNION {f.items : f \in fieldsOf(m)}
(* The fields whose unexpected values the adapter drops without a warning. *)
Quiet(damage) == ReadAs(damage) = "default" /\ damage.as \in {"odd", "bad"}
(* An older server leaves out what it knows nothing of: the default is the *)
(* state of things there.                                                  *)
OlderServer(m, damage) == ReadAs(damage) = "default" => \A i \in damage.field.items : m.vals[i] = 0
DamagesOf(m) ==
  IF left = 0 THEN {Intact}
  ELSE {Intact} \cup {d \in [field : fieldsOf(m), as : Damages] : ~Quiet(d) /\ OlderServer(m, d)}

(***************************************************************************)
(* The store.  The hand, and the states of the pieces, are kept up to date *)
(* by differences; every other item arrives whole.                         *)
(***************************************************************************)
NeedsGame == Items \ {"hand", "clock", "myDeck"}
Difference(m, i) ==
  \/ i = "hand" /\ m.type \in {"card_drawn", "spell_cast"}
  \/ i = "states" /\ m.type \in {"spell_cast", "effect_expired"}
ByDifference(m, i) ==
  IF shown[i] = m.vals[i] /\ i = "states" THEN shown[i]     \* the state is there already, or already gone
  ELSE IF shown[i] # Wrong /\ shown[i] + 1 = m.vals[i] THEN m.vals[i] ELSE Wrong
(* The cards of a cast leave the hand only if one knows one's own colour.  *)
Reaches(m, i) ==
  /\ i \in NeedsGame => hasGame \/ m.type = "game_state"
  /\ m.type = "spell_cast" /\ i = "hand" => m.mine /\ myColor
applyServerEvent(m, damage) ==
  LET read == {i \in ItemsOf(m) : Reaches(m, i)}
  IN  [i \in Items |-> IF i \notin read THEN shown[i]
                       ELSE IF i \in damage.field.items /\ ReadAs(damage) # "kept"
                            THEN IF ReadAs(damage) = "default" THEN 0 ELSE Wrong
                       ELSE IF Difference(m, i) THEN ByDifference(m, i) ELSE m.vals[i]]

(***************************************************************************)
(* The frames of a handler, sent in order after it has done its work.      *)
(***************************************************************************)
Bump(t, items) == [i \in Items |-> IF i \in items THEN t[i] + 1 ELSE t[i]]
Carried(type) == IF type = "spell_cast" THEN {"hand", "states"} ELSE UNION {f.items : f \in DECODERS[type]}
msg(type, t) == [type |-> type, vals |-> [i \in Carried(type) |-> t[i]], mine |-> FALSE, effect |-> "none", hidden |-> FALSE]
When(b, frames) == IF b THEN frames ELSE <<>>

Free == inFlight = <<>> /\ left > 0 /\ turn # "none"
Send(t, frames) ==
  /\ truth' = t /\ inFlight' = frames
  /\ sinceFull' = sinceFull \cup ({i \in Items : t[i] # truth[i]} \ UNION {ItemsOf(frames[k]) : k \in 1..Len(frames)})
  /\ left' = left - 1
  /\ UNCHANGED <<shown, hasGame, myColor, suspect, late>>

By == {"me", "them"}
Opponent(by) == IF by = "me" THEN "them" ELSE "me"
Deck(by) == IF by = "me" THEN "myDeck" ELSE "theirDeck"
Size(by) == IF by = "me" THEN "mySize" ELSE "theirSize"
Mana(by) == IF by = "me" THEN "myMana" ELSE "theirMana"
OwnHand(by) == IF by = "me" THEN {"hand"} ELSE {}
handSizeChanged(by, t) == msg(IF by = "me" THEN "my_hand_size_changed" ELSE "their_hand_size_changed", t)
manaChanged(by, t) == msg(IF by = "me" THEN "my_mana_changed" ELSE "their_mana_changed", t)
Drawn(by, t) == Bump(t, {Size(by), Deck(by)} \cup OwnHand(by))
broadcastDraw(by, t) == When(by = "me", <<msg("card_drawn", t)>>) \o <<handSizeChanged(by, t)>>

(* What the phases that end together change: on a new turn mana and a card *)
(* for the one whose turn it is, and effects that lapse.  One phase_changed *)
(* stands for those of the phases passed over.                             *)
AtTurn == {a \in [newTurn : BOOLEAN, lapses : {{}, {"states", "squares", "effects"}}] : ~a.newTurn => a.lapses = {}}
Advanced(by, t, a) ==
  LET p == Bump(t, {"phase", "clock", "options"})
  IN  IF a.newTurn THEN Drawn(Opponent(by), Bump(p, {Mana(Opponent(by))} \cup a.lapses)) ELSE p
applyAdvanceBroadcasts(by, t, a) ==
  <<msg("phase_changed", t)>> \o When(a.newTurn, <<manaChanged(Opponent(by), t)>> \o broadcastDraw(Opponent(by), t))
(* Mutant: walls and runes that lapse are announced by nothing.            *)
broadcastExpiredStates(t, a) == When("states" \in a.lapses, <<msg("effect_expired", t)>>)
broadcastExpired(t, a) ==
  When("states" \in a.lapses, <<msg("effect_expired", t)>>) \o When("squares" \in a.lapses, <<msg("square_effects_changed", t)>>)

(* What pieces lost set off (events.go): the trigger of their owner draws  *)
(* a card, and the triggers and the auras of the players change.           *)
Reacted(owner, t, fires) == IF fires THEN Drawn(owner, Bump(t, {"effects"})) ELSE t
broadcastFired(owner, t, fires) ==
  When(fires, <<msg("trigger_fired", t)>> \o broadcastDraw(owner, t) \o <<msg("aura_changed", t)>>)
broadcastEffects(t, changed) == When(changed, <<msg("player_effects_changed", t)>>)

(* The end of the match is in the state sent last, with no options after   *)
(* it.                                                                     *)
Finished(t, end) == IF end THEN Bump(t, {"board"}) ELSE t
sendMoveOptions(t, end) == When(~end, <<msg("move_options", t)>>)
NextTurn(newTurn, end) == turn' = IF end THEN "none" ELSE IF newTurn THEN Opponent(turn) ELSE turn

(* A move: it may end the match, and the first of two leaves the phase as  *)
(* it is; a captured piece is buried, a shield absorbs, a rune acts on the *)
(* mover.                                                                  *)
HandleMove(by) ==
  /\ Free
  /\ \E a \in AtTurn, what \in {"quiet", "captures", "absorbed", "rune"}, fires \in BOOLEAN, next \in {"end", "extra", "advance"} :
       LET s == Bump(truth, {"board", "options"} \cup CASE what = "quiet" -> {} [] what = "captures" -> {"graveyards"}
                                     [] what = "absorbed" -> {"states"} [] what = "rune" -> {"graveyards", "squares"})
           owner == IF what = "captures" THEN Opponent(by) ELSE by
           c == Reacted(owner, s, fires)
           t == IF next = "advance" THEN Advanced(by, c, a) ELSE c
       IN  /\ fires => what \in {"captures", "rune"}
           /\ next = "extra" => fretta = "granted"
           /\ next # "advance" => ~a.newTurn
           /\ fretta' = (IF next = "extra" THEN "second" ELSE "none") /\ NextTurn(a.newTurn, next = "end")
           /\ Send(t, When(what = "absorbed", <<msg("effect_expired", s)>>) \o <<msg("game_state", t)>>
                      \o When(what = "rune", <<msg("rune_triggered", t)>>)
                      \o When(what \in {"captures", "rune"}, <<msg("graveyard_changed", t)>>)
                      \o broadcastFired(owner, c, fires) \o broadcastEffects(t, fires \/ "effects" \in a.lapses)
                      \o When(next = "advance", applyAdvanceBroadcasts(by, t, a)) \o broadcastExpired(t, a)
                      \o When(what = "rune", <<msg("square_effects_changed", t)>>) \o sendMoveOptions(t, next = "end"))

(* A phase passed, by its player or by the clock: the strikes go back to   *)
(* none, or grow; a second move given up puts the side to move right.  The *)
(* player of a new turn may have no move at all.                           *)
passPhase(by) ==
  /\ Free
  /\ \E a \in AtTurn, end \in BOOLEAN, how \in IF fretta = "second" THEN {"skipped"} ELSE {"passed", "timedOut"} :
       LET s == Bump(truth, IF fretta = "second" THEN {"board"} ELSE {"strikes"})
           t == Finished(Advanced(by, s, a), end)
       IN  /\ end => a.newTurn
           /\ fretta' = (IF a.newTurn \/ fretta = "second" THEN "none" ELSE fretta) /\ NextTurn(a.newTurn, end)
           /\ Send(t, When(how = "timedOut", <<msg("phase_timeout", t)>>) \o applyAdvanceBroadcasts(by, t, a)
                      \o broadcastExpired(t, a) \o broadcastEffects(t, "effects" \in a.lapses)
                      \o When(end, <<msg("game_state", t)>>) \o sendMoveOptions(t, end))

(* What a spell changes besides the mana and the hand of who casts it.     *)
Changes(effect) ==
  CASE effect = "freeze" -> {"states"} [] effect = "destroy" -> {"board", "graveyards"} [] effect = "wall" -> {"squares"}
    [] effect = "rune" -> {"squares"} [] effect = "phasing" -> {"movement", "options"} [] effect = "draw" -> {}
    [] effect = "mana" -> {} [] effect = "trigger" -> {"effects"} [] effect = "extra" -> {"options"}
Cost(by) == {Mana(by), Size(by), "options", "strikes"} \cup OwnHand(by)

(* A cast.  With no card left to cast the phase ends as well, and with it  *)
(* the turn: some frames tell of the cast alone, others of all that        *)
(* followed.  The player of the new turn, or the caster on a board that    *)
(* changed, may have no move.  The pieces lost set off their triggers      *)
(* before the card leaves the hand: to the caster who draws, the size told *)
(* last is the one with the card still there.                              *)
HandleCastSpell(by) ==
  /\ Free
  /\ \E effect \in DOMAIN AppliedEffects, owner \in By, a \in AtTurn, fires, autoAdvances, end \in BOOLEAN :
       LET s == Bump(truth, Cost(by) \cup Changes(effect))
           d == IF effect = "draw" THEN Bump(s, {Deck(by)} \cup OwnHand(by)) ELSE s
           c == Reacted(owner, d, fires)
           t == Finished(IF autoAdvances THEN Advanced(by, c, a) ELSE c, end)
           cast == [msg("spell_cast", s) EXCEPT !.mine = by = "me", !.effect = effect, !.hidden = effect = "rune" /\ by = "them"]
       IN  /\ fretta # "second"
           /\ IF effect = "destroy" THEN TRUE ELSE ~fires /\ owner = by
           /\ ~autoAdvances => ~a.newTurn
           /\ end => a.newTurn \/ effect \in {"destroy", "wall", "rune"}
           /\ fretta' = (IF a.newTurn THEN "none" ELSE IF effect = "extra" THEN "granted" ELSE fretta) /\ NextTurn(a.newTurn, end)
           /\ Send(t, <<cast, manaChanged(by, c), handSizeChanged(by, c)>>
                      \o When(effect = "draw" /\ by = "me", <<msg("card_drawn", c)>>)
                      \o When(effect = "destroy", <<msg("game_state", t), msg("graveyard_changed", t)>>)
                      \o When(effect \in {"wall", "rune"}, <<msg("square_effects_changed", c)>>)
                      \o broadcastFired(owner, IF owner = by THEN [c EXCEPT ![Size(by)] = @ - 1] ELSE c, fires)
                      \o broadcastEffects(t, fires \/ effect = "trigger" \/ "effects" \in a.lapses)
                      \o When(autoAdvances, applyAdvanceBroadcasts(by, t, a)) \o broadcastExpired(t, a)
                      \o When(end /\ effect # "destroy", <<msg("game_state", t)>>) \o sendMoveOptions(t, end))

(* A match that ends by itself: resigned, agreed or abandoned, or lost on  *)
(* time, in the move or at the last strike.                                *)
finish ==
  /\ Free
  /\ \E how \in {"resigned", "outOfTime", "struckOut"} :
       LET t == Bump(truth, {"board", "options"} \cup CASE how = "resigned" -> {} [] how = "outOfTime" -> {"clock"}
                                                         [] how = "struckOut" -> {"strikes"})
       IN  Send(t, When(how = "outOfTime", <<msg("timer_update", t)>>) \o When(how = "struckOut", <<msg("phase_timeout", t)>>)
                   \o <<msg("game_state", t)>>)
  /\ turn' = "none" /\ UNCHANGED fretta

Tick == Free /\ LET t == Bump(truth, {"clock"}) IN Send(t, <<msg("timer_update", t)>>) /\ UNCHANGED <<turn, fretta>>

Start == <<msg("game_state", truth), msg("hand", truth)>>
(* The connection drops with what it had to deliver, and another takes its *)
(* place: Room.reconnect.                                                  *)
Reconnect ==
  /\ left > 0
  /\ inFlight' = Start
  /\ left' = left - 1
  /\ UNCHANGED <<truth, turn, fretta, shown, hasGame, myColor, suspect, sinceFull, late>>

(* The ghosts: a frame read with a warning, or refused, puts its damaged   *)
(* items, or all of them, under suspicion; a whole item clears it.         *)
Suspects(m, damage) ==
  CASE ReadAs(damage) = "refused" -> ItemsOf(m) [] ReadAs(damage) = "repaired" -> damage.field.items [] OTHER -> {}
Cleared(m, damage) ==
  {i \in ItemsOf(m) : Reaches(m, i) /\ ~Difference(m, i) /\ (i = "hand" => myColor)} \ Suspects(m, damage)
(* The last frame about an item may tell of it as it was before.           *)
Outdated(m) ==
  {i \in ItemsOf(m) \ {"hand", "states"} : m.vals[i] # truth[i] /\ \A k \in 2..Len(inFlight) : i \notin ItemsOf(inFlight[k])}
Read ==
  /\ inFlight # <<>>
  /\ \E damage \in DamagesOf(Head(inFlight)) :
       LET m == Head(inFlight)
           ok == ReadAs(damage) # "refused"
       IN  /\ shown' = IF ok THEN applyServerEvent(m, damage) ELSE shown
           /\ hasGame' = (hasGame \/ (ok /\ m.type = "game_state"))
           /\ myColor' = (myColor \/ (ok /\ m.type = "game_state" /\ damage.field.name # "players"))
           /\ suspect' = ((suspect \ (IF ok THEN Cleared(m, damage) ELSE {})) \cup Suspects(m, damage)
                          \cup IF "players" \in Suspects(m, damage) /\ ~myColor' THEN {"hand"} ELSE {})
           /\ sinceFull' = IF ok THEN sinceFull \ Cleared(m, damage) ELSE sinceFull
           /\ late' = (IF ok THEN late \ Cleared(m, damage) ELSE late) \cup Outdated(m)
           /\ left' = IF damage = Intact THEN left ELSE left - 1
  /\ inFlight' = Tail(inFlight)
  /\ UNCHANGED <<truth, turn, fretta>>

Init ==
  /\ truth = [i \in Items |-> 0]
  /\ turn \in By /\ fretta \in {"none", "granted"}
  /\ inFlight = Start
  /\ shown = [i \in Items |-> Wrong]
  /\ hasGame = FALSE /\ myColor = FALSE
  /\ suspect = Items /\ sinceFull = {} /\ late = {}
  /\ left = MaxEvents
Next ==
  \/ HandleMove(turn) \/ passPhase(turn) \/ HandleCastSpell(turn) \/ finish
  \/ Tick \/ Reconnect \/ Read
Spec == Init /\ [][Next]_vars
-----------------------------------------------------------------------------
(* Once everything sent is read, an item shown is the one of the server:   *)
(* else a frame about it was reported as damaged, or it changed with no    *)
(* frame at all since the last whole state, or the last frame was out of   *)
(* date (decodeServerMessage, "Non lancia mai eccezioni"; one field costs  *)
(* only what it feeds).                                                    *)
NothingLostInSilence ==
  inFlight = <<>> => \A i \in Items : shown[i] = truth[i] \/ i \in suspect \cup sinceFull \cup late

(* Of the items, only the strikes gone back to none, the opponent's deck,  *)
(* the movement a piece borrows and the side to move after a second move   *)
(* given up change with no frame about them; and only the size of a hand   *)
(* is told last as it was before.                                          *)
ChangesAreAnnounced == sinceFull \subseteq {"strikes", "theirDeck", "movement", "board"} /\ late \subseteq {"mySize", "theirSize"}

(* "Stato pubblico completo: all'avvio, dopo ogni cambio di scacchiera e   *)
(* alla riconnessione" (protocol.ts): with all frames read and none in     *)
(* doubt, the board shown is the one of the server.                        *)
BoardIsShown == inFlight = <<>> /\ suspect = {} => shown["board"] = truth["board"]
=============================================================================

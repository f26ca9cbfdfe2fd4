--------------------------------- MODULE Bot ---------------------------------
(***************************************************************************)
(* The virtual opponent of the client's game server (scenarios/bot.ts): it *)
(* acts some time after a message that concerns it, through the same       *)
(* handlers as a player, and hears what they send while they still run.    *)
(* The room is what the driver sees of it: whose phase it is, its hand,    *)
(* the offer of a draw, where the messages to the bot go.  Moves and       *)
(* targets are left out; the cards are two that need nothing, one that     *)
(* needs a piece in the graveyard and one that needs a choice the bot      *)
(* never makes, each once a turn.                                          *)
(***************************************************************************)
EXTENDS Naturals, Sequences

CONSTANTS MaxTurns, MaxOffers  \* bounds: turns begun, offers of the user

VARIABLES
  behavior, \* what this bot is told to do
  driver,   \* the fields of Bot
  room      \* the room, and what the bot tried in the phase that runs
vars == <<behavior, driver, room>>

None == "none"
Cards == {"plain", "other", "revive", "choosy"}
MAX_CASTS_PER_PHASE == 3

-----------------------------------------------------------------------------
(* Behaviors.                                                              *)

Quiet ==
  [level |-> FALSE, castSpells |-> FALSE, stall |-> FALSE, offerDraw |-> FALSE, answers |-> FALSE, leaves |-> None, returns |-> FALSE]
setupScenario ==
  {Quiet, [Quiet EXCEPT !.castSpells = TRUE], [Quiet EXCEPT !.stall = TRUE], [Quiet EXCEPT !.offerDraw = TRUE, !.answers = TRUE],
   [Quiet EXCEPT !.leaves = "disconnect"], [Quiet EXCEPT !.leaves = "disconnect", !.returns = TRUE],
   [Quiet EXCEPT !.leaves = "restart", !.returns = TRUE]}
joinBot == [Quiet EXCEPT !.level = TRUE, !.answers = TRUE]

-----------------------------------------------------------------------------
(* What the bot hears.  The state and a change of phase say whose turn it  *)
(* is; any change of phase clears what it has tried.                       *)

schedule(d, mine) == [d EXCEPT !.pending = @ \/ mine]
hearState(d, mine) == schedule(d, mine)
hearPhase(d, mine) == schedule([d EXCEPT !.rejected = {}, !.casts = 0], mine)
hearOver(d) == [d EXCEPT !.over = TRUE]
hearRefusal(d, card) == IF card = None THEN d ELSE [d EXCEPT !.rejected = @ \cup {card}]
(* A level declines every offer; the scenario declines one, then accepts.  *)
hearOffer(d) ==
  LET accepts == ~behavior.level /\ d.declined >= 1
  IN  IF ~behavior.answers THEN d
      ELSE [d EXCEPT !.replies = Append(@, IF accepts THEN "accept" ELSE "decline"),
                     !.declined = IF accepts \/ behavior.level THEN @ ELSE @ + 1]

-----------------------------------------------------------------------------
(* What the room does and says of it.  Messages to a seat that a restart   *)
(* emptied are lost; those to a connection the bot has left still reach    *)
(* it.                                                                     *)

Told(r, d, heard) == IF r.seated THEN heard ELSE d
Untried(r) == [r EXCEPT !.tried = 0, !.refused = {}]
(* A phase ends: the one after it begins, or the other's turn.             *)
Other(p) == IF p = "bot" THEN "user" ELSE "bot"
InPhase(r, ph) == Untried([r EXCEPT !.phase = ph, !.second = FALSE])
(* A turn begins with a hand refilled.                                     *)
InTurn(r, ph) ==
  [InPhase(r, ph) EXCEPT !.active = Other(@), !.turns = @ + 1, !.cast = {}, !.hand = IF r.active = "user" THEN Cards ELSE @]
(* What a room and a driver may become when a phase was left: on the way   *)
(* to another turn the end of this one is announced, too.                  *)
Left(r, d) ==
  LET later == CASE r.phase = "main1" -> {"move"} [] r.phase = "move" -> {"main2"} [] OTHER -> {}
      phases == {[r |-> InPhase(r, ph), d |-> Told(r, d, hearPhase(d, r.active = "bot"))] : ph \in later}
      turns == {[r |-> InTurn(r, ph), d |-> Told(r, d, hearPhase(hearPhase(d, r.active = "bot"), r.active = "user"))] :
                  ph \in {"main1", "move"}}
  IN  phases \cup (IF r.phase # "main1" THEN turns ELSE {})
Finished(r, d) == {[r |-> [r EXCEPT !.over = TRUE, !.offer = None, !.away = FALSE], d |-> Told(r, d, hearOver(d))]}
passPhase(r, d) == Left(r, d) \cup Finished(r, d)
(* An offer lapses when the one it was made to moves.  A spell cast may    *)
(* have granted a second move, which the bot's first one leads to.  Then   *)
(* the state goes out.                                                     *)
StateSent(o) == [o EXCEPT !.d = Told(o.r, o.d, hearState(o.d, o.r.active = "bot"))]
Granted(r) == r.active = "bot" /\ r.cast # {} /\ ~r.second
handleMove(r, d) ==
  LET lapsed == [r EXCEPT !.offer = IF @ = Other(r.active) THEN None ELSE @]
      again == IF Granted(r) THEN {[r |-> [Untried(lapsed) EXCEPT !.second = TRUE], d |-> d]} ELSE {}
  IN  {StateSent(o) : o \in Left(lapsed, d) \cup again} \cup Finished(lapsed, d)
(* A cast the rules refuse; one the position may refuse; one that is       *)
(* played, and lets the phase run on or end.                               *)
Refusable(r, card) == card \in r.cast \/ card = "choosy"
Refused(r, d, card) ==
  {[r |-> [r EXCEPT !.refused = @ \cup {card}, !.again = @ \/ card \in r.refused, !.tried = @ + 1], d |-> hearRefusal(d, card)]}
Played(r, d, card) ==
  LET paid == [r EXCEPT !.hand = @ \ {card}, !.cast = @ \cup {card}, !.tried = @ + 1]
  IN  {[r |-> paid, d |-> d]} \cup Left(paid, d) \cup Finished(paid, d)
handleCastSpell(r, d, card) == Refused(r, d, card) \cup (IF Refusable(r, card) THEN {} ELSE Played(r, d, card))

-----------------------------------------------------------------------------
(* What the bot chooses.                                                   *)

choiceFor(r, card) == card = "revive" => r.grave
(* The levels know the limits of a turn; whether they find targets, and    *)
(* whether a cast is worth it, is open.                                    *)
castable(r, d) == {card \in r.hand : card \notin d.rejected /\ card \notin r.cast}
chooseSpell(r, d) == {None} \cup {card \in castable(r, d) : choiceFor(r, card)}
levelCast(r, d) == IF d.casts >= MAX_CASTS_PER_PHASE THEN {None} ELSE chooseSpell(r, d)
pickCast(r, d) == {None} \cup {card \in r.hand : card \notin d.rejected /\ choiceFor(r, card)}
Casts(r, d) == IF behavior.level THEN levelCast(r, d) ELSE IF behavior.castSpells THEN pickCast(r, d) ELSE {None}

(* As TryCast, if the bot waited for the room to answer a cast (mutant).   *)
TryCastOnce(r, d, card) == handleCastSpell(r, [d EXCEPT !.casts = @ + 1], card)
(* A cast may leave the phase as it is: the bot looks again.               *)
TryCast(r, d, card) ==
  {[o EXCEPT !.d.pending = TRUE] : o \in handleCastSpell(r, [d EXCEPT !.casts = @ + 1], card)}

Becomes(outcomes) == \E o \in outcomes : room' = o.r /\ driver' = o.d
Counted(o) == [o EXCEPT !.d.moves = 1]
(* After its first move a bot may leave, or the server be started anew.    *)
Leaves(o) ==
  IF behavior.leaves = None \/ driver.moves > 0 THEN o
  ELSE IF behavior.leaves = "disconnect"
       THEN [o EXCEPT !.d.connected = FALSE, !.d.back = behavior.returns, !.r.away = ~o.r.over]
       ELSE [o EXCEPT !.d.connected = FALSE, !.d.back = TRUE, !.r.seated = FALSE, !.r.present = FALSE, !.r.running = FALSE]
playMove(r, d) == IF r.second THEN passPhase(r, d) ELSE {Leaves(Counted(o)) : o \in handleMove(r, d)}
Offering(r, d) ==
  IF behavior.offerDraw /\ ~d.offered
  THEN [r |-> [r EXCEPT !.offer = IF @ = None THEN "bot" ELSE @], d |-> [d EXCEPT !.offered = TRUE]]
  ELSE [r |-> r, d |-> d]
InMain(r) == r.phase # "move"
send(d) == ~d.over /\ d.connected
act ==
  /\ driver.pending
  /\ LET idle == [driver EXCEPT !.pending = FALSE]
         o == Offering(room, idle)
     IN  IF behavior.stall \/ ~send(driver) \/ room.active # "bot" THEN Becomes({[r |-> room, d |-> idle]})
         ELSE IF room.over THEN Becomes({[r |-> room, d |-> o.d]})
         ELSE IF InMain(room)
              THEN \E card \in Casts(o.r, o.d) :
                      Becomes(IF card = None THEN passPhase(o.r, o.d) ELSE TryCast(o.r, o.d, card))
              ELSE Becomes(playMove(o.r, o.d))
  /\ UNCHANGED behavior
reply ==
  /\ driver.replies # <<>>
  /\ LET d == [driver EXCEPT !.replies = Tail(@)]
     IN  IF ~(send(driver) /\ room.offer = "user") THEN Becomes({[r |-> room, d |-> d]})
         ELSE IF Head(driver.replies) = "accept" THEN Becomes(Finished(room, d))
         ELSE Becomes({[r |-> [room EXCEPT !.offer = None], d |-> d]})
  /\ UNCHANGED behavior
(* The bot is back with a new connection, unless it has heard of the end.  *)
comeBack ==
  /\ driver.back
  /\ LET d == [driver EXCEPT !.back = FALSE]
         r == [room EXCEPT !.away = FALSE, !.seated = TRUE, !.running = TRUE]
     IN  IF driver.over THEN Becomes({[r |-> room, d |-> d]})
         ELSE Becomes({[r |-> r, d |-> hearState([d EXCEPT !.connected = TRUE], r.active = "bot")]})
  /\ UNCHANGED behavior
dispose == ~driver.over /\ Becomes({[r |-> [room EXCEPT !.over = TRUE], d |-> [driver EXCEPT !.pending = FALSE, !.over = TRUE]]})
             /\ UNCHANGED behavior

-----------------------------------------------------------------------------
(* The user, the clock and the timer of abandonment.                       *)

Going == ~room.over /\ UNCHANGED behavior
UserPlays ==
  /\ Going /\ room.present /\ room.active = "user"
  /\ Becomes(IF InMain(room) THEN passPhase(room, driver) ELSE handleMove(room, driver))
UserOffers ==
  /\ Going /\ room.present /\ room.offer = None /\ room.offers < MaxOffers
  /\ LET r == [room EXCEPT !.offer = "user", !.offers = @ + 1]
     IN  Becomes({[r |-> r, d |-> Told(r, driver, hearOffer(driver))]})
UserAnswers ==
  /\ Going /\ room.present /\ room.offer = "bot"
  /\ Becomes(Finished(room, driver) \cup {[r |-> [room EXCEPT !.offer = None], d |-> driver]})
UserResigns == Going /\ room.present /\ Becomes(Finished(room, driver))
UserReturns ==
  /\ Going /\ ~room.present
  /\ Becomes({[r |-> [room EXCEPT !.present = TRUE, !.running = TRUE], d |-> driver]})
(* A phase of spells is passed, or was one too many; the move not played   *)
(* loses, unless it is a second one.                                       *)
PhaseExpires ==
  /\ Going /\ room.running
  /\ Becomes(IF InMain(room) \/ room.second THEN passPhase(room, driver) ELSE Finished(room, driver))
Abandoned == Going /\ room.away /\ Becomes(Finished(room, driver))

Init ==
  /\ behavior \in setupScenario \cup {joinBot}
  /\ \E first \in {"bot", "user"}, grave \in BOOLEAN :
       /\ ~behavior.level => first = "user"
       /\ room = [active |-> first, phase |-> "main1", second |-> FALSE, hand |-> Cards, cast |-> {}, grave |-> grave,
                  turns |-> 1, offer |-> None, offers |-> 0, over |-> FALSE, seated |-> TRUE, present |-> TRUE, running |-> TRUE,
                  away |-> FALSE, tried |-> 0, refused |-> {}, again |-> FALSE]
       /\ driver = [pending |-> first = "bot", rejected |-> {}, casts |-> 0, moves |-> 0, offered |-> FALSE, declined |-> 0,
                    replies |-> <<>>, over |-> FALSE, connected |-> TRUE, back |-> FALSE]
User == UserPlays \/ UserOffers \/ UserAnswers \/ UserResigns \/ UserReturns
Next == (act \/ reply \/ comeBack \/ dispose \/ User \/ PhaseExpires \/ Abandoned) /\ room'.turns <= MaxTurns
Spec == Init /\ [][Next]_vars

-----------------------------------------------------------------------------
(* A bot that may act has something to wake it: its turn is not left to    *)
(* the clock, whatever was refused, and whether it was away.               *)
Woken ==
  /\ ~room.over /\ room.active = "bot" /\ driver.connected /\ ~behavior.stall => driver.pending
  /\ ~driver.connected /\ behavior.returns /\ ~driver.over => driver.back

(* An offer made to a bot that answers them has its answer on the way; and *)
(* one that plays at a level never agrees to a draw.                       *)
OffersAreAnswered == behavior.answers /\ ~room.over /\ room.offer = "user" => driver.replies # <<>>

(* A spell refused in this phase is not tried again in it, and a level     *)
(* tries a few: a phase ends.                                              *)
TriesEnd == ~room.again /\ (behavior.level => room.tried <= MAX_CASTS_PER_PHASE)

BotPlaysOn == Woken /\ OffersAreAnswered /\ TriesEnd
=============================================================================

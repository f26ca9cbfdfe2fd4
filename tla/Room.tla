-------------------------------- MODULE Room --------------------------------
(***************************************************************************)
(* internal/game.Room: one running game, the goroutines that act on it     *)
(* under r.mu and what they can do to each other.  They are                *)
(*                                                                         *)
(*   - the ReadPump of every open connection, which calls the handlers;    *)
(*   - the clock goroutine (runTimer), which sees a phase expire, releases *)
(*     the lock and comes back for it up to two times;                     *)
(*   - the abandonment timers, whose callback waits for the lock as well;  *)
(*   - the manager, which brings a player's new connection back in;        *)
(*   - the goroutine that, the game being over, announces it unlocked.     *)
(*                                                                         *)
(* A handler is one action: it holds r.mu from its checks to its last      *)
(* assignment.  What the chess rules and the spells decide is a choice:    *)
(* whether a move is legal, the status of the position, whether a spell    *)
(* resolves and whether cards are left to cast (NextRest; module Match has *)
(* the cards).  Of time only the order of events is kept: a phase's time   *)
(* may run out at any tick.                                                *)
(***************************************************************************)
EXTENDS Phases, FiniteSets

CONSTANTS
    MaxStrikes,   \* clock.go: main phases timed out in a row that lose the game
    MaxTurns,     \* bound: no turn begins after this one
    MaxConns,     \* bound: connections of one player to one server process
    MaxRestarts   \* bound: restarts of the server

ASSUME BoundsAssumption ==
    /\ MaxStrikes \in Nat \ {0}
    /\ MaxTurns \in Nat \ {0}
    /\ MaxConns \in Nat \ {0}
    /\ MaxRestarts \in Nat

VARIABLES
    phase, turn, active,  \* Match: CurrentPhase, TurnNumber, ActivePlayer
    side,        \* Board.Turn, the side to move of Board.FEN
    plies,       \* len(Board.Moves)
    extra,       \* r.extra, the second move of Fretta
    strikes,     \* r.strikes
    offer,       \* the user of r.drawOfferer
    outcome,     \* NoOutcome until r.ended, then finishLocked's result and reason
    due,         \* endings finished and not yet announced (announceEnd)
    announced,   \* endings announced with game_over
    informed,    \* whether each player's current connection knows the game ended
    client,      \* r.White and r.Black: the number of the connection, 0 a placeholder
    open,        \* the connections whose ReadPump runs, current or replaced
    disc,        \* r.disconnectedTimer: the timer in charge of each player, 0 none
    armed,       \* abandonment timers that run
    fired,       \* abandonment callbacks that wait for r.mu
    joining,     \* the player the manager saw in an active game, about to Reconnect
    clock,       \* the clock goroutine: where it is, and the phase key it holds
    silent,      \* history: main phases each player let expire since it last acted
    restarts     \* bound: restarts so far

matchVars == <<phase, turn, active>>
boardVars == <<side, plies>>
gameVars  == <<phase, turn, active, side, plies, extra, strikes, offer, silent>>
connVars  == <<client, open, joining>>
timerVars == <<disc, armed, fired>>
endVars   == <<outcome, due, announced, informed>>
vars == <<gameVars, endVars, connVars, timerVars, clock, restarts>>

Nobody    == "nobody"
NoOutcome == [result |-> Nobody, reason |-> "none"]
NoExtra   == [player |-> Nobody, turn |-> 0, active |-> FALSE]
NoKey     == RestAt("move", 0, White)
NoClock   == [pc |-> "off", key |-> NoKey]

Outcome == [result : Player \cup {"draw"},
            reason : {"checkmate", "stalemate", "draw", "resign", "agreement",
                      "timeout", "timeout_strikes", "abandonment"}]

Ended == outcome # NoOutcome

(* currentPhaseKey; both moves of Fretta have the same one. *)
currentPhaseKey == RestAt(phase, turn, active)

isMainPhase == phase \in MainPhases

extraActive  == extra.active
extraGranted(p) == ~extra.active /\ extra.player = p /\ extra.turn = turn

-----------------------------------------------------------------------------
(* Mutant of Finish: the abandonment timers survive the end.                *)
FinishKeepsTimers(result, reason) ==
    /\ outcome' = [result |-> result, reason |-> reason]
    /\ offer' = Nobody
    /\ due' = due + 1
    /\ UNCHANGED <<disc, armed, announced, informed>>

(* finishLocked: the game ends and everything pending stops.  Its result is *)
(* the winner or "draw".  The code's early return when the game has already *)
(* ended is left out: no caller gets there (FrozenAfterEnd, GameOverOnce).  *)
Finish(result, reason) ==
    /\ outcome' = [result |-> result, reason |-> reason]
    /\ offer' = Nobody
    /\ disc' = [p \in Player |-> 0]
    /\ armed' = {}
    /\ due' = due + 1
    /\ UNCHANGED <<announced, informed>>

GoesOn == UNCHANGED <<endVars, disc, armed>>

(* The status of the position for the side to move, when it is final. *)
ChessEnd(toMove) ==
    \/ Finish(Opponent(toMove), "checkmate")
    \/ Finish("draw", "stalemate")
    \/ Finish("draw", "draw")

RestsAt(r) ==
    /\ r.turn <= MaxTurns
    /\ phase' = r.phase
    /\ turn' = r.turn
    /\ active' = r.active

resetStrikes(p) ==
    /\ strikes' = [strikes EXCEPT ![p] = 0]
    /\ silent' = [silent EXCEPT ![p] = {}]

KeepStrikes == UNCHANGED <<strikes, silent>>

(* checkRolloverGameEnd: only a step that began a turn asks whether the new *)
(* active player still has a move.                                          *)
RolloverEnd ==
    \/ GoesOn /\ offer' = offer
    \/ turn' # turn /\ ChessEnd(active')

-----------------------------------------------------------------------------
(* The handlers, called by the ReadPump of an open connection c. *)

(* Mutant of OfferAfterMove: an offer outlives the move of its receiver. *)
OfferKept(p) == offer

(* A pending offer lapses when the player it was made to moves. *)
OfferAfterMove(p) == IF offer = Opponent(p) THEN Nobody ELSE offer

(* handleMove.  The status is asked for the position after the move, so a   *)
(* decisive move ends the game in the move phase.  A move does not look for *)
(* a mate again after the rollover it may cause.                            *)
HandleMove(c) ==
    LET p == c[1]
        second == extraActive
    IN  /\ ~Ended /\ c \in open
        /\ p = side
        /\ Allows(phase, "make_move")
        /\ plies' = plies + 1
        /\ \/ /\ ChessEnd(Opponent(p))
              /\ side' = Opponent(p)
              /\ UNCHANGED <<matchVars, extra>>
           \/ /\ ~second /\ extraGranted(p)        \* enterExtraMove
              /\ extra' = [extra EXCEPT !.active = TRUE]
              /\ offer' = OfferAfterMove(p)
              /\ GoesOn
              /\ UNCHANGED <<matchVars, side>>
           \/ /\ extra' = IF second \/ extraGranted(p) THEN NoExtra ELSE extra
              /\ side' = Opponent(p)
              /\ offer' = OfferAfterMove(p)
              /\ GoesOn
              /\ \E r \in NextRest(currentPhaseKey) : RestsAt(r)
        /\ KeepStrikes
        /\ UNCHANGED <<connVars, fired, clock, restarts>>

(* Mutant of Pass: a skipped second move leaves the board to the player.    *)
PassKeepsSide(p) ==
    /\ (extraActive /\ extra.player = p) \/ Allows(phase, "pass_phase")
    /\ extra' = IF extraActive THEN NoExtra ELSE extra
    /\ \E r \in NextRest(currentPhaseKey) : RestsAt(r)
    /\ RolloverEnd
    /\ UNCHANGED <<side, plies>>

(* passPhase once its checks let p through: skip Fretta's second move, back *)
(* to the position after the first, or leave a phase that may be passed.    *)
Pass(p) ==
    /\ \/ /\ extraActive /\ extra.player = p
          /\ side' = Opponent(p)
          /\ extra' = NoExtra
       \/ /\ ~(extraActive /\ extra.player = p)
          /\ Allows(phase, "pass_phase")
          /\ UNCHANGED <<side, extra>>
    /\ \E r \in NextRest(currentPhaseKey) : RestsAt(r)
    /\ RolloverEnd
    /\ UNCHANGED plies

HandlePassPhase(c) ==
    LET p == c[1]
    IN  /\ ~Ended /\ c \in open
        /\ p = active
        /\ Pass(p)
        /\ IF isMainPhase THEN resetStrikes(p) ELSE KeepStrikes
        /\ UNCHANGED <<connVars, fired, clock, restarts>>

(* handleCastSpell, for a cast that resolves: a rejected one changes        *)
(* nothing.  Fretta grants its second move at most once a turn.             *)
HandleCastSpell(c) ==
    LET p == c[1]
    IN  /\ ~Ended /\ c \in open
        /\ p = active
        /\ Allows(phase, "cast_spell")
        /\ resetStrikes(p)
        /\ \/ UNCHANGED extra
           \/ /\ phase = "main1"
              /\ ~(extra.player = p /\ extra.turn = turn)
              /\ extra' = [player |-> p, turn |-> turn, active |-> FALSE]
        /\ \E r \in {currentPhaseKey} \cup NextRest(currentPhaseKey) : RestsAt(r)
        /\ \/ RolloverEnd
           \/ turn' = turn /\ side = active /\ ChessEnd(active)  \* checkActivePlayerEnd
        /\ UNCHANGED <<side, plies, connVars, fired, clock, restarts>>

HandleResign(c) ==
    /\ ~Ended /\ c \in open
    /\ Finish(Opponent(c[1]), "resign")
    /\ UNCHANGED <<matchVars, boardVars, extra, strikes, silent, connVars, fired, clock, restarts>>

HandleDrawOffer(c) ==
    /\ ~Ended /\ c \in open
    /\ offer = Nobody
    /\ offer' = c[1]
    /\ UNCHANGED <<matchVars, boardVars, extra, strikes, silent, endVars, connVars,
                   timerVars, clock, restarts>>

HandleDrawResponse(c) ==
    /\ ~Ended /\ c \in open
    /\ offer = Opponent(c[1])
    /\ \/ Finish("draw", "agreement")
       \/ offer' = Nobody /\ GoesOn
    /\ UNCHANGED <<matchVars, boardVars, extra, strikes, silent, connVars, fired, clock, restarts>>

-----------------------------------------------------------------------------
(* Connections: they break, the abandonment timer starts, runs out or is    *)
(* called off by a reconnection.                                            *)

(* Mutant of Leave: no abandonment timer is started. *)
LeaveUntimed(c) ==
    /\ c \in open
    /\ open' = open \ {c}
    /\ UNCHANGED <<gameVars, endVars, client, joining, timerVars, clock, restarts>>

(* The end of a ReadPump, and Leave: only the current connection counts.    *)
Leave(c) ==
    /\ c \in open
    /\ open' = open \ {c}
    /\ IF ~Ended /\ client[c[1]] = c[2]
       THEN /\ disc' = [disc EXCEPT ![c[1]] = c[2]]
            /\ armed' = (armed \ {<<c[1], disc[c[1]]>>}) \cup {c}
       ELSE UNCHANGED <<disc, armed>>
    /\ UNCHANGED <<gameVars, endVars, client, joining, fired, clock, restarts>>

(* ReconnectTimeout has passed: the callback of the timer starts.           *)
TimerFires(t) ==
    /\ t \in armed
    /\ armed' = armed \ {t}
    /\ fired' = fired \cup {t}
    /\ UNCHANGED <<gameVars, endVars, connVars, disc, clock, restarts>>

(* Mutants of Abandon: the callback does not ask whose timer it is; or it   *)
(* takes the entry out of the map before it asks.                           *)
AbandonUnchecked(t) ==
    /\ t \in fired
    /\ fired' = fired \ {t}
    /\ IF ~Ended THEN Finish(Opponent(t[1]), "abandonment")
       ELSE GoesOn /\ UNCHANGED offer
    /\ UNCHANGED <<matchVars, boardVars, extra, strikes, silent, connVars, clock, restarts>>

AbandonDeletesFirst(t) ==
    /\ t \in fired
    /\ fired' = fired \ {t}
    /\ IF disc[t[1]] = t[2]
       THEN Finish(Opponent(t[1]), "abandonment")
       ELSE /\ disc' = [disc EXCEPT ![t[1]] = 0]
            /\ UNCHANGED <<endVars, armed, offer>>
    /\ UNCHANGED <<matchVars, boardVars, extra, strikes, silent, connVars, clock, restarts>>

(* The callback gets r.mu; it counts only while it is the player's timer.   *)
Abandon(t) ==
    /\ t \in fired
    /\ fired' = fired \ {t}
    /\ IF disc[t[1]] = t[2]
       THEN Finish(Opponent(t[1]), "abandonment")
       ELSE GoesOn /\ UNCHANGED offer
    /\ UNCHANGED <<matchVars, boardVars, extra, strikes, silent, connVars, clock, restarts>>

(* tryReconnectLocked: the manager sees an active game of p, releases r.mu, *)
(* and takes it again in Reconnect.  m.mu is held throughout.               *)
Rejoin(p) ==
    /\ joining = Nobody
    /\ ~Ended
    /\ client[p] < MaxConns
    /\ joining' = p
    /\ UNCHANGED <<gameVars, endVars, timerVars, client, open, clock, restarts>>

(* Reconnect.  The replaced connection is closed a moment later (Leave); it *)
(* may act until then.  A restored room starts its clock here.              *)
Reconnect ==
    LET p == joining
        c == <<p, client[p] + 1>>
    IN  /\ joining # Nobody
        /\ joining' = Nobody
        /\ client' = [client EXCEPT ![p] = @ + 1]
        /\ open' = open \cup {c}
        /\ armed' = armed \ {<<p, disc[p]>>}
        /\ disc' = [disc EXCEPT ![p] = 0]
        /\ informed' = [informed EXCEPT ![p] = Ended]
        /\ clock' = IF clock.pc = "off" /\ ~Ended THEN [clock EXCEPT !.pc = "tick"]
                    ELSE clock
        /\ UNCHANGED <<gameVars, outcome, due, announced, fired, restarts>>

-----------------------------------------------------------------------------
(* The clock goroutine. *)

Ticking == [pc |-> "tick", key |-> NoKey]

(* A tick of runTimer finds the time of the current phase gone.  Any tick   *)
(* may: the time elapsed is not counted.                                    *)
ClockTick ==
    /\ clock.pc = "tick"
    /\ ~Ended
    /\ clock' = [pc |-> "expire", key |-> currentPhaseKey]
    /\ UNCHANGED <<gameVars, endVars, connVars, timerVars, restarts>>

(* Mutants of StillThere: the key is not compared; or only the key is.      *)
StillRunning  == ~Ended
StillSamePhase == currentPhaseKey = clock.key

(* The phase the clock came back for is still there. *)
StillThere == ~Ended /\ currentPhaseKey = clock.key

(* expirePhase and passPhase with a timeoutKey, when it is too late. *)
ClockTooLate ==
    /\ clock.pc \in {"expire", "pass"}
    /\ ~StillThere
    /\ clock' = Ticking
    /\ UNCHANGED <<gameVars, endVars, connVars, timerVars, restarts>>

(* expirePhase in the move phase: the game is lost, or Fretta's second move *)
(* is skipped.                                                              *)
ExpireMove ==
    /\ clock.pc = "expire" /\ StillThere
    /\ ~isMainPhase
    /\ IF extraActive /\ extra.player = active
       THEN GoesOn /\ clock' = [clock EXCEPT !.pc = "pass"] /\ UNCHANGED offer
       ELSE Finish(Opponent(active), "timeout") /\ clock' = Ticking
    /\ UNCHANGED <<matchVars, boardVars, extra, strikes, silent, connVars, fired, restarts>>

(* Mutant of ExpireMain: the strike is counted, the phase is not passed.    *)
ExpireMainNoPass ==
    /\ clock.pc = "expire" /\ StillThere
    /\ isMainPhase
    /\ strikes' = [strikes EXCEPT ![active] = @ + 1]
    /\ silent' = [silent EXCEPT ![active] = @ \cup {currentPhaseKey}]
    /\ clock' = Ticking
    /\ IF strikes'[active] >= MaxStrikes
       THEN Finish(Opponent(active), "timeout_strikes")
       ELSE GoesOn /\ UNCHANGED offer
    /\ UNCHANGED <<matchVars, boardVars, extra, connVars, fired, restarts>>

(* expirePhase in a main phase: a strike, which loses the game or leaves    *)
(* the phase to be passed after r.mu is released.                           *)
ExpireMain ==
    /\ clock.pc = "expire" /\ StillThere
    /\ isMainPhase
    /\ strikes' = [strikes EXCEPT ![active] = @ + 1]
    /\ silent' = [silent EXCEPT ![active] = @ \cup {currentPhaseKey}]
    /\ IF strikes'[active] >= MaxStrikes
       THEN Finish(Opponent(active), "timeout_strikes") /\ clock' = Ticking
       ELSE GoesOn /\ clock' = [clock EXCEPT !.pc = "pass"] /\ UNCHANGED offer
    /\ UNCHANGED <<matchVars, boardVars, extra, connVars, fired, restarts>>

(* passPhase with the key of the phase that expired. *)
TimedPass ==
    /\ clock.pc = "pass" /\ StillThere
    /\ Pass(active)
    /\ clock' = Ticking
    /\ KeepStrikes
    /\ UNCHANGED <<connVars, fired, restarts>>

-----------------------------------------------------------------------------

(* announceEnd, after the lock was released: the state and game_over go to  *)
(* the connections that are current by then.                                *)
Announce ==
    /\ due > 0
    /\ due' = due - 1
    /\ announced' = announced + 1
    /\ informed' = [p \in Player |-> TRUE]
    /\ UNCHANGED <<gameVars, outcome, connVars, timerVars, clock, restarts>>

(* Manager.Shutdown stops the clock and saves the game as it stands under   *)
(* r.mu; LoadPersisted restores it with placeholders, its clock off.  The   *)
(* draw offer and the timers are not saved.  The clock goroutine may be     *)
(* anywhere when this happens.                                              *)
Restart ==
    /\ ~Ended /\ joining = Nobody
    /\ restarts < MaxRestarts
    /\ restarts' = restarts + 1
    /\ client' = [p \in Player |-> 0]
    /\ open' = {}
    /\ disc' = [p \in Player |-> 0]
    /\ armed' = {}
    /\ fired' = {}
    /\ offer' = Nobody
    /\ clock' = NoClock
    /\ UNCHANGED <<matchVars, boardVars, extra, strikes, silent, endVars, joining>>

-----------------------------------------------------------------------------
(* newRoom: both players connected, White in the first phase that asks for  *)
(* input, the clock running.                                                *)
Init ==
    /\ phase \in {"main1", "move"} /\ turn = 1 /\ active = White
    /\ side = White
    /\ plies = 0
    /\ extra = NoExtra
    /\ strikes = [p \in Player |-> 0]
    /\ silent = [p \in Player |-> {}]
    /\ offer = Nobody
    /\ outcome = NoOutcome
    /\ due = 0
    /\ announced = 0
    /\ informed = [p \in Player |-> FALSE]
    /\ client = [p \in Player |-> 1]
    /\ open = {<<p, 1>> : p \in Player}
    /\ disc = [p \in Player |-> 0]
    /\ armed = {}
    /\ fired = {}
    /\ joining = Nobody
    /\ clock = Ticking
    /\ restarts = 0

Handler(c) ==
    \/ HandleMove(c)
    \/ HandlePassPhase(c)
    \/ HandleCastSpell(c)
    \/ HandleResign(c)
    \/ HandleDrawOffer(c)
    \/ HandleDrawResponse(c)

Clock == ClockTick \/ ClockTooLate \/ ExpireMove \/ ExpireMain \/ TimedPass

Next ==
    \/ \E c \in open : Handler(c) \/ Leave(c)
    \/ \E t \in armed : TimerFires(t)
    \/ \E t \in fired : Abandon(t)
    \/ \E p \in Player : Rejoin(p)
    \/ Reconnect
    \/ Clock
    \/ Announce
    \/ Restart

Spec == Init /\ [][Next]_vars

(* The goroutines the server itself keeps running: the clock, whose ticks   *)
(* come until the phase's time is gone, the timers and their callbacks, the *)
(* reconnection under way and the announcement.  Nothing is assumed of the  *)
(* players.                                                                 *)
Fairness ==
    /\ WF_vars(Clock)
    /\ \A p \in Player, n \in 1 .. MaxConns :
            WF_vars(TimerFires(<<p, n>>)) /\ WF_vars(Abandon(<<p, n>>))
    /\ WF_vars(Reconnect)
    /\ WF_vars(Announce)

FairSpec == Spec /\ Fairness

-----------------------------------------------------------------------------
(* Properties. *)

Key == [phase : RestPhases, turn : Nat, active : Player]
Conn == Player \X (1 .. MaxConns)

TypeOK ==
    /\ currentPhaseKey \in Rest
    /\ side \in Player /\ plies \in Nat
    /\ extra \in [player : Player \cup {Nobody}, turn : Nat, active : BOOLEAN]
    /\ strikes \in [Player -> 0 .. MaxStrikes]
    /\ silent \in [Player -> SUBSET Key]
    /\ offer \in Player \cup {Nobody}
    /\ outcome \in Outcome \cup {NoOutcome}
    /\ due \in Nat /\ announced \in Nat
    /\ informed \in [Player -> BOOLEAN]
    /\ client \in [Player -> 0 .. MaxConns]
    /\ open \subseteq Conn /\ armed \subseteq Conn /\ fired \subseteq Conn
    /\ disc \in [Player -> 0 .. MaxConns]
    /\ joining \in Player \cup {Nobody}
    /\ clock \in [pc : {"off", "tick", "expire", "pass"}, key : Key]
    /\ restarts \in 0 .. MaxRestarts

(* The two notions of whose turn it is agree: the board is to be moved by   *)
(* the match's active player until its move is played, and by the opponent  *)
(* in main2.  handleMove asks the board, every other handler the match.     *)
SideInStep ==
    ~Ended => side = IF phase = "main2" THEN Opponent(active) ELSE active

(* Fretta's second move belongs to the turn and the player it was granted   *)
(* to: no grant outlives its turn's move phase, and one is pending only     *)
(* there.                                                                   *)
ExtraSound ==
    ~Ended /\ extra # NoExtra =>
        /\ extra.player = active /\ extra.turn = turn
        /\ phase \in {"main1", "move"}
        /\ extra.active => phase = "move"

(* Each turn that is over had one or two moves: no pass, timed or not, and  *)
(* no skipped second move lets a player leave its move phase without one.   *)
EveryTurnMoves ==
    ~Ended =>
        LET now == IF phase = "main2" \/ extra.active THEN 1 ELSE 0
        IN  turn - 1 + now <= plies /\ plies <= 2 * (turn - 1) + 2 * now

(* Strikes count distinct main phases that ran out since the player last    *)
(* passed or cast, and MaxStrikes of them, no fewer, lose the game.         *)
StrikesAreDistinctPhases ==
    \A p \in Player :
        /\ strikes[p] = Cardinality(silent[p])
        /\ (outcome = [result |-> Opponent(p), reason |-> "timeout_strikes"])
              <=> strikes[p] = MaxStrikes

(* The order in which the phases of a game come. *)
Rank(k) == 3 * k.turn + (IF k.phase = "main1" THEN 0 ELSE IF k.phase = "move" THEN 1 ELSE 2)

(* Nobody plays on in a phase they were struck for, and nobody is struck    *)
(* for a phase that began after the clock found the time gone: a struck     *)
(* phase is over, or it is the one the clock came for and is about to end.  *)
(* In a room never restored: a restart between the two forgets the pass.    *)
StruckPhasesEnd ==
    restarts = 0 /\ ~Ended =>
        \A p \in Player : \A k \in silent[p] :
            \/ Rank(k) < Rank(currentPhaseKey)
            \/ k = currentPhaseKey /\ clock.pc = "pass" /\ clock.key = k

(* A player of a running game whose connection is gone has an abandonment   *)
(* timer, running or about to call: nobody can disappear unnoticed.  (The   *)
(* players of a restored room who have not come back yet have none.)        *)
DisconnectedIsTimed ==
    \A p \in Player :
        LET c == <<p, client[p]>>
        IN  ~Ended /\ client[p] # 0 /\ c \notin open =>
                disc[p] = client[p] /\ c \in armed \cup fired

(* No player loses by abandonment while connected, whatever the order in    *)
(* which the timer fires, its callback gets the lock and the player returns.*)
NoForfeitWhilePresent ==
    [][\A p \in Player :
          ~Ended /\ outcome' = [result |-> Opponent(p), reason |-> "abandonment"] =>
              <<p, client[p]>> \notin open]_vars

(* Once ended, a game never changes again: no handler, timer or clock that  *)
(* was waiting for the lock moves a phase, plays a move or replaces the     *)
(* outcome.                                                                 *)
FrozenAfterEnd == [][Ended => UNCHANGED <<gameVars, outcome>>]_vars

(* game_over, the saved game and the rating change happen once: an ended    *)
(* game has one ending announced or about to be, a running one has none.    *)
GameOverOnce == due + announced = IF Ended THEN 1 ELSE 0

(* After the announcement every connected player knows the game is over,    *)
(* also one whose new connection came in around the announcement.           *)
EndIsKnown ==
    announced > 0 => \A p \in Player : <<p, client[p]>> \in open => informed[p]

(* A draw offer does not survive a move of the player it was made to.       *)
OfferLapses ==
    [][plies' # plies /\ offer' # Nobody => offer' = offer /\ offer = side]_vars

(* No phase lasts for ever while the clock runs, whatever the players do or *)
(* do not do: it is played, passed or lost.  (The bound on turns stops the   *)
(* clock in the main2 of the last one.)                                     *)
PhaseEnds ==
    \A t \in 1 .. MaxTurns, ph \in RestPhases :
        ((t < MaxTurns \/ ph # "main2") /\ turn = t /\ phase = ph /\ ~Ended /\ clock.pc # "off")
            ~> (turn # t \/ phase # ph \/ Ended \/ clock.pc = "off")

(* A player who is gone is not waited for: either a new connection comes,   *)
(* or the game ends (or the server restarts).                               *)
AbsenceResolved ==
    \A p \in Player, n \in 1 .. MaxConns :
        (client[p] = n /\ <<p, n>> \notin open) ~> (client[p] # n \/ Ended)

(* Every game that ends is announced. *)
EndAnnounced == Ended ~> announced = 1

(* Board and match never part: types, the side to move, the grant of a     *)
(* second move and the moves of a turn agree in every state.               *)
BoardAndMatch == TypeOK /\ SideInStep /\ ExtraSound /\ EveryTurnMoves

(* A game ends once, and whoever is connected after the end knows it.      *)
EndsOnceAndKnown == GameOverOnce /\ EndIsKnown

(* Nothing lasts for ever: no phase, no absence, no end kept to oneself.   *)
KeepsGoing == PhaseEnds /\ AbsenceResolved /\ EndAnnounced
=============================================================================

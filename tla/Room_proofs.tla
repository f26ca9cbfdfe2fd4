----------------------------- MODULE Room_proofs ----------------------------
(***************************************************************************)
(* Theorems about module Room, for every value of its bounds.  The         *)
(* inductive invariant comes in parts, each resting on those before it:    *)
(*   - Typed: the types, with what keeps the counters in theirs;           *)
(*   - Stopped: nothing is pending once the game has ended;                *)
(*   - InTurn: the board, the match and Fretta's grant agree;              *)
(*   - Watched: every absent player has a timer, and only they do.         *)
(***************************************************************************)
EXTENDS Room, FiniteSetTheorems, TLAPS

-----------------------------------------------------------------------------
(* The turn's phases. *)

(* The opponent of a player is the other player. *)
LEMMA OpponentPlayer ==
    \A p \in Player :
        /\ Opponent(p) \in Player
        /\ Opponent(p) # p
        /\ Opponent(Opponent(p)) = p
        /\ \A q \in Player : q # p => q = Opponent(p)
BY DEF Player, Opponent, White, Black

(* The places a match may rest at after a phase: a main1 leads to the same  *)
(* turn's move phase, a move phase to the main2 or past it, a main2 to the  *)
(* opponent's turn.                                                         *)
LEMMA NextRestCases ==
    ASSUME NEW r \in Rest, NEW s \in NextRest(r)
    PROVE  /\ s \in Rest
           /\ \/ r.phase = "main1" /\ s = RestAt("move", r.turn, r.active)
              \/ r.phase = "move"  /\ s = RestAt("main2", r.turn, r.active)
              \/ /\ r.phase \in {"move", "main2"}
                 /\ s.phase \in {"main1", "move"}
                 /\ s.turn = r.turn + 1
                 /\ s.active = Opponent(r.active)
<1>0. /\ r.phase \in {"main1", "move", "main2"}
      /\ r.turn \in Nat \ {0}
      /\ r.active \in Player
      /\ r.turn + 1 \in Nat \ {0}
      /\ Opponent(r.active) \in Player
  BY OpponentPlayer DEF Rest, RestPhases
<1>1. ASSUME s \in NextTurn(r)
      PROVE  /\ s \in Rest
             /\ s.phase \in {"main1", "move"}
             /\ s.turn = r.turn + 1
             /\ s.active = Opponent(r.active)
  BY <1>0, <1>1 DEF NextTurn, RestAt, Rest, RestPhases
<1>2. CASE r.phase = "main1"
  BY <1>0, <1>2 DEF NextRest, RestAt, Rest, RestPhases
<1>3. CASE r.phase = "move"
  <2>1. s = RestAt("main2", r.turn, r.active) \/ s \in NextTurn(r)
    BY <1>3 DEF NextRest
  <2> QED
    BY <2>1, <1>0, <1>1, <1>3 DEF RestAt, Rest, RestPhases
<1>4. CASE r.phase = "main2"
  <2>1. s \in NextTurn(r)
    BY <1>4 DEF NextRest
  <2> QED
    BY <2>1, <1>1, <1>4
<1> QED
  BY <1>0, <1>2, <1>3, <1>4

(* The types; a running game has no player with all the strikes, and the    *)
(* manager brings back only a player who may still open a connection.       *)
Typed ==
    /\ TypeOK
    /\ ~Ended => \A p \in Player : strikes[p] < MaxStrikes
    /\ \A p \in Player : joining = p => client[p] < MaxConns

-----------------------------------------------------------------------------
(* What the shared pieces of the handlers preserve. *)

LEMMA NoOutcomeIsNone == NoOutcome \notin Outcome
BY DEF NoOutcome, Outcome, Nobody, Player, White, Black

(* The current phase key is a place where a match rests.                    *)
LEMMA KeyIsRest == TypeOK => currentPhaseKey \in Rest /\ currentPhaseKey \in Key
BY DEF TypeOK, Rest, Key

(* A walk to another rest keeps the three variables of the match typed. *)
LEMMA RestsAtType ==
    ASSUME TypeOK, NEW r \in Rest, RestsAt(r)
    PROVE  currentPhaseKey' = r /\ currentPhaseKey' \in Rest
BY DEF RestsAt, currentPhaseKey, RestAt, Rest

ChessReasons == {"checkmate", "stalemate", "draw"}

(* The three ways the position may end the game. *)
LEMMA ChessEndFinishes ==
    ASSUME NEW p \in Player, ChessEnd(p)
    PROVE  \E result \in Player \cup {"draw"}, reason \in ChessReasons :
              Finish(result, reason)
BY OpponentPlayer DEF ChessEnd, ChessReasons

(* Every ending a handler, the clock or a timer reports is an Outcome.      *)
LEMMA OutcomeTyped ==
    ASSUME NEW result \in Player \cup {"draw"},
           NEW reason \in ChessReasons \cup {"resign", "agreement", "timeout",
                                             "timeout_strikes", "abandonment"}
    PROVE  [result |-> result, reason |-> reason] \in Outcome
BY DEF Outcome, ChessReasons

(* The variables finishLocked and GoesOn write between them. *)
EndTyped ==
    /\ outcome \in Outcome \cup {NoOutcome}
    /\ offer \in Player \cup {Nobody}
    /\ due \in Nat /\ announced \in Nat
    /\ informed \in [Player -> BOOLEAN]
    /\ disc \in [Player -> 0 .. MaxConns]
    /\ armed \subseteq Conn

(* Those of the match, the board and the strikes. *)
GameTyped ==
    /\ currentPhaseKey \in Rest
    /\ side \in Player /\ plies \in Nat
    /\ extra \in [player : Player \cup {Nobody}, turn : Nat, active : BOOLEAN]
    /\ strikes \in [Player -> 0 .. MaxStrikes]
    /\ silent \in [Player -> SUBSET Key]

(* Those of the connections, the clock and the restarts. *)
ConnTyped ==
    /\ client \in [Player -> 0 .. MaxConns]
    /\ open \subseteq Conn /\ fired \subseteq Conn
    /\ joining \in Player \cup {Nobody}
    /\ clock \in [pc : {"off", "tick", "expire", "pass"}, key : Key]
    /\ restarts \in 0 .. MaxRestarts

(* TypeOK is the conjunction of its parts, before and after a step.         *)
LEMMA TypeParts ==
    /\ TypeOK <=> GameTyped /\ EndTyped /\ ConnTyped
    /\ TypeOK' <=> GameTyped' /\ EndTyped' /\ ConnTyped'
BY DEF TypeOK, GameTyped, EndTyped, ConnTyped

(* finishLocked leaves the end, the timers and the offer well typed.        *)
LEMMA FinishEnds ==
    ASSUME EndTyped,
           NEW result \in Player \cup {"draw"},
           NEW reason \in ChessReasons \cup {"resign", "agreement", "timeout",
                                             "timeout_strikes", "abandonment"},
           Finish(result, reason)
    PROVE  EndTyped' /\ Ended'
<1>1. [result |-> result, reason |-> reason] \in Outcome
  BY OutcomeTyped
<1>2. outcome' \in Outcome /\ Ended'
  BY <1>1, NoOutcomeIsNone DEF Finish, Ended
<1>3. disc' \in [Player -> 0 .. MaxConns]
  BY BoundsAssumption DEF Finish
<1> QED
  BY <1>2, <1>3 DEF EndTyped, Finish

(* So does an ending found on the board.                                    *)
LEMMA ChessEndEnds ==
    ASSUME EndTyped, NEW p \in Player, ChessEnd(p)
    PROVE  EndTyped' /\ Ended'
BY ChessEndFinishes, FinishEnds

(* A step on which the game goes on keeps the end's variables, the offer    *)
(* apart.                                                                   *)
LEMMA GoesOnKeeps ==
    ASSUME EndTyped, GoesOn, offer' \in Player \cup {Nobody}
    PROVE  EndTyped' /\ (Ended' <=> Ended)
BY DEF EndTyped, GoesOn, endVars, Ended

(* So does the check at the beginning of a turn, ending or not.             *)
LEMMA RolloverEndTyped ==
    ASSUME EndTyped, active' \in Player, RolloverEnd
    PROVE  EndTyped' /\ (Ended => Ended')
<1>1. CASE GoesOn /\ offer' = offer
  BY <1>1, GoesOnKeeps DEF EndTyped
<1>2. CASE turn' # turn /\ ChessEnd(active')
  BY <1>2, ChessEndEnds
<1> QED
  BY <1>1, <1>2 DEF RolloverEnd

ExtraType == [player : Player \cup {Nobody}, turn : Nat, active : BOOLEAN]

(* "No grant" is a value of r.extra.                                        *)
LEMMA NoExtraTyped == NoExtra \in ExtraType
BY DEF NoExtra, ExtraType

(* passPhase leaves the match, the board and the grant well typed.          *)
LEMMA PassTyped ==
    ASSUME TypeOK, NEW p \in Player, Pass(p)
    PROVE  /\ currentPhaseKey' \in Rest
           /\ side' \in Player /\ plies' = plies
           /\ extra' \in ExtraType
           /\ EndTyped' /\ (Ended => Ended')
<1>1. currentPhaseKey' \in Rest
  <2>1. PICK r \in NextRest(currentPhaseKey) : RestsAt(r)
    BY DEF Pass
  <2>2. r \in Rest
    BY <2>1, KeyIsRest, NextRestCases
  <2> QED
    BY <2>1, <2>2, RestsAtType
<1>2. active' \in Player
  BY <1>1 DEF currentPhaseKey, RestAt, Rest
<1>3. side' \in Player /\ plies' = plies
  BY OpponentPlayer DEF Pass, TypeOK
<1>4. extra' \in ExtraType
  <2>1. extra \in ExtraType
    BY DEF TypeOK, ExtraType
  <2>2. extra' = NoExtra \/ extra' = extra
    BY DEF Pass
  <2> QED
    BY <2>1, <2>2, NoExtraTyped
<1>5. EndTyped' /\ (Ended => Ended')
  BY <1>2, TypeParts, RolloverEndTyped DEF Pass
<1> QED
  BY <1>1, <1>3, <1>4, <1>5

-----------------------------------------------------------------------------
(* Each action keeps the state typed. *)

(* A connection is the number of a player's connection. *)
LEMMA ConnParts ==
    ASSUME NEW c \in Conn
    PROVE  c[1] \in Player /\ c[2] \in 1 .. MaxConns /\ c = <<c[1], c[2]>>
BY DEF Conn

(* handleMove preserves the type invariant.                                 *)
LEMMA HandleMoveTyped ==
    ASSUME Typed, NEW c \in open, HandleMove(c)
    PROVE  Typed'
<1>0. TypeOK /\ ~Ended /\ c \in Conn
  BY DEF Typed, TypeOK, HandleMove
<1>1. c[1] \in Player /\ Opponent(c[1]) \in Player
  BY <1>0, ConnParts, OpponentPlayer
<1>2. ConnTyped' /\ UNCHANGED <<strikes, silent, client, joining>>
  BY <1>0, TypeParts DEF HandleMove, ConnTyped, connVars, KeepStrikes
<1>3. plies' \in Nat
  BY <1>0 DEF HandleMove, TypeOK
<1>4. extra' \in ExtraType /\ side' \in Player
  <2>1. extra \in ExtraType /\ side \in Player
    BY <1>0 DEF TypeOK, ExtraType
  <2>2. [extra EXCEPT !.active = TRUE] \in ExtraType
    BY <2>1 DEF ExtraType
  <2> QED
    BY <2>1, <2>2, <1>1, NoExtraTyped DEF HandleMove
<1>5. OfferAfterMove(c[1]) \in Player \cup {Nobody}
  BY <1>0 DEF OfferAfterMove, TypeOK
<1>6. EndTyped' /\ (Ended => Ended')
  <2>1. EndTyped
    BY <1>0, TypeParts
  <2>2. CASE ChessEnd(Opponent(c[1]))
    BY <2>1, <2>2, <1>1, ChessEndEnds
  <2>3. CASE offer' = OfferAfterMove(c[1]) /\ GoesOn
    BY <2>1, <2>3, <1>5, GoesOnKeeps
  <2> QED
    BY <2>2, <2>3 DEF HandleMove
<1>7. currentPhaseKey' \in Rest
  <2>1. CASE UNCHANGED matchVars
    BY <2>1, <1>0 DEF TypeOK, matchVars, currentPhaseKey
  <2>2. CASE \E r \in NextRest(currentPhaseKey) : RestsAt(r)
    <3>1. PICK r \in NextRest(currentPhaseKey) : RestsAt(r)
      BY <2>2
    <3> QED
      BY <3>1, <1>0, KeyIsRest, NextRestCases, RestsAtType
  <2> QED
    BY <2>1, <2>2 DEF HandleMove
<1>8. GameTyped'
  BY <1>0, <1>2, <1>3, <1>4, <1>7, TypeParts DEF GameTyped, ExtraType
<1> QED
  BY <1>0, <1>2, <1>6, <1>8, TypeParts DEF Typed

(* resetStrikes only lowers the count. *)
LEMMA ResetTyped ==
    ASSUME TypeOK, NEW p \in Player, resetStrikes(p)
    PROVE  /\ strikes' \in [Player -> 0 .. MaxStrikes]
           /\ silent' \in [Player -> SUBSET Key]
           /\ \A q \in Player : strikes[q] < MaxStrikes => strikes'[q] < MaxStrikes
<1>1. 0 \in 0 .. MaxStrikes /\ 0 < MaxStrikes
  BY BoundsAssumption
<1>2. strikes \in [Player -> 0 .. MaxStrikes] /\ silent \in [Player -> SUBSET Key]
  BY DEF TypeOK
<1> QED
  BY <1>1, <1>2 DEF resetStrikes

(* handlePassPhase preserves the type invariant; its strikes are below the  *)
(* limit.                                                                   *)
LEMMA HandlePassPhaseTyped ==
    ASSUME Typed, NEW c \in open, HandlePassPhase(c)
    PROVE  Typed'
<1>0. TypeOK /\ ~Ended /\ c \in Conn /\ c[1] \in Player /\ Pass(c[1])
  BY ConnParts DEF Typed, TypeOK, HandlePassPhase
<1>1. ConnTyped' /\ UNCHANGED <<client, joining>>
  BY <1>0, TypeParts DEF HandlePassPhase, ConnTyped, connVars
<1>2. /\ strikes' \in [Player -> 0 .. MaxStrikes]
      /\ silent' \in [Player -> SUBSET Key]
      /\ \A q \in Player : strikes'[q] < MaxStrikes
  <2>1. CASE resetStrikes(c[1])
    BY <1>0, <2>1, ResetTyped DEF Typed
  <2>2. CASE KeepStrikes
    BY <1>0, <2>2 DEF KeepStrikes, Typed, TypeOK
  <2> QED
    BY <2>1, <2>2 DEF HandlePassPhase
<1>3. /\ currentPhaseKey' \in Rest
      /\ side' \in Player /\ plies' = plies
      /\ extra' \in ExtraType
      /\ EndTyped'
  BY <1>0, PassTyped
<1>4. GameTyped'
  BY <1>0, <1>2, <1>3 DEF GameTyped, ExtraType, TypeOK
<1> QED
  BY <1>1, <1>2, <1>3, <1>4, TypeParts DEF Typed

(* handleCastSpell preserves the type invariant.                            *)
LEMMA HandleCastSpellTyped ==
    ASSUME Typed, NEW c \in open, HandleCastSpell(c)
    PROVE  Typed'
<1>0. TypeOK /\ ~Ended /\ c \in Conn /\ c[1] \in Player
  BY ConnParts DEF Typed, TypeOK, HandleCastSpell
<1>1. ConnTyped' /\ UNCHANGED <<side, plies, client, joining>>
  BY <1>0, TypeParts DEF HandleCastSpell, ConnTyped, connVars
<1>2. /\ strikes' \in [Player -> 0 .. MaxStrikes]
      /\ silent' \in [Player -> SUBSET Key]
      /\ \A q \in Player : strikes'[q] < MaxStrikes
  BY <1>0, ResetTyped DEF Typed, HandleCastSpell
<1>3. extra' \in ExtraType
  <2>1. extra \in ExtraType /\ turn \in Nat
    BY <1>0 DEF TypeOK, ExtraType, currentPhaseKey, RestAt, Rest
  <2>2. [player |-> c[1], turn |-> turn, active |-> FALSE] \in ExtraType
    BY <1>0, <2>1 DEF ExtraType
  <2>3. extra' = extra \/ extra' = [player |-> c[1], turn |-> turn, active |-> FALSE]
    BY DEF HandleCastSpell
  <2> QED
    BY <2>1, <2>2, <2>3
<1>4. currentPhaseKey' \in Rest
  <2>1. PICK r \in {currentPhaseKey} \cup NextRest(currentPhaseKey) : RestsAt(r)
    BY DEF HandleCastSpell
  <2>2. r \in Rest
    BY <1>0, <2>1, KeyIsRest, NextRestCases
  <2> QED
    BY <1>0, <2>1, <2>2, RestsAtType
<1>5. EndTyped'
  <2>1. active \in Player /\ active' \in Player
    BY <1>0, <1>4, KeyIsRest DEF currentPhaseKey, RestAt, Rest
  <2>2. RolloverEnd \/ ChessEnd(active)
    BY DEF HandleCastSpell
  <2> QED
    BY <1>0, <2>1, <2>2, TypeParts, RolloverEndTyped, ChessEndEnds
<1>6. GameTyped'
  BY <1>0, <1>1, <1>2, <1>3, <1>4 DEF GameTyped, ExtraType, TypeOK
<1> QED
  BY <1>1, <1>2, <1>5, <1>6, TypeParts DEF Typed

(* What the remaining actions leave alone. *)
LEMMA GameUnchanged ==
    ASSUME TypeOK, UNCHANGED <<matchVars, boardVars, extra, strikes, silent>>
    PROVE  GameTyped'
BY DEF TypeOK, GameTyped, matchVars, boardVars, currentPhaseKey

(* A step that leaves the connections alone keeps them well typed.          *)
LEMMA ConnUnchanged ==
    ASSUME TypeOK, UNCHANGED <<connVars, restarts>>, fired' \subseteq Conn,
           clock' \in [pc : {"off", "tick", "expire", "pass"}, key : Key]
    PROVE  ConnTyped' /\ UNCHANGED <<client, joining>>
BY DEF TypeOK, ConnTyped, connVars

(* handleResign preserves the type invariant.                               *)
LEMMA HandleResignTyped ==
    ASSUME Typed, NEW c \in open, HandleResign(c)
    PROVE  Typed'
<1>0. TypeOK /\ c \in Conn /\ Opponent(c[1]) \in Player
  BY ConnParts, OpponentPlayer DEF Typed, TypeOK
<1>1. GameTyped'
  BY <1>0, GameUnchanged DEF HandleResign
<1>2. ConnTyped' /\ UNCHANGED <<client, joining>>
  BY <1>0, ConnUnchanged DEF HandleResign, TypeOK
<1>3. EndTyped' /\ Ended'
  BY <1>0, TypeParts, FinishEnds DEF HandleResign
<1> QED
  BY <1>1, <1>2, <1>3, TypeParts DEF Typed

(* handleDrawOffer preserves the type invariant.                            *)
LEMMA HandleDrawOfferTyped ==
    ASSUME Typed, NEW c \in open, HandleDrawOffer(c)
    PROVE  Typed'
<1>0. TypeOK /\ c \in Conn /\ c[1] \in Player
  BY ConnParts DEF Typed, TypeOK
<1>1. GameTyped'
  BY <1>0, GameUnchanged DEF HandleDrawOffer
<1>2. ConnTyped' /\ UNCHANGED <<client, joining>>
  BY <1>0, ConnUnchanged DEF HandleDrawOffer, TypeOK, timerVars
<1>3. EndTyped' /\ (Ended' <=> Ended)
  BY <1>0 DEF HandleDrawOffer, EndTyped, TypeOK, endVars, timerVars, Ended
<1> QED
  BY <1>1, <1>2, <1>3, TypeParts DEF Typed, HandleDrawOffer

(* handleDrawResponse preserves the type invariant.                         *)
LEMMA HandleDrawResponseTyped ==
    ASSUME Typed, NEW c \in open, HandleDrawResponse(c)
    PROVE  Typed'
<1>0. TypeOK
  BY DEF Typed
<1>1. GameTyped'
  BY <1>0, GameUnchanged DEF HandleDrawResponse
<1>2. ConnTyped' /\ UNCHANGED <<client, joining>>
  BY <1>0, ConnUnchanged DEF HandleDrawResponse, TypeOK
<1>3. EndTyped' /\ (~Ended' => ~Ended)
  <2>1. CASE Finish("draw", "agreement")
    BY <2>1, <1>0, TypeParts, FinishEnds
  <2>2. CASE offer' = Nobody /\ GoesOn
    BY <2>2, <1>0, TypeParts, GoesOnKeeps
  <2> QED
    BY <2>1, <2>2 DEF HandleDrawResponse
<1> QED
  BY <1>1, <1>2, <1>3, TypeParts DEF Typed, HandleDrawResponse

(* Leave preserves the type invariant.                                      *)
LEMMA LeaveTyped ==
    ASSUME Typed, NEW c \in open, Leave(c)
    PROVE  Typed'
<1>0. TypeOK /\ c \in Conn /\ c[1] \in Player /\ c[2] \in 0 .. MaxConns
  BY ConnParts, BoundsAssumption DEF Typed, TypeOK
<1>1. GameTyped'
  BY <1>0, GameUnchanged DEF Leave, gameVars, matchVars, boardVars
<1>2. ConnTyped' /\ UNCHANGED <<client, joining>>
  BY <1>0 DEF Leave, TypeOK, ConnTyped
<1>3. disc' \in [Player -> 0 .. MaxConns] /\ armed' \subseteq Conn
  <2>1. disc \in [Player -> 0 .. MaxConns] /\ armed \subseteq Conn
    BY <1>0 DEF TypeOK
  <2>2. CASE ~Ended /\ client[c[1]] = c[2]
    BY <2>1, <2>2, <1>0 DEF Leave
  <2>3. CASE ~(~Ended /\ client[c[1]] = c[2])
    BY <2>1, <2>3 DEF Leave
  <2> QED
    BY <2>2, <2>3
<1>4. EndTyped' /\ (Ended' <=> Ended) /\ strikes' = strikes
  BY <1>0, <1>3 DEF Leave, EndTyped, TypeOK, endVars, gameVars, Ended
<1> QED
  BY <1>1, <1>2, <1>4, TypeParts DEF Typed

(* A timer that fires preserves the type invariant.                         *)
LEMMA TimerFiresTyped ==
    ASSUME Typed, NEW t \in armed, TimerFires(t)
    PROVE  Typed'
<1>0. TypeOK
  BY DEF Typed
<1>1. GameTyped'
  BY <1>0, GameUnchanged DEF TimerFires, gameVars, matchVars, boardVars
<1>2. ConnTyped' /\ UNCHANGED <<client, joining>>
  BY <1>0, ConnUnchanged DEF TimerFires, TypeOK
<1>3. EndTyped' /\ (Ended' <=> Ended) /\ strikes' = strikes
  BY <1>0 DEF TimerFires, EndTyped, TypeOK, endVars, gameVars, Ended
<1> QED
  BY <1>1, <1>2, <1>3, TypeParts DEF Typed

(* The abandonment callback preserves the type invariant.                   *)
LEMMA AbandonTyped ==
    ASSUME Typed, NEW t \in fired, Abandon(t)
    PROVE  Typed'
<1>0. TypeOK /\ t \in Conn /\ Opponent(t[1]) \in Player
  BY ConnParts, OpponentPlayer DEF Typed, TypeOK
<1>1. GameTyped'
  BY <1>0, GameUnchanged DEF Abandon
<1>2. ConnTyped' /\ UNCHANGED <<client, joining>>
  BY <1>0, ConnUnchanged DEF Abandon, TypeOK
<1>3. EndTyped' /\ (~Ended' => ~Ended)
  <2>1. CASE Finish(Opponent(t[1]), "abandonment")
    BY <2>1, <1>0, TypeParts, FinishEnds
  <2>2. CASE GoesOn /\ UNCHANGED offer
    <3>1. offer' \in Player \cup {Nobody}
      BY <2>2, <1>0 DEF TypeOK
    <3> QED
      BY <2>2, <3>1, <1>0, TypeParts, GoesOnKeeps
  <2> QED
    BY <2>1, <2>2 DEF Abandon
<1> QED
  BY <1>1, <1>2, <1>3, TypeParts DEF Typed, Abandon

(* tryReconnectLocked preserves the type invariant.                         *)
LEMMA RejoinTyped ==
    ASSUME Typed, NEW p \in Player, Rejoin(p)
    PROVE  Typed'
<1>0. TypeOK
  BY DEF Typed
<1>1. GameTyped'
  BY <1>0, GameUnchanged DEF Rejoin, gameVars, matchVars, boardVars
<1>2. ConnTyped' /\ \A q \in Player : joining' = q => client'[q] < MaxConns
  BY <1>0 DEF Rejoin, TypeOK, ConnTyped, timerVars
<1>3. EndTyped' /\ (Ended' <=> Ended) /\ strikes' = strikes
  BY <1>0 DEF Rejoin, EndTyped, TypeOK, endVars, timerVars, gameVars, Ended
<1> QED
  BY <1>1, <1>2, <1>3, TypeParts DEF Typed

(* Reconnect preserves the type invariant; connections stay within the      *)
(* bound.                                                                   *)
LEMMA ReconnectTyped ==
    ASSUME Typed, Reconnect
    PROVE  Typed'
<1>0. TypeOK /\ joining \in Player /\ joining # Nobody /\ client[joining] < MaxConns
  BY DEF Typed, TypeOK, Reconnect
<1>1. GameTyped'
  BY <1>0, GameUnchanged DEF Reconnect, gameVars, matchVars, boardVars
<1>2. client' \in [Player -> 0 .. MaxConns] /\ <<joining, client[joining] + 1>> \in Conn
  <2>1. client \in [Player -> 0 .. MaxConns]
    BY <1>0 DEF TypeOK
  <2>2. client[joining] + 1 \in 1 .. MaxConns /\ client[joining] + 1 \in 0 .. MaxConns
    BY <2>1, <1>0, BoundsAssumption
  <2> QED
    BY <2>1, <2>2, <1>0 DEF Reconnect, Conn
<1>3. clock' \in [pc : {"off", "tick", "expire", "pass"}, key : Key]
  <2>1. clock \in [pc : {"off", "tick", "expire", "pass"}, key : Key]
    BY <1>0 DEF TypeOK
  <2>2. clock' = clock \/ clock' = [clock EXCEPT !.pc = "tick"]
    BY DEF Reconnect
  <2> QED
    BY <2>1, <2>2
<1>4. ConnTyped' /\ \A q \in Player : joining' # q
  <2>1. open' \subseteq Conn /\ fired' \subseteq Conn /\ restarts' \in 0 .. MaxRestarts
    BY <1>0, <1>2 DEF Reconnect, TypeOK
  <2>2. joining' = Nobody /\ \A q \in Player : Nobody # q
    BY DEF Reconnect, Nobody, Player, White, Black
  <2> QED
    BY <1>2, <1>3, <2>1, <2>2 DEF ConnTyped
<1>5. EndTyped' /\ (Ended' <=> Ended) /\ strikes' = strikes
  <2>1. informed' \in [Player -> BOOLEAN]
    BY <1>0 DEF Reconnect, TypeOK, Ended
  <2>2. disc' \in [Player -> 0 .. MaxConns] /\ armed' \subseteq Conn
    BY <1>0, BoundsAssumption DEF Reconnect, TypeOK
  <2> QED
    BY <1>0, <2>1, <2>2 DEF Reconnect, EndTyped, TypeOK, gameVars, Ended
<1> QED
  BY <1>1, <1>4, <1>5, TypeParts DEF Typed

(* The clock goroutine. *)
ClockType == [pc : {"off", "tick", "expire", "pass"}, key : Key]

(* The resting states of the clock goroutine are values of clock.           *)
LEMMA TickingTyped == Ticking \in ClockType /\ NoClock \in ClockType
BY DEF Ticking, NoClock, ClockType, NoKey, RestAt, Key, RestPhases, Player

(* A step that changes nothing but the clock preserves the type invariant.  *)
LEMMA ClockOnlyTyped ==
    ASSUME Typed, UNCHANGED <<gameVars, endVars, connVars, timerVars, restarts>>,
           clock' \in ClockType
    PROVE  Typed'
<1>0. TypeOK
  BY DEF Typed
<1>1. GameTyped'
  BY <1>0, GameUnchanged DEF gameVars, matchVars, boardVars
<1>2. ConnTyped' /\ UNCHANGED <<client, joining>>
  BY <1>0, ConnUnchanged DEF TypeOK, timerVars, ClockType
<1>3. EndTyped' /\ (Ended' <=> Ended) /\ strikes' = strikes
  BY <1>0 DEF EndTyped, TypeOK, endVars, timerVars, gameVars, Ended
<1> QED
  BY <1>1, <1>2, <1>3, TypeParts DEF Typed

(* runTimer preserves the type invariant.                                   *)
LEMMA ClockTickTyped ==
    ASSUME Typed, ClockTick
    PROVE  Typed'
<1>1. clock' \in ClockType
  BY KeyIsRest DEF ClockTick, ClockType, Typed
<1> QED
  BY <1>1, ClockOnlyTyped DEF ClockTick

(* An expiry that came too late preserves the type invariant.               *)
LEMMA ClockTooLateTyped ==
    ASSUME Typed, ClockTooLate
    PROVE  Typed'
BY TickingTyped, ClockOnlyTyped DEF ClockTooLate

(* expirePhase in the move phase preserves the type invariant.              *)
LEMMA ExpireMoveTyped ==
    ASSUME Typed, ExpireMove
    PROVE  Typed'
<1>0. TypeOK /\ active \in Player /\ Opponent(active) \in Player
  BY KeyIsRest, OpponentPlayer DEF Typed, currentPhaseKey, RestAt, Rest
<1>1. GameTyped'
  BY <1>0, GameUnchanged DEF ExpireMove
<1>2. clock' \in ClockType
  <2>1. clock \in ClockType
    BY <1>0 DEF TypeOK, ClockType
  <2>2. clock' = Ticking \/ clock' = [clock EXCEPT !.pc = "pass"]
    BY DEF ExpireMove
  <2> QED
    BY <2>1, <2>2, TickingTyped DEF ClockType
<1>3. ConnTyped' /\ UNCHANGED <<client, joining>>
  BY <1>0, <1>2, ConnUnchanged DEF ExpireMove, TypeOK, ClockType
<1>4. EndTyped' /\ (~Ended' => ~Ended)
  <2>1. CASE Finish(Opponent(active), "timeout")
    BY <2>1, <1>0, TypeParts, FinishEnds
  <2>2. CASE GoesOn /\ UNCHANGED offer
    <3>1. offer' \in Player \cup {Nobody}
      BY <2>2, <1>0 DEF TypeOK
    <3> QED
      BY <2>2, <3>1, <1>0, TypeParts, GoesOnKeeps
  <2> QED
    BY <2>1, <2>2 DEF ExpireMove
<1> QED
  BY <1>1, <1>3, <1>4, TypeParts DEF Typed, ExpireMove

(* expirePhase in a main phase preserves it: no strike exceeds MaxStrikes.  *)
LEMMA ExpireMainTyped ==
    ASSUME Typed, ExpireMain
    PROVE  Typed'
<1>0. TypeOK /\ ~Ended /\ active \in Player /\ Opponent(active) \in Player
  BY KeyIsRest, OpponentPlayer DEF Typed, currentPhaseKey, RestAt, Rest, ExpireMain, StillThere
<1>1. strikes' \in [Player -> 0 .. MaxStrikes] /\ silent' \in [Player -> SUBSET Key]
  <2>1. strikes \in [Player -> 0 .. MaxStrikes] /\ silent \in [Player -> SUBSET Key]
    BY <1>0 DEF TypeOK
  <2>2. strikes[active] + 1 \in 0 .. MaxStrikes
    BY <2>1, <1>0, BoundsAssumption DEF Typed
  <2>3. currentPhaseKey \in Key
    BY <1>0 DEF TypeOK, ExpireMain, StillThere
  <2> QED
    BY <2>1, <2>2, <2>3, <1>0 DEF ExpireMain
<1>2. GameTyped'
  BY <1>0, <1>1 DEF ExpireMain, GameTyped, TypeOK, matchVars, boardVars, currentPhaseKey
<1>3. clock' \in ClockType
  <2>1. clock \in ClockType
    BY <1>0 DEF TypeOK, ClockType
  <2>2. clock' = Ticking \/ clock' = [clock EXCEPT !.pc = "pass"]
    BY DEF ExpireMain
  <2> QED
    BY <2>1, <2>2, TickingTyped DEF ClockType
<1>4. ConnTyped' /\ UNCHANGED <<client, joining>>
  BY <1>0, <1>3, ConnUnchanged DEF ExpireMain, TypeOK, ClockType
<1>5. EndTyped' /\ (~Ended' => strikes'[active] < MaxStrikes)
  <2>1. CASE strikes'[active] >= MaxStrikes
    <3>1. Finish(Opponent(active), "timeout_strikes")
      BY <2>1 DEF ExpireMain
    <3> QED
      BY <3>1, <1>0, TypeParts, FinishEnds
  <2>2. CASE ~(strikes'[active] >= MaxStrikes)
    <3>1. GoesOn /\ UNCHANGED offer
      BY <2>2 DEF ExpireMain
    <3>2. offer' \in Player \cup {Nobody}
      BY <3>1, <1>0 DEF TypeOK
    <3>3. strikes'[active] < MaxStrikes
      BY <2>2, <1>0, <1>1, BoundsAssumption
    <3> QED
      BY <3>1, <3>2, <3>3, <1>0, TypeParts, GoesOnKeeps
  <2> QED
    BY <2>1, <2>2
<1>6. \A q \in Player : q # active => strikes'[q] = strikes[q]
  BY <1>0 DEF ExpireMain, TypeOK
<1> QED
  BY <1>0, <1>2, <1>4, <1>5, <1>6, TypeParts DEF Typed

(* passPhase with a timeout key preserves the type invariant.               *)
LEMMA TimedPassTyped ==
    ASSUME Typed, TimedPass
    PROVE  Typed'
<1>0. TypeOK /\ ~Ended /\ active \in Player
  BY KeyIsRest DEF Typed, currentPhaseKey, RestAt, Rest, TimedPass, StillThere
<1>1. ConnTyped' /\ UNCHANGED <<client, joining>>
  BY <1>0, TickingTyped, ConnUnchanged DEF TimedPass, TypeOK, ClockType
<1>2. /\ currentPhaseKey' \in Rest
      /\ side' \in Player /\ plies' = plies
      /\ extra' \in ExtraType
      /\ EndTyped'
  BY <1>0, PassTyped DEF TimedPass
<1>3. GameTyped'
  BY <1>0, <1>2 DEF GameTyped, ExtraType, TypeOK, TimedPass, KeepStrikes
<1> QED
  BY <1>0, <1>1, <1>2, <1>3, TypeParts DEF Typed, TimedPass, KeepStrikes

(* announceEnd preserves the type invariant.                                *)
LEMMA AnnounceTyped ==
    ASSUME Typed, Announce
    PROVE  Typed'
<1>0. TypeOK
  BY DEF Typed
<1>1. GameTyped'
  BY <1>0, GameUnchanged DEF Announce, gameVars, matchVars, boardVars
<1>2. ConnTyped' /\ UNCHANGED <<client, joining>>
  BY <1>0, ConnUnchanged DEF Announce, TypeOK, timerVars
<1>3. EndTyped' /\ (Ended' <=> Ended) /\ strikes' = strikes
  <2>1. due' \in Nat /\ announced' \in Nat
    BY <1>0 DEF Announce, TypeOK
  <2> QED
    BY <1>0, <2>1 DEF Announce, EndTyped, TypeOK, timerVars, gameVars, Ended
<1> QED
  BY <1>1, <1>2, <1>3, TypeParts DEF Typed

(* Shutdown and LoadPersisted preserve the type invariant.                  *)
LEMMA RestartTyped ==
    ASSUME Typed, Restart
    PROVE  Typed'
<1>0. TypeOK
  BY DEF Typed
<1>1. GameTyped'
  BY <1>0, GameUnchanged DEF Restart
<1>2. ConnTyped' /\ \A q \in Player : joining' # q
  <2>1. client' \in [Player -> 0 .. MaxConns] /\ restarts' \in 0 .. MaxRestarts
    BY <1>0, BoundsAssumption DEF Restart, TypeOK
  <2>2. joining' = Nobody /\ \A q \in Player : Nobody # q
    BY DEF Restart, Nobody, Player, White, Black
  <2> QED
    BY <1>0, <2>1, <2>2, TickingTyped DEF Restart, TypeOK, ConnTyped, ClockType
<1>3. EndTyped' /\ (Ended' <=> Ended) /\ strikes' = strikes
  <2>1. disc' \in [Player -> 0 .. MaxConns]
    BY BoundsAssumption DEF Restart
  <2> QED
    BY <1>0, <2>1 DEF Restart, EndTyped, TypeOK, endVars, Ended
<1> QED
  BY <1>1, <1>2, <1>3, TypeParts DEF Typed

(* A new room is well typed.                                                *)
LEMMA InitTyped == Init => Typed
<1> SUFFICES ASSUME Init PROVE Typed
  OBVIOUS
<1>1. GameTyped
  BY BoundsAssumption, NoExtraTyped
  DEF Init, GameTyped, ExtraType, currentPhaseKey, RestAt, Rest, RestPhases, Player
<1>2. EndTyped /\ \A p \in Player : strikes[p] < MaxStrikes
  BY BoundsAssumption DEF Init, EndTyped
<1>3. ConnTyped /\ \A p \in Player : joining # p
  BY BoundsAssumption, TickingTyped
  DEF Init, ConnTyped, Conn, ClockType, Nobody, Player, White, Black
<1> QED
  BY <1>1, <1>2, <1>3, TypeParts DEF Typed

(* Every step of the room preserves the inductive type invariant.           *)
LEMMA NextTyped == Typed /\ [Next]_vars => Typed'
<1> SUFFICES ASSUME Typed, [Next]_vars PROVE Typed'
  OBVIOUS
<1>1. CASE \E c \in open : Handler(c) \/ Leave(c)
  BY <1>1, HandleMoveTyped, HandlePassPhaseTyped, HandleCastSpellTyped, HandleResignTyped,
     HandleDrawOfferTyped, HandleDrawResponseTyped, LeaveTyped DEF Handler
<1>2. CASE \E t \in armed : TimerFires(t)
  BY <1>2, TimerFiresTyped
<1>3. CASE \E t \in fired : Abandon(t)
  BY <1>3, AbandonTyped
<1>4. CASE (\E p \in Player : Rejoin(p)) \/ Reconnect
  BY <1>4, RejoinTyped, ReconnectTyped
<1>5. CASE Clock
  BY <1>5, ClockTickTyped, ClockTooLateTyped, ExpireMoveTyped, ExpireMainTyped,
     TimedPassTyped DEF Clock
<1>6. CASE Announce \/ Restart
  BY <1>6, AnnounceTyped, RestartTyped
<1>7. CASE UNCHANGED vars
  <2>1. UNCHANGED <<gameVars, endVars, connVars, timerVars, restarts, clock>>
    BY <1>7 DEF vars
  <2>2. clock \in ClockType
    BY DEF Typed, TypeOK, ClockType
  <2> QED
    BY <2>1, <2>2, ClockOnlyTyped
<1> QED
  BY <1>1, <1>2, <1>3, <1>4, <1>5, <1>6, <1>7 DEF Next

(* The state is well typed: in particular the strikes never pass MaxStrikes *)
(* and the match always rests in a phase that waits for input.              *)
THEOREM TypeCorrect == Spec => []TypeOK
<1>1. Spec => []Typed
  BY InitTyped, NextTyped, PTL DEF Spec
<1>2. Typed => TypeOK
  BY DEF Typed
<1> QED
  BY <1>1, <1>2, PTL

(* The inductive type invariant always holds: TypeOK, strikes below the     *)
(* limit while the game goes on, a connection left for a player who is      *)
(* about to reconnect.                                                      *)
THEOREM TypedAlways == Spec => []Typed
BY InitTyped, NextTyped, PTL DEF Spec

-----------------------------------------------------------------------------
(* The end of a game: it happens once, and nothing moves afterwards. *)

(* An ended game has no abandonment timer in charge of anybody, and one ending  *)
(* to its name, and no draw offer.                                          *)
Stopped ==
    /\ GameOverOnce
    /\ Ended => \A p \in Player : disc[p] = 0

(* finishLocked stops everything pending, and leaves one ending to          *)
(* announce.                                                                *)
LEMMA FinishStops ==
    ASSUME TypeOK, GameOverOnce, ~Ended,
           NEW result \in Player \cup {"draw"},
           NEW reason \in ChessReasons \cup {"resign", "agreement", "timeout",
                                             "timeout_strikes", "abandonment"},
           Finish(result, reason)
    PROVE  Stopped'
<1>1. Ended'
  BY TypeParts, FinishEnds
<1>2. due' + announced' = 1
  BY DEF Finish, GameOverOnce, TypeOK
<1> QED
  BY <1>1, <1>2 DEF Stopped, GameOverOnce, Finish

(* An ending found on the board does too.                                   *)
LEMMA ChessEndStops ==
    ASSUME TypeOK, GameOverOnce, ~Ended, NEW p \in Player, ChessEnd(p)
    PROVE  Stopped'
BY ChessEndFinishes, FinishStops

(* A step that does not end the game adds no ending.                        *)
LEMMA GoesOnStops ==
    ASSUME GameOverOnce, ~Ended, GoesOn
    PROVE  Stopped' /\ ~Ended'
BY DEF GoesOn, endVars, Stopped, GameOverOnce, Ended

(* passPhase keeps the count of endings.                                    *)
LEMMA PassStops ==
    ASSUME TypeOK, Stopped, ~Ended, NEW p \in Player, Pass(p)
    PROVE  Stopped'
<1>1. active' \in Player
  BY PassTyped DEF currentPhaseKey, RestAt, Rest
<1> QED
  BY <1>1, ChessEndStops, GoesOnStops DEF Pass, RolloverEnd, Stopped

(* Every step keeps one ending for an ended game and none for a running     *)
(* one.                                                                     *)
LEMMA NextStops == Typed /\ Stopped /\ [Next]_vars => Stopped'
<1> SUFFICES ASSUME Typed, Stopped, [Next]_vars PROVE Stopped'
  OBVIOUS
<1>0. TypeOK /\ GameOverOnce /\ Typed'
  BY NextTyped DEF Typed, Stopped
<1>a. active \in Player /\ active' \in Player /\ Opponent(active) \in Player
  BY <1>0, OpponentPlayer DEF Typed, TypeOK, currentPhaseKey, RestAt, Rest
<1>b. ASSUME NEW c \in open
      PROVE  c[1] \in Player /\ Opponent(c[1]) \in Player
  BY <1>0, ConnParts, OpponentPlayer DEF TypeOK
<1>1. ASSUME NEW c \in open, HandleMove(c) PROVE Stopped'
  BY <1>0, <1>1, <1>b, ChessEndStops, GoesOnStops DEF HandleMove
<1>2. ASSUME NEW c \in open, HandlePassPhase(c) PROVE Stopped'
  BY <1>0, <1>2, <1>b, PassStops DEF HandlePassPhase
<1>3. ASSUME NEW c \in open, HandleCastSpell(c) PROVE Stopped'
  BY <1>0, <1>3, <1>a, ChessEndStops, GoesOnStops DEF HandleCastSpell, RolloverEnd
<1>4. ASSUME NEW c \in open, HandleResign(c) PROVE Stopped'
  BY <1>0, <1>4, <1>b, FinishStops DEF HandleResign
<1>5. ASSUME NEW c \in open, HandleDrawOffer(c) PROVE Stopped'
  BY <1>0, <1>5 DEF HandleDrawOffer, endVars, timerVars, Stopped, GameOverOnce, Ended
<1>6. ASSUME NEW c \in open, HandleDrawResponse(c) PROVE Stopped'
  BY <1>0, <1>6, FinishStops, GoesOnStops DEF HandleDrawResponse
<1>7. ASSUME NEW c \in open, Leave(c) PROVE Stopped'
  BY <1>7 DEF Leave, endVars, Stopped, GameOverOnce, Ended
<1>8. ASSUME NEW t \in armed, TimerFires(t) PROVE Stopped'
  BY <1>8 DEF TimerFires, endVars, Stopped, GameOverOnce, Ended
<1>9. ASSUME NEW t \in fired, Abandon(t) PROVE Stopped'
  <2>1. t[1] \in Player /\ t[2] # 0 /\ Opponent(t[1]) \in Player
    BY <1>0, ConnParts, OpponentPlayer DEF TypeOK
  <2>2. CASE disc[t[1]] = t[2]
    <3>1. ~Ended /\ Finish(Opponent(t[1]), "abandonment")
      BY <2>1, <2>2, <1>9 DEF Stopped, Abandon
    <3> QED
      BY <3>1, <2>1, <1>0, FinishStops
  <2>3. CASE disc[t[1]] # t[2]
    BY <2>3, <1>9 DEF Abandon, GoesOn, endVars, Stopped, GameOverOnce, Ended
  <2> QED
    BY <2>2, <2>3
<1>10. ASSUME NEW p \in Player, Rejoin(p) PROVE Stopped'
  BY <1>10 DEF Rejoin, endVars, timerVars, Stopped, GameOverOnce, Ended
<1>11. CASE Reconnect
  <2>1. \A p \in Player : disc[p] = 0 => disc'[p] = 0
    BY <1>0, <1>11 DEF Reconnect, TypeOK
  <2> QED
    BY <2>1, <1>11 DEF Reconnect, Stopped, GameOverOnce, Ended
<1>12. CASE ClockTick \/ ClockTooLate
  BY <1>12 DEF ClockTick, ClockTooLate, endVars, timerVars, Stopped, GameOverOnce, Ended
<1>13. CASE ExpireMove
  BY <1>0, <1>13, <1>a, FinishStops, GoesOnStops DEF ExpireMove, StillThere
<1>14. CASE ExpireMain
  BY <1>0, <1>14, <1>a, FinishStops, GoesOnStops DEF ExpireMain, StillThere
<1>15. CASE TimedPass
  BY <1>0, <1>15, <1>a, PassStops DEF TimedPass, StillThere
<1>16. CASE Announce
  BY <1>0, <1>16 DEF Announce, timerVars, Stopped, GameOverOnce, Ended, TypeOK
<1>17. CASE Restart
  BY <1>17 DEF Restart, endVars, Stopped, GameOverOnce, Ended
<1>18. CASE UNCHANGED vars
  BY <1>18 DEF vars, endVars, timerVars, Stopped, GameOverOnce, Ended
<1> QED
  BY <1>1, <1>2, <1>3, <1>4, <1>5, <1>6, <1>7, <1>8, <1>9, <1>10, <1>11, <1>12, <1>13,
     <1>14, <1>15, <1>16, <1>17, <1>18 DEF Next, Handler, Clock

(* A new room has no ending.                                                *)
LEMMA InitStops == Init => Stopped
BY DEF Init, Stopped, GameOverOnce, Ended, NoOutcome

(* An ended game has exactly one ending announced or due, and no            *)
(* abandonment timer in charge.                                             *)
THEOREM StoppedAlways == Spec => [](Typed /\ Stopped)
<1>1. Init => Typed /\ Stopped
  BY InitTyped, InitStops
<1>2. (Typed /\ Stopped) /\ [Next]_vars => (Typed /\ Stopped)'
  BY NextTyped, NextStops
<1> QED
  BY <1>1, <1>2, PTL DEF Spec

(* A game ends once: one ending is announced or about to be when it has     *)
(* ended, and none before.                                                  *)
THEOREM EndsOnce == Spec => []GameOverOnce
BY StoppedAlways, PTL DEF Stopped

(* Nothing that was waiting for the lock changes a game that has ended. *)
THEOREM EndIsFinal == Spec => FrozenAfterEnd
<1>1. Typed /\ Stopped /\ [Next]_vars => [Ended => UNCHANGED <<gameVars, outcome>>]_vars
  <2> SUFFICES ASSUME Typed, Stopped, Next, Ended
               PROVE  UNCHANGED <<gameVars, outcome>>
    BY DEF vars
  <2>1. ASSUME NEW c \in open, Handler(c) PROVE FALSE
    BY <2>1 DEF Handler, HandleMove, HandlePassPhase, HandleCastSpell, HandleResign,
       HandleDrawOffer, HandleDrawResponse
  <2>2. ASSUME NEW c \in open, Leave(c) PROVE UNCHANGED <<gameVars, outcome>>
    BY <2>2 DEF Leave, endVars
  <2>3. ASSUME NEW t \in armed, TimerFires(t) PROVE UNCHANGED <<gameVars, outcome>>
    BY <2>3 DEF TimerFires, endVars
  <2>4. ASSUME NEW t \in fired, Abandon(t) PROVE UNCHANGED <<gameVars, outcome>>
    <3>1. disc[t[1]] # t[2]
      BY ConnParts DEF Typed, TypeOK, Stopped
    <3> QED
      BY <3>1, <2>4 DEF Abandon, GoesOn, endVars, gameVars, matchVars, boardVars
  <2>5. ASSUME NEW p \in Player, Rejoin(p) PROVE FALSE
    BY <2>5 DEF Rejoin
  <2>6. CASE Reconnect \/ Announce
    BY <2>6 DEF Reconnect, Announce
  <2>7. CASE Clock
    BY <2>7 DEF Clock, ClockTick, ClockTooLate, ExpireMove, ExpireMain, TimedPass,
       StillThere, endVars
  <2>8. CASE Restart
    BY <2>8 DEF Restart
  <2> QED
    BY <2>1, <2>2, <2>3, <2>4, <2>5, <2>6, <2>7, <2>8 DEF Next
<1> QED
  BY <1>1, StoppedAlways, PTL DEF Spec, FrozenAfterEnd

(* Everybody who is connected after the announcement knows that the game is *)
(* over: whoever reconnects then finds it ended.                            *)
THEOREM EndReachesAll == Spec => []EndIsKnown
<1>1. Init => EndIsKnown
  BY DEF Init, EndIsKnown
<1>2. Typed /\ Stopped /\ EndIsKnown /\ [Next]_vars => EndIsKnown'
  <2> SUFFICES ASSUME Typed, Stopped, EndIsKnown, [Next]_vars, announced' > 0,
                      NEW p \in Player, <<p, client'[p]>> \in open'
               PROVE  informed'[p]
    BY DEF EndIsKnown
  <2>0. announced > 0 => Ended
    BY DEF Typed, TypeOK, Stopped, GameOverOnce
  <2>1. ASSUME UNCHANGED <<announced, informed, client>>, open' \subseteq open
        PROVE  informed'[p]
    BY <2>1 DEF EndIsKnown
  <2>2. ASSUME NEW c \in open, Handler(c) PROVE UNCHANGED <<announced, informed, client, open>>
    BY <2>2 DEF Handler, HandleMove, HandlePassPhase, HandleCastSpell, HandleResign,
       HandleDrawOffer, HandleDrawResponse, Pass, RolloverEnd, ChessEnd, Finish, GoesOn,
       endVars, connVars
  <2>3. ASSUME NEW c \in open, Leave(c)
        PROVE  UNCHANGED <<announced, informed, client>> /\ open' \subseteq open
    BY <2>3 DEF Leave, endVars
  <2>4. ASSUME (\E t \in armed : TimerFires(t)) \/ (\E t \in fired : Abandon(t))
        PROVE  UNCHANGED <<announced, informed, client, open>>
    BY <2>4 DEF TimerFires, Abandon, Finish, GoesOn, endVars, connVars
  <2>5. ASSUME \E q \in Player : Rejoin(q)
        PROVE  UNCHANGED <<announced, informed, client, open>>
    BY <2>5 DEF Rejoin, endVars
  <2>6. CASE Reconnect
    <3>1. Ended
      BY <2>0, <2>6 DEF Reconnect
    <3>2. CASE p = joining
      BY <3>1, <3>2, <2>6 DEF Reconnect, Typed, TypeOK
    <3>3. CASE p # joining
      <4>1. <<p, client[p]>> \in open
        BY <3>3, <2>6 DEF Reconnect, Typed, TypeOK
      <4> QED
        BY <4>1, <3>3, <2>6 DEF Reconnect, Typed, TypeOK, EndIsKnown
    <3> QED
      BY <3>2, <3>3
  <2>7. ASSUME Clock
        PROVE  UNCHANGED <<announced, informed, client, open>>
    BY <2>7 DEF Clock, ClockTick, ClockTooLate, ExpireMove, ExpireMain, TimedPass, Pass,
       RolloverEnd, ChessEnd, Finish, GoesOn, endVars, connVars
  <2>8. CASE Announce
    BY <2>8 DEF Announce
  <2>9. CASE Restart
    BY <2>9 DEF Restart
  <2>10. CASE UNCHANGED vars
    BY <2>10, <2>1 DEF vars, endVars, connVars
  <2> QED
    BY <2>1, <2>2, <2>3, <2>4, <2>5, <2>6, <2>7, <2>8, <2>9, <2>10 DEF Next
<1> QED
  BY <1>1, <1>2, StoppedAlways, PTL DEF Spec

-----------------------------------------------------------------------------
(* Connections and the abandonment timers. *)

(* Whoever is absent has a timer; and the timer in charge of a player of a  *)
(* running game belongs to the player's last connection, which is gone.     *)
Watched ==
    /\ DisconnectedIsTimed
    /\ ~Ended => \A p \in Player :
          disc[p] # 0 => disc[p] = client[p] /\ <<p, client[p]>> \notin open

(* Steps that do not touch connections, or that end the game. *)
LEMMA WatchedKept ==
    ASSUME Watched,
           Ended' \/ (~Ended /\ UNCHANGED <<client, open, disc, armed, fired>>)
    PROVE  Watched'
BY DEF Watched, DisconnectedIsTimed

(* No handler touches the connections or, unless the game ends, their       *)
(* timers.                                                                  *)
LEMMA HandlerQuiet ==
    ASSUME TypeOK, NEW c \in open, Handler(c)
    PROVE  Ended' \/ (~Ended /\ UNCHANGED <<client, open, disc, armed, fired>>)
<1>0. EndTyped /\ c[1] \in Player /\ Opponent(c[1]) \in Player /\ active \in Player
  BY ConnParts, OpponentPlayer, TypeParts DEF TypeOK, currentPhaseKey, RestAt, Rest
<1>1. ASSUME ~Ended, GoesOn, UNCHANGED <<connVars, fired>>
      PROVE  ~Ended /\ UNCHANGED <<client, open, disc, armed, fired>>
  BY <1>1 DEF GoesOn, connVars
<1>2. CASE HandleMove(c)
  BY <1>0, <1>1, <1>2, ChessEndEnds DEF HandleMove
<1>3. CASE HandlePassPhase(c)
  <2>1. active' \in Player
    BY <1>0, <1>3, PassTyped DEF HandlePassPhase, currentPhaseKey, RestAt, Rest
  <2> QED
    BY <2>1, <1>0, <1>1, <1>3, ChessEndEnds DEF HandlePassPhase, Pass, RolloverEnd
<1>4. CASE HandleCastSpell(c)
  <2>1. PICK r \in {currentPhaseKey} \cup NextRest(currentPhaseKey) : RestsAt(r)
    BY <1>4 DEF HandleCastSpell
  <2>2. r \in Rest /\ active' = r.active
    BY <2>1, KeyIsRest, NextRestCases DEF RestsAt
  <2>3. active' \in Player
    BY <2>2 DEF Rest
  <2> QED
    BY <2>3, <1>0, <1>1, <1>4, ChessEndEnds DEF HandleCastSpell, RolloverEnd
<1>5. CASE HandleResign(c)
  BY <1>0, <1>5, FinishEnds DEF HandleResign
<1>6. CASE HandleDrawOffer(c)
  BY <1>6 DEF HandleDrawOffer, connVars, timerVars
<1>7. CASE HandleDrawResponse(c)
  BY <1>0, <1>1, <1>7, FinishEnds DEF HandleDrawResponse
<1> QED
  BY <1>2, <1>3, <1>4, <1>5, <1>6, <1>7 DEF Handler

(* Neither does the clock.                                                  *)
LEMMA ClockQuiet ==
    ASSUME TypeOK, Clock
    PROVE  Ended' \/ UNCHANGED <<client, open, disc, armed, fired, outcome>>
<1>0. EndTyped /\ active \in Player /\ Opponent(active) \in Player
  BY OpponentPlayer, TypeParts DEF TypeOK, currentPhaseKey, RestAt, Rest
<1>1. CASE ClockTick \/ ClockTooLate
  BY <1>1 DEF ClockTick, ClockTooLate, connVars, timerVars, endVars
<1>2. CASE ExpireMove
  BY <1>0, <1>2, FinishEnds DEF ExpireMove, GoesOn, connVars, endVars
<1>3. CASE ExpireMain
  BY <1>0, <1>3, FinishEnds DEF ExpireMain, GoesOn, connVars, endVars
<1>4. CASE TimedPass
  <2>1. active' \in Player
    BY <1>0, <1>4, PassTyped DEF TimedPass, currentPhaseKey, RestAt, Rest
  <2> QED
    BY <2>1, <1>0, <1>4, ChessEndEnds DEF TimedPass, Pass, RolloverEnd, GoesOn, connVars, endVars
<1> QED
  BY <1>1, <1>2, <1>3, <1>4 DEF Clock

(* Leave starts the timer of the connection that broke, if it was current.  *)
LEMMA LeaveWatched ==
    ASSUME Typed, Watched, NEW c \in open, Leave(c)
    PROVE  Watched'
<1>0. TypeOK /\ c \in Conn /\ c[1] \in Player /\ c = <<c[1], c[2]>>
  BY ConnParts DEF Typed, TypeOK
<1>1. client' = client /\ fired' = fired /\ (Ended' <=> Ended) /\ open' = open \ {c}
  BY DEF Leave, endVars, Ended
<1>2. ASSUME NEW p \in Player, ~Ended, client[p] # 0, <<p, client[p]>> \notin open'
      PROVE  disc'[p] = client[p] /\ <<p, client[p]>> \in armed' \cup fired
  <2>1. CASE c = <<p, client[p]>>
    <3>1. c[1] = p /\ c[2] = client[p]
      BY <2>1
    <3>2. disc'[p] = client[p]
      BY <1>0, <1>2, <3>1 DEF Leave, TypeOK
    <3>3. c \in armed'
      BY <1>2, <3>1 DEF Leave
    <3> QED
      BY <2>1, <3>2, <3>3
  <2>2. CASE c # <<p, client[p]>>
    <3>1. <<p, client[p]>> \notin open
      BY <1>1, <1>2, <2>2
    <3>2. disc[p] = client[p] /\ <<p, client[p]>> \in armed \cup fired
      BY <1>2, <3>1 DEF Watched, DisconnectedIsTimed
    <3>3. CASE client[c[1]] = c[2]
      <4>1. c[1] # p
        BY <3>3, <2>2, <1>0
      <4>2. disc'[p] = disc[p]
        BY <4>1, <1>0, <1>2, <3>3 DEF Leave, TypeOK
      <4>3. <<p, client[p]>> # <<c[1], disc[c[1]]>>
        BY <4>1
      <4> QED
        BY <4>2, <4>3, <3>2, <3>3, <1>2 DEF Leave
    <3>4. CASE client[c[1]] # c[2]
      BY <3>2, <3>4 DEF Leave
    <3> QED
      BY <3>3, <3>4
  <2> QED
    BY <2>1, <2>2
<1>3. ASSUME NEW p \in Player, ~Ended, disc'[p] # 0
      PROVE  disc'[p] = client[p] /\ <<p, client[p]>> \notin open'
  <2>1. CASE client[c[1]] = c[2] /\ c[1] = p
    BY <2>1, <1>0, <1>1, <1>3 DEF Leave, TypeOK
  <2>2. CASE ~(client[c[1]] = c[2] /\ c[1] = p)
    <3>1. disc'[p] = disc[p]
      BY <2>2, <1>0, <1>3 DEF Leave, TypeOK
    <3> QED
      BY <3>1, <1>1, <1>3 DEF Watched
  <2> QED
    BY <2>1, <2>2
<1> QED
  BY <1>1, <1>2, <1>3 DEF Watched, DisconnectedIsTimed

(* The abandonment callback takes no timer away from a running game.        *)
LEMMA AbandonWatched ==
    ASSUME Typed, Stopped, Watched, NEW t \in fired, Abandon(t)
    PROVE  Watched'
<1>0. TypeOK /\ t \in Conn /\ t[1] \in Player /\ t = <<t[1], t[2]>>
      /\ Opponent(t[1]) \in Player
  BY ConnParts, OpponentPlayer DEF Typed, TypeOK
<1>1. CASE disc[t[1]] = t[2]
  <2>1. Ended'
    BY <1>0, <1>1, TypeParts, FinishEnds DEF Abandon
  <2> QED
    BY <2>1, WatchedKept
<1>2. CASE disc[t[1]] # t[2]
  <2>1. UNCHANGED <<client, open, disc, armed, outcome>> /\ fired' = fired \ {t}
    BY <1>2 DEF Abandon, GoesOn, connVars, endVars
  <2>2. ASSUME NEW p \in Player, disc[p] = client[p]
        PROVE  t # <<p, client[p]>>
    BY <1>0, <1>2, <2>2
  <2> QED
    BY <2>1, <2>2 DEF Watched, DisconnectedIsTimed, Ended
<1> QED
  BY <1>1, <1>2

(* Reconnect stops the timer of the player who is back, and only that one.  *)
LEMMA ReconnectWatched ==
    ASSUME Typed, Watched, Reconnect
    PROVE  Watched'
<1>0. TypeOK /\ joining \in Player
  BY DEF Typed, TypeOK, Reconnect
<1>1. /\ client' = [client EXCEPT ![joining] = @ + 1]
      /\ open' = open \cup {<<joining, client[joining] + 1>>}
      /\ disc' = [disc EXCEPT ![joining] = 0]
      /\ armed' = armed \ {<<joining, disc[joining]>>}
      /\ fired' = fired /\ outcome' = outcome
  BY DEF Reconnect
<1>2. /\ client'[joining] = client[joining] + 1
      /\ disc'[joining] = 0
      /\ <<joining, client'[joining]>> \in open'
  BY <1>0, <1>1 DEF TypeOK
<1>3. ASSUME NEW p \in Player, p # joining
      PROVE  /\ client'[p] = client[p] /\ disc'[p] = disc[p]
             /\ <<p, client[p]>> \in open' <=> <<p, client[p]>> \in open
             /\ <<p, client[p]>> \in armed => <<p, client[p]>> \in armed'
  BY <1>0, <1>1, <1>3 DEF TypeOK
<1> QED
  BY <1>1, <1>2, <1>3 DEF Watched, DisconnectedIsTimed, Ended

(* Every step keeps the absent timed and the present untimed.               *)
LEMMA NextWatched == Typed /\ Stopped /\ Watched /\ [Next]_vars => Watched'
<1> SUFFICES ASSUME Typed, Stopped, Watched, [Next]_vars PROVE Watched'
  OBVIOUS
<1>0. TypeOK
  BY DEF Typed
<1>1. ASSUME NEW c \in open, Handler(c) PROVE Watched'
  BY <1>0, <1>1, HandlerQuiet, WatchedKept
<1>2. ASSUME NEW c \in open, Leave(c) PROVE Watched'
  BY <1>2, LeaveWatched
<1>3. ASSUME NEW t \in armed, TimerFires(t) PROVE Watched'
  BY <1>3 DEF TimerFires, connVars, endVars, Watched, DisconnectedIsTimed, Ended
<1>4. ASSUME NEW t \in fired, Abandon(t) PROVE Watched'
  BY <1>4, AbandonWatched
<1>5. ASSUME NEW p \in Player, Rejoin(p) PROVE Watched'
  BY <1>5, WatchedKept DEF Rejoin, timerVars, endVars, Ended
<1>6. CASE Reconnect
  BY <1>6, ReconnectWatched
<1>7. CASE Clock
  BY <1>0, <1>7, ClockQuiet DEF Watched, DisconnectedIsTimed, Ended
<1>8. CASE Announce
  BY <1>8 DEF Announce, connVars, timerVars, Watched, DisconnectedIsTimed, Ended
<1>9. CASE Restart
  BY <1>9 DEF Restart, Watched, DisconnectedIsTimed
<1>10. CASE UNCHANGED vars
  BY <1>10 DEF vars, connVars, timerVars, endVars, Watched, DisconnectedIsTimed, Ended
<1> QED
  BY <1>1, <1>2, <1>3, <1>4, <1>5, <1>6, <1>7, <1>8, <1>9, <1>10 DEF Next

(* In a new room both players are present and no timer runs.                *)
LEMMA InitWatched == Init => Watched
BY DEF Init, Watched, DisconnectedIsTimed

(* In a running game exactly the absent players are in charge of a timer,   *)
(* each with the number of its broken connection.                           *)
THEOREM WatchedAlways == Spec => []Watched
<1>1. Typed /\ Stopped /\ [Next]_vars /\ Watched => Watched'
  BY NextWatched
<1> QED
  BY <1>1, InitWatched, StoppedAlways, PTL DEF Spec

(* A player of a running game whose connection is gone has an abandonment   *)
(* timer, running or about to call, whatever the order of leaves, returns   *)
(* and replaced connections.                                                *)
THEOREM AbsentAreTimed == Spec => []DisconnectedIsTimed
BY WatchedAlways, PTL DEF Watched

(* No player loses by abandonment while connected: the callback that gets   *)
(* the lock after the player has returned finds another timer, or none.     *)
THEOREM PresentDoNotForfeit == Spec => NoForfeitWhilePresent
<1> DEFINE Fair == \A p \in Player :
       ~Ended /\ outcome' = [result |-> Opponent(p), reason |-> "abandonment"]
           => <<p, client[p]>> \notin open
<1>1. Typed /\ Stopped /\ Watched /\ [Next]_vars => [Fair]_vars
  <2> SUFFICES ASSUME Typed, Stopped, Watched, Next,
                      NEW p \in Player, ~Ended,
                      outcome' = [result |-> Opponent(p), reason |-> "abandonment"]
               PROVE  <<p, client[p]>> \notin open
    BY DEF vars
  <2>0. outcome' # outcome /\ outcome'.result = Opponent(p) /\ outcome'.reason = "abandonment"
    BY DEF Ended, NoOutcome
  <2>1. ASSUME NEW c \in open, Handler(c) PROVE FALSE
    BY <2>0, <2>1 DEF Handler, HandleMove, HandlePassPhase, HandleCastSpell, HandleResign,
       HandleDrawOffer, HandleDrawResponse, Pass, RolloverEnd, ChessEnd, Finish, GoesOn, endVars
  <2>2. ASSUME Clock PROVE FALSE
    BY <2>0, <2>2 DEF Clock, ClockTick, ClockTooLate, ExpireMove, ExpireMain, TimedPass, Pass,
       RolloverEnd, ChessEnd, Finish, GoesOn, endVars
  <2>3. ASSUME NEW t \in fired, Abandon(t) PROVE <<p, client[p]>> \notin open
    <3>1. t[1] \in Player /\ t[2] # 0
      BY ConnParts DEF Typed, TypeOK
    <3>2. disc[t[1]] = t[2] /\ Finish(Opponent(t[1]), "abandonment")
      BY <2>0, <2>3 DEF Abandon, GoesOn, endVars
    <3>3. t[1] = p
      BY <2>0, <3>1, <3>2, OpponentPlayer DEF Finish
    <3> QED
      BY <3>1, <3>2, <3>3 DEF Watched
  <2> QED
    BY <2>0, <2>1, <2>2, <2>3 DEF Next, Leave, TimerFires, Rejoin, Reconnect, Announce,
       Restart, endVars
<1> QED
  BY <1>1, StoppedAlways, WatchedAlways, PTL DEF Spec, NoForfeitWhilePresent

(* A game ends once, and everyone connected learns of it. *)
THEOREM EndIsSettled == Spec => []EndsOnceAndKnown
<1>1. GameOverOnce /\ EndIsKnown => EndsOnceAndKnown
  BY DEF EndsOnceAndKnown
<1> QED
  BY <1>1, EndsOnce, EndReachesAll, PTL
-----------------------------------------------------------------------------
(***************************************************************************)
(* The turns of a room: the board and the match agree on whose turn it is, *)
(* Fretta's second move stays in the turn it was granted to, every turn    *)
(* has its move, and strikes are counted once a phase, which then ends.    *)
(***************************************************************************)
(* Before Fretta's second move the turn has had one move. *)
OneMoveSoFar == ~Ended /\ extra.active => plies <= 2 * (turn - 1) + 1

InTurn ==
    /\ SideInStep
    /\ ExtraSound
    /\ EveryTurnMoves
    /\ OneMoveSoFar

(* The variables InTurn speaks of. *)
turnVars == <<phase, turn, active, side, plies, extra>>

(* A step that changes neither the turn nor the board keeps the turn        *)
(* invariant.                                                               *)
LEMMA InTurnKept ==
    ASSUME InTurn, Ended' \/ (~Ended /\ UNCHANGED turnVars)
    PROVE  InTurn'
BY DEF InTurn, SideInStep, ExtraSound, EveryTurnMoves, OneMoveSoFar, turnVars

(* The match moved on to r. *)
LEMMA RestsAtParts ==
    ASSUME NEW r, RestsAt(r)
    PROVE  phase' = r.phase /\ turn' = r.turn /\ active' = r.active
BY DEF RestsAt

(* currentPhaseKey is a record of the three variables, all typed.           *)
LEMMA StateParts ==
    ASSUME TypeOK
    PROVE  /\ phase \in {"main1", "move", "main2"}
           /\ turn \in Nat \ {0} /\ active \in Player
           /\ currentPhaseKey.phase = phase
           /\ currentPhaseKey.turn = turn
           /\ currentPhaseKey.active = active
           /\ side \in Player /\ plies \in Nat
BY DEF TypeOK, currentPhaseKey, RestAt, Rest, RestPhases

(* Where a walk out of the present rest leads. *)
LEMMA Walk ==
    ASSUME TypeOK, \E r \in NextRest(currentPhaseKey) : RestsAt(r)
    PROVE  \/ /\ phase = "main1" /\ phase' = "move"
              /\ turn' = turn /\ active' = active
           \/ /\ phase = "move" /\ phase' = "main2"
              /\ turn' = turn /\ active' = active
           \/ /\ phase \in {"move", "main2"} /\ phase' \in {"main1", "move"}
              /\ turn' = turn + 1 /\ active' = Opponent(active)
<1>1. PICK r \in NextRest(currentPhaseKey) : RestsAt(r)
  OBVIOUS
<1>2. currentPhaseKey \in Rest
  BY KeyIsRest
<1> QED
  BY <1>1, <1>2, NextRestCases, StateParts, RestsAtParts DEF RestAt

(* A legal move (handleMove) keeps board, turn, grant and move count in     *)
(* step.                                                                    *)
LEMMA MoveInTurn ==
    ASSUME Typed, InTurn, NEW c \in open, HandleMove(c)
    PROVE  InTurn'
<1>0. TypeOK /\ ~Ended /\ c[1] \in Player /\ EndTyped
  BY ConnParts, TypeParts DEF Typed, TypeOK, HandleMove
<1>1. /\ c[1] = side /\ phase = "move" /\ plies' = plies + 1
      /\ side = active
  BY <1>0, StateParts DEF HandleMove, Allows, InTurn, SideInStep
<1>2. extra = NoExtra \/ (extra.player = active /\ extra.turn = turn)
  BY <1>0 DEF InTurn, ExtraSound
<1>3. CASE ChessEnd(Opponent(c[1]))
  BY <1>3, <1>0, ChessEndEnds, OpponentPlayer, InTurnKept
<1>4. CASE /\ ~extraActive /\ extraGranted(c[1])
           /\ extra' = [extra EXCEPT !.active = TRUE]
           /\ UNCHANGED <<matchVars, side>>
  <2>1. extra \in ExtraType
    BY <1>0 DEF TypeOK, ExtraType
  <2>2. extra'.player = extra.player /\ extra'.turn = extra.turn /\ extra'.active
    BY <1>4, <2>1 DEF ExtraType
  <2>3. ~extra.active /\ extra.player = active /\ extra.turn = turn
    BY <1>4, <1>1 DEF extraActive, extraGranted
  <2>4. phase' = phase /\ turn' = turn /\ active' = active /\ side' = side
    BY <1>4 DEF matchVars
  <2>5. turn - 1 <= plies /\ plies <= 2 * (turn - 1)
    BY <1>0, <1>1, <2>3, StateParts DEF InTurn, EveryTurnMoves
  <2>6. SideInStep' /\ ExtraSound'
    BY <1>1, <2>2, <2>3, <2>4 DEF SideInStep, ExtraSound
  <2>7. EveryTurnMoves' /\ OneMoveSoFar'
    BY <1>0, <1>1, <2>2, <2>4, <2>5, StateParts DEF EveryTurnMoves, OneMoveSoFar
  <2> QED
    BY <2>6, <2>7 DEF InTurn
<1>5. CASE /\ extra' = IF extraActive \/ extraGranted(c[1]) THEN NoExtra ELSE extra
           /\ side' = Opponent(c[1])
           /\ \E r \in NextRest(currentPhaseKey) : RestsAt(r)
  <2>1. extra' = NoExtra
    BY <1>1, <1>2, <1>5 DEF extraActive, extraGranted
  <2>2. ~extra'.active
    BY <2>1 DEF NoExtra
  <2>3. \/ phase' = "main2" /\ turn' = turn /\ active' = active
        \/ /\ phase' \in {"main1", "move"}
           /\ turn' = turn + 1 /\ active' = Opponent(active)
    BY <1>0, <1>1, <1>5, Walk
  <2>4. turn - 1 <= plies /\ plies <= 2 * (turn - 1) + 1
    BY <1>0, <1>1, StateParts DEF InTurn, EveryTurnMoves, OneMoveSoFar
  <2>5. SideInStep' /\ ExtraSound'
    BY <1>1, <1>5, <2>1, <2>3 DEF SideInStep, ExtraSound
  <2>6. EveryTurnMoves' /\ OneMoveSoFar'
    BY <1>0, <1>1, <2>2, <2>3, <2>4, StateParts DEF EveryTurnMoves, OneMoveSoFar
  <2> QED
    BY <2>5, <2>6 DEF InTurn
<1> QED
  BY <1>3, <1>4, <1>5 DEF HandleMove

(* So does leaving a phase, or skipping the second move (passPhase).        *)
LEMMA PassInTurn ==
    ASSUME Typed, InTurn, ~Ended, Pass(active)
    PROVE  InTurn'
<1>0. TypeOK /\ EndTyped /\ active \in Player
  BY TypeParts, StateParts DEF Typed
<1>1. \E r \in NextRest(currentPhaseKey) : RestsAt(r)
  BY DEF Pass
<1>2. plies' = plies
  BY DEF Pass
<1>3. CASE extraActive /\ side' = Opponent(active) /\ extra' = NoExtra
  <2>1. extra # NoExtra
    BY <1>3 DEF extraActive, NoExtra
  <2>2. phase = "move" /\ extra.active
    BY <1>3, <2>1 DEF InTurn, ExtraSound, extraActive
  <2>3. ~extra'.active
    BY <1>3 DEF NoExtra
  <2>4. turn - 1 + 1 <= plies /\ plies <= 2 * (turn - 1) + 1
    BY <1>0, <2>2, StateParts DEF InTurn, EveryTurnMoves, OneMoveSoFar
  <2>5. \/ phase' = "main2" /\ turn' = turn /\ active' = active
        \/ /\ phase' \in {"main1", "move"}
           /\ turn' = turn + 1 /\ active' = Opponent(active)
    BY <1>0, <1>1, <2>2, Walk
  <2>6. SideInStep' /\ ExtraSound'
    BY <1>3, <2>5 DEF SideInStep, ExtraSound
  <2>7. EveryTurnMoves' /\ OneMoveSoFar'
    BY <1>0, <1>2, <2>3, <2>4, <2>5, StateParts DEF EveryTurnMoves, OneMoveSoFar
  <2> QED
    BY <2>6, <2>7 DEF InTurn
<1>4. CASE Allows(phase, "pass_phase") /\ UNCHANGED <<side, extra>>
  <2>1. phase \in {"main1", "main2"}
    BY <1>0, <1>4, StateParts DEF Allows
  <2>2. ~extra.active
    BY <2>1 DEF InTurn, ExtraSound, NoExtra
  <2>3. CASE phase = "main1"
    <3>1. phase' = "move" /\ turn' = turn /\ active' = active
      BY <1>0, <1>1, <2>3, Walk
    <3>2. SideInStep' /\ ExtraSound'
      BY <1>4, <2>2, <2>3, <3>1 DEF InTurn, SideInStep, ExtraSound, Ended
    <3>3. EveryTurnMoves' /\ OneMoveSoFar'
      BY <1>0, <1>2, <1>4, <2>2, <2>3, <3>1, StateParts DEF InTurn, EveryTurnMoves, OneMoveSoFar
    <3> QED
      BY <3>2, <3>3 DEF InTurn
  <2>4. CASE phase = "main2"
    <3>1. phase' \in {"main1", "move"} /\ turn' = turn + 1 /\ active' = Opponent(active)
      BY <1>0, <1>1, <2>4, Walk
    <3>2. extra = NoExtra
      BY <2>4 DEF InTurn, ExtraSound
    <3>3. SideInStep' /\ ExtraSound'
      BY <1>4, <2>4, <3>1, <3>2 DEF InTurn, SideInStep, ExtraSound
    <3>4. EveryTurnMoves' /\ OneMoveSoFar'
      BY <1>0, <1>2, <1>4, <2>2, <2>4, <3>1, StateParts DEF InTurn, EveryTurnMoves, OneMoveSoFar
    <3> QED
      BY <3>3, <3>4 DEF InTurn
  <2> QED
    BY <2>1, <2>3, <2>4
<1> QED
  BY <1>3, <1>4 DEF Pass

(* So does a spell that resolves (handleCastSpell), Fretta included.        *)
LEMMA CastInTurn ==
    ASSUME Typed, InTurn, NEW c \in open, HandleCastSpell(c)
    PROVE  InTurn'
<1>0. TypeOK /\ ~Ended /\ c[1] = active /\ active \in Player
  BY StateParts DEF Typed, HandleCastSpell
<1>1. phase \in MainPhases /\ plies' = plies /\ side' = side
  BY DEF HandleCastSpell, Allows
<1>2. ~extra.active
  BY <1>0, <1>1 DEF InTurn, ExtraSound, NoExtra, MainPhases
<1>3. /\ ~extra'.active
      /\ \/ extra' = extra
         \/ phase = "main1" /\ extra'.player = active /\ extra'.turn = turn
  BY <1>0, <1>2 DEF HandleCastSpell
<1>4. \/ phase' = phase /\ turn' = turn /\ active' = active
      \/ \E r \in NextRest(currentPhaseKey) : RestsAt(r)
  BY <1>0, StateParts, RestsAtParts DEF HandleCastSpell
<1>5. \/ phase' = phase /\ turn' = turn /\ active' = active
      \/ phase = "main1" /\ phase' = "move" /\ turn' = turn /\ active' = active
      \/ /\ phase = "main2" /\ phase' \in {"main1", "move"}
         /\ turn' = turn + 1 /\ active' = Opponent(active)
  BY <1>0, <1>1, <1>4, Walk DEF MainPhases
<1>6. SideInStep'
  BY <1>0, <1>1, <1>5 DEF InTurn, SideInStep, MainPhases
<1>7. ExtraSound'
  <2>1. CASE phase = "main1"
    BY <2>1, <1>0, <1>3, <1>5 DEF InTurn, ExtraSound
  <2>2. CASE phase = "main2"
    BY <2>2, <1>0, <1>3 DEF InTurn, ExtraSound
  <2> QED
    BY <2>1, <2>2, <1>1 DEF MainPhases
<1>8. EveryTurnMoves' /\ OneMoveSoFar'
  BY <1>0, <1>1, <1>2, <1>3, <1>5, StateParts DEF InTurn, EveryTurnMoves, OneMoveSoFar, MainPhases
<1> QED
  BY <1>6, <1>7, <1>8 DEF InTurn

(* Every step of the room keeps the turn invariant.                         *)
LEMMA NextInTurn == Typed /\ Stopped /\ InTurn /\ [Next]_vars => InTurn'
<1> SUFFICES ASSUME Typed, Stopped, InTurn, [Next]_vars PROVE InTurn'
  OBVIOUS
<1>0. TypeOK /\ EndTyped /\ active \in Player /\ Opponent(active) \in Player
  BY TypeParts, StateParts, OpponentPlayer DEF Typed
<1>1. ASSUME UNCHANGED <<turnVars, outcome>> PROVE InTurn'
  BY <1>1 DEF InTurn, SideInStep, ExtraSound, EveryTurnMoves, OneMoveSoFar, turnVars, Ended
<1>2. ASSUME NEW c \in open, HandleMove(c) PROVE InTurn'
  BY <1>2, MoveInTurn
<1>3. ASSUME NEW c \in open, HandlePassPhase(c) PROVE InTurn'
  BY <1>3, PassInTurn DEF HandlePassPhase
<1>4. ASSUME NEW c \in open, HandleCastSpell(c) PROVE InTurn'
  BY <1>4, CastInTurn
<1>5. ASSUME NEW c \in open, HandleResign(c) \/ HandleDrawOffer(c) \/ HandleDrawResponse(c)
      PROVE  InTurn'
  <2>1. UNCHANGED turnVars /\ ~Ended
    BY <1>5 DEF HandleResign, HandleDrawOffer, HandleDrawResponse, turnVars, matchVars, boardVars
  <2> QED
    BY <2>1, InTurnKept
<1>6. ASSUME NEW c \in open, Leave(c) PROVE InTurn'
  BY <1>6, <1>1 DEF Leave, gameVars, endVars, turnVars
<1>7. ASSUME NEW t \in armed, TimerFires(t) PROVE InTurn'
  BY <1>7, <1>1 DEF TimerFires, gameVars, endVars, turnVars
<1>8. ASSUME NEW t \in fired, Abandon(t) PROVE InTurn'
  <2>1. t \in Conn /\ Opponent(t[1]) \in Player
    BY ConnParts, OpponentPlayer DEF Typed, TypeOK
  <2>2. CASE Finish(Opponent(t[1]), "abandonment")
    BY <2>1, <2>2, <1>0, FinishEnds, InTurnKept
  <2>3. CASE GoesOn
    BY <2>3, <1>8, <1>1 DEF Abandon, GoesOn, endVars, matchVars, boardVars, turnVars
  <2> QED
    BY <2>2, <2>3, <1>8 DEF Abandon
<1>9. ASSUME NEW p \in Player, Rejoin(p) PROVE InTurn'
  BY <1>9, <1>1 DEF Rejoin, gameVars, endVars, turnVars
<1>10. CASE Reconnect \/ Announce \/ ClockTick \/ ClockTooLate
  BY <1>10, <1>1 DEF Reconnect, Announce, ClockTick, ClockTooLate, gameVars, endVars, turnVars
<1>11. CASE ExpireMove \/ ExpireMain
  <2>1. UNCHANGED turnVars /\ ~Ended
    BY <1>11 DEF ExpireMove, ExpireMain, StillThere, turnVars, matchVars, boardVars
  <2> QED
    BY <2>1, InTurnKept
<1>12. CASE TimedPass
  BY <1>12, PassInTurn DEF TimedPass, StillThere
<1>13. CASE Restart
  BY <1>13, <1>1 DEF Restart, endVars, matchVars, boardVars, turnVars
<1>14. CASE UNCHANGED vars
  BY <1>14, <1>1 DEF vars, gameVars, endVars, turnVars
<1> QED
  BY <1>2, <1>3, <1>4, <1>5, <1>6, <1>7, <1>8, <1>9, <1>10, <1>11, <1>12, <1>13, <1>14
  DEF Next, Handler, Clock

(* A new room satisfies the turn invariant.                                 *)
LEMMA InitInTurn == Init => InTurn
BY DEF Init, InTurn, SideInStep, ExtraSound, EveryTurnMoves, OneMoveSoFar, NoExtra

(* The turn invariant, the conjunction of the three properties, always      *)
(* holds.                                                                   *)
THEOREM InTurnAlways == Spec => []InTurn
<1>1. Typed /\ Stopped /\ [Next]_vars /\ InTurn => InTurn'
  BY NextInTurn
<1> QED
  BY <1>1, InitInTurn, StoppedAlways, PTL DEF Spec

(* The board and the match agree on whose turn it is. *)
THEOREM SidesAgree == Spec => []SideInStep
BY InTurnAlways, PTL DEF InTurn

(* Fretta's second move belongs to the turn and player it was granted to. *)
THEOREM GrantStaysInTurn == Spec => []ExtraSound
BY InTurnAlways, PTL DEF InTurn

(* No turn goes by without a move, and none has more than two. *)
THEOREM TurnsHaveMoves == Spec => []EveryTurnMoves
BY InTurnAlways, PTL DEF InTurn

-----------------------------------------------------------------------------
(* Action properties. *)

(* A draw offer does not survive a move of the player it was made to. *)
THEOREM OffersLapse == Spec => OfferLapses
<1> DEFINE Lapse == plies' # plies /\ offer' # Nobody => offer' = offer /\ offer = side
<1>1. Typed /\ [Next]_vars => [Lapse]_vars
  <2> SUFFICES ASSUME Typed, Next, plies' # plies, offer' # Nobody
               PROVE  offer' = offer /\ offer = side
    BY DEF vars
  <2>1. PICK c \in open : HandleMove(c)
    BY DEF Next, Handler, Clock, HandlePassPhase, HandleCastSpell, HandleResign, HandleDrawOffer,
       HandleDrawResponse, Leave, TimerFires, Abandon, Rejoin, Reconnect, ClockTick, ClockTooLate,
       ExpireMove, ExpireMain, TimedPass, Announce, Restart, Pass, gameVars, boardVars
  <2>2. offer' = OfferAfterMove(c[1]) /\ c[1] = side
    BY <2>1 DEF HandleMove, ChessEnd, Finish
  <2>3. offer \in Player /\ side \in Player /\ offer # Opponent(side) /\ offer' = offer
    BY <2>2 DEF OfferAfterMove, Typed, TypeOK
  <2> QED
    BY <2>3, OpponentPlayer
<1> QED
  BY <1>1, TypedAlways, PTL DEF Spec, OfferLapses

(* Types, side to move, grants and moves of a turn agree in every state.   *)
THEOREM BoardFollowsMatch == Spec => []BoardAndMatch
<1>1. TypeOK /\ SideInStep /\ ExtraSound /\ EveryTurnMoves => BoardAndMatch
  BY DEF BoardAndMatch
<1> QED
  BY <1>1, TypeCorrect, SidesAgree, GrantStaysInTurn, TurnsHaveMoves, PTL
-----------------------------------------------------------------------------
(* Strikes.  A key in silent is of a phase that is over, but for the one of *)
(* a phase whose strike was counted and which is about to be passed; so the *)
(* phase that expires next is a new one.  A restart forgets the pass and    *)
(* not the strike, so the count is exact in a room never restored.          *)

Dated ==
    \A p \in Player : \A k \in silent[p] :
        \/ Rank(k) < Rank(currentPhaseKey)
        \/ k = currentPhaseKey /\ clock.pc = "pass" /\ clock.key = k

Counts == \A p \in Player : IsFiniteSet(silent[p]) /\ strikes[p] = Cardinality(silent[p])

Struck ==
    \A p \in Player :
        (outcome = [result |-> Opponent(p), reason |-> "timeout_strikes"]) <=> strikes[p] = MaxStrikes

Counted == (restarts = 0 => Counts /\ (~Ended => Dated)) /\ Struck

(* The phase the game goes on to ranks after the one it leaves.             *)
LEMMA WalkRanks ==
    ASSUME TypeOK, \E r \in NextRest(currentPhaseKey) : RestsAt(r)
    PROVE  /\ Rank(currentPhaseKey) \in Int /\ Rank(currentPhaseKey') \in Int
           /\ Rank(currentPhaseKey) < Rank(currentPhaseKey')
<1>1. turn \in Nat /\ phase \in {"main1", "move", "main2"}
  BY StateParts
<1>2. currentPhaseKey.phase = phase /\ currentPhaseKey.turn = turn
      /\ currentPhaseKey'.phase = phase' /\ currentPhaseKey'.turn = turn'
  BY DEF currentPhaseKey, RestAt
<1>3. \/ phase = "main1" /\ phase' = "move" /\ turn' = turn
      \/ phase = "move" /\ phase' = "main2" /\ turn' = turn
      \/ phase' \in {"main1", "move"} /\ turn' = turn + 1
  BY Walk
<1> QED
  BY <1>1, <1>2, <1>3 DEF Rank

(* The strikes counted stay counted, or the player's are forgotten.         *)
Forgiven ==
    \/ UNCHANGED <<strikes, silent>>
    \/ \E p \in Player : resetStrikes(p)

LEMMA ForgivenCounts ==
    ASSUME TypeOK, Counts, Forgiven
    PROVE  /\ Counts'
           /\ \A p \in Player : silent'[p] \subseteq silent[p] /\ strikes'[p] \in {0, strikes[p]}
<1>1. CASE UNCHANGED <<strikes, silent>>
  BY <1>1 DEF Counts
<1>2. ASSUME NEW p \in Player, resetStrikes(p)
      PROVE  /\ Counts'
             /\ \A q \in Player : silent'[q] \subseteq silent[q] /\ strikes'[q] \in {0, strikes[q]}
  <2>1. \A q \in Player : /\ silent'[q] = IF q = p THEN {} ELSE silent[q]
                          /\ strikes'[q] = IF q = p THEN 0 ELSE strikes[q]
    BY <1>2 DEF resetStrikes, TypeOK
  <2>2. IsFiniteSet({}) /\ Cardinality({}) = 0
    BY FS_EmptySet
  <2>3. \A q \in Player : IsFiniteSet(silent'[q]) /\ strikes'[q] = Cardinality(silent'[q])
    BY <2>1, <2>2 DEF Counts
  <2> QED
    BY <2>1, <2>3 DEF Counts
<1> QED
  BY <1>1, <1>2 DEF Forgiven

(* The same of the strikes alone, in any room.                              *)
LEMMA ForgivenStrikes ==
    ASSUME TypeOK, Forgiven
    PROVE  \A p \in Player : strikes'[p] \in {0, strikes[p]} /\ silent'[p] \subseteq silent[p]
<1>1. ASSUME NEW p \in Player, resetStrikes(p)
      PROVE  \A q \in Player : strikes'[q] \in {0, strikes[q]} /\ silent'[q] \subseteq silent[q]
  <2>1. \A q \in Player : /\ silent'[q] = IF q = p THEN {} ELSE silent[q]
                          /\ strikes'[q] = IF q = p THEN 0 ELSE strikes[q]
    BY <1>1 DEF resetStrikes, TypeOK
  <2> QED
    BY <2>1
<1> QED
  BY <1>1 DEF Forgiven

(* A game that goes on with its strikes forgiven or kept has none too many. *)
LEMMA StruckKept ==
    ASSUME Typed, Struck, ~Ended, Forgiven,
           \/ outcome' = outcome
           \/ \E result, reason : reason # "timeout_strikes" /\ outcome' = [result |-> result, reason |-> reason]
    PROVE  Struck'
<1>1. ASSUME NEW p \in Player PROVE strikes'[p] # MaxStrikes
  <2>1. strikes[p] < MaxStrikes /\ strikes[p] \in Nat /\ MaxStrikes \in Nat \ {0}
    BY BoundsAssumption DEF Typed, TypeOK
  <2> QED
    BY <2>1, ForgivenStrikes DEF Typed
<1>2. ASSUME NEW p \in Player PROVE outcome' # [result |-> Opponent(p), reason |-> "timeout_strikes"]
  <2>1. CASE outcome' = outcome
    BY <2>1, <1>1 DEF Ended, NoOutcome
  <2>2. ASSUME NEW result, NEW reason, reason # "timeout_strikes", outcome' = [result |-> result, reason |-> reason]
        PROVE  outcome' # [result |-> Opponent(p), reason |-> "timeout_strikes"]
    BY <2>2
  <2> QED
    BY <2>1, <2>2
<1> QED
  BY <1>1, <1>2 DEF Struck

(* What a step of the game in play does to the end of the game.             *)
EndsOtherwise ==
    \/ outcome' = outcome
    \/ \E result, reason : reason # "timeout_strikes" /\ outcome' = [result |-> result, reason |-> reason]

LEMMA ChessEndOtherwise ==
    ASSUME NEW p \in Player, ChessEnd(p)
    PROVE  EndsOtherwise
<1>1. PICK result \in Player \cup {"draw"}, reason \in ChessReasons : Finish(result, reason)
  BY ChessEndFinishes
<1>2. outcome' = [result |-> result, reason |-> reason] /\ reason # "timeout_strikes"
  BY <1>1 DEF Finish, ChessReasons
<1> QED
  BY <1>2 DEF EndsOtherwise

(* A step that forgives or keeps strikes, in a phase that stays or is left, *)
(* keeps the count.                                                         *)
LEMMA CountedKept ==
    ASSUME Typed, Counted, ~Ended, Forgiven, EndsOtherwise, restarts' = restarts,
           \/ Ended'
           \/ currentPhaseKey' = currentPhaseKey /\ clock' = clock
           \/ currentPhaseKey' = currentPhaseKey /\ clock.pc # "pass"
           \/ (\E r \in NextRest(currentPhaseKey) : RestsAt(r))
    PROVE  Counted'
<1>1. Struck'
  BY StruckKept DEF Counted, EndsOtherwise
<1>2. ASSUME restarts' = 0 PROVE Counts'
  BY <1>2, ForgivenCounts DEF Counted, Typed
<1>3. ASSUME restarts' = 0, ~Ended' PROVE Dated'
  <2>1. Dated /\ TypeOK
    BY <1>3 DEF Counted, Typed
  <2>2. SUFFICES ASSUME NEW p \in Player, NEW k \in silent'[p]
                 PROVE  \/ Rank(k) < Rank(currentPhaseKey')
                        \/ k = currentPhaseKey' /\ clock'.pc = "pass" /\ clock'.key = k
    BY DEF Dated
  <2>3. k \in silent[p] /\ k \in Key
    BY <2>1, <2>2, ForgivenStrikes DEF TypeOK
  <2>4. Rank(k) < Rank(currentPhaseKey) \/ (k = currentPhaseKey /\ clock.pc = "pass" /\ clock.key = k)
    BY <2>1, <2>3 DEF Dated
  <2>5. CASE currentPhaseKey' = currentPhaseKey /\ clock' = clock
    BY <2>4, <2>5
  <2>6. CASE currentPhaseKey' = currentPhaseKey /\ clock.pc # "pass"
    BY <2>4, <2>6
  <2>7. CASE \E r \in NextRest(currentPhaseKey) : RestsAt(r)
    <3>1. /\ Rank(currentPhaseKey) \in Int /\ Rank(currentPhaseKey') \in Int
          /\ Rank(currentPhaseKey) < Rank(currentPhaseKey')
      BY <2>1, <2>7, WalkRanks
    <3>2. Rank(k) \in Int
      BY <2>3 DEF Rank, Key
    <3> QED
      BY <2>4, <3>1, <3>2
  <2> QED
    BY <1>3, <2>5, <2>6, <2>7
<1> QED
  BY <1>1, <1>2, <1>3 DEF Counted

(* A pass keeps the count, whoever made it.                                 *)
LEMMA PassCounted ==
    ASSUME Typed, Counted, ~Ended, Pass(active), Forgiven, restarts' = restarts
    PROVE  Counted'
<1>1. \E r \in NextRest(currentPhaseKey) : RestsAt(r)
  BY DEF Pass
<1>2. active' \in Player
  BY PassTyped, StateParts DEF Typed, currentPhaseKey, RestAt, Rest
<1>3. EndsOtherwise
  BY <1>2, ChessEndOtherwise DEF Pass, RolloverEnd, GoesOn, endVars, EndsOtherwise
<1> QED
  BY <1>1, <1>3, CountedKept

(* So does a move, which leaves the strikes as they are.                    *)
LEMMA MoveCounted ==
    ASSUME Typed, Counted, NEW c \in open, HandleMove(c)
    PROVE  Counted'
<1>1. ~Ended /\ Forgiven /\ restarts' = restarts /\ clock' = clock
  BY DEF HandleMove, KeepStrikes, Forgiven
<1>2. Opponent(c[1]) \in Player
  BY ConnParts, OpponentPlayer DEF Typed, TypeOK
<1>3. EndsOtherwise
  BY <1>2, ChessEndOtherwise DEF HandleMove, GoesOn, endVars, EndsOtherwise
<1>4. \/ Ended'
      \/ currentPhaseKey' = currentPhaseKey
      \/ (\E r \in NextRest(currentPhaseKey) : RestsAt(r))
  BY DEF HandleMove, matchVars, currentPhaseKey
<1> QED
  BY <1>1, <1>3, <1>4, CountedKept

(* A spell forgives the strikes of the player who casts it.                 *)
LEMMA CastCounted ==
    ASSUME Typed, Counted, NEW c \in open, HandleCastSpell(c)
    PROVE  Counted'
<1>1. ~Ended /\ c[1] \in Player /\ c[1] = active /\ restarts' = restarts /\ clock' = clock
  BY ConnParts DEF HandleCastSpell, Typed, TypeOK
<1>2. Forgiven
  BY <1>1 DEF HandleCastSpell, Forgiven
<1>3. active' \in Player
  <2>1. PICK r \in {currentPhaseKey} \cup NextRest(currentPhaseKey) : RestsAt(r)
    BY DEF HandleCastSpell
  <2>2. r \in Rest
    BY <2>1, KeyIsRest, NextRestCases DEF Typed
  <2> QED
    BY <2>1, <2>2 DEF RestsAt, Rest
<1>4. EndsOtherwise
  BY <1>1, <1>3, ChessEndOtherwise DEF HandleCastSpell, RolloverEnd, GoesOn, endVars, EndsOtherwise
<1>5. \/ currentPhaseKey' = currentPhaseKey
      \/ (\E r \in NextRest(currentPhaseKey) : RestsAt(r))
  <2>1. PICK r \in {currentPhaseKey} \cup NextRest(currentPhaseKey) : RestsAt(r)
    BY DEF HandleCastSpell
  <2>2. CASE r = currentPhaseKey
    BY <2>1, <2>2 DEF RestsAt, currentPhaseKey, RestAt
  <2> QED
    BY <2>1, <2>2
<1> QED
  BY <1>1, <1>2, <1>4, <1>5, CountedKept

(* The strike of a phase that runs out is a new one.                        *)
LEMMA ExpireMainCounted ==
    ASSUME Typed, Counted, ExpireMain
    PROVE  Counted'
<1>0. /\ TypeOK /\ ~Ended /\ clock.pc = "expire" /\ clock.key = currentPhaseKey
      /\ active \in Player /\ restarts' = restarts /\ currentPhaseKey' = currentPhaseKey
      /\ clock.key \in Key
  BY StateParts DEF Typed, ExpireMain, StillThere, matchVars, currentPhaseKey, TypeOK
<1>1. /\ \A p \in Player : strikes'[p] = IF p = active THEN strikes[p] + 1 ELSE strikes[p]
      /\ \A p \in Player : silent'[p] = IF p = active THEN silent[p] \cup {currentPhaseKey} ELSE silent[p]
  BY <1>0 DEF ExpireMain, TypeOK
<1>2. \A p \in Player : strikes[p] \in Nat /\ strikes[p] < MaxStrikes /\ MaxStrikes \in Nat
  BY <1>0, BoundsAssumption DEF Typed, TypeOK
<1>3. Struck'
  <2>1. CASE strikes'[active] >= MaxStrikes
    <3>1. outcome' = [result |-> Opponent(active), reason |-> "timeout_strikes"]
      BY <2>1 DEF ExpireMain, Finish
    <3>2. strikes'[active] = MaxStrikes
      BY <1>0, <1>1, <1>2, <2>1
    <3>3. ASSUME NEW p \in Player, p # active
          PROVE  strikes'[p] # MaxStrikes /\ Opponent(p) # Opponent(active)
      BY <1>0, <1>1, <1>2, <3>3, OpponentPlayer
    <3> QED
      BY <3>1, <3>2, <3>3 DEF Struck
  <2>2. CASE ~(strikes'[active] >= MaxStrikes)
    <3>1. outcome' = outcome
      BY <2>2 DEF ExpireMain, GoesOn, endVars
    <3>2. \A p \in Player : outcome # [result |-> Opponent(p), reason |-> "timeout_strikes"]
      BY <1>0 DEF Ended, NoOutcome
    <3>3. \A p \in Player : strikes'[p] # MaxStrikes
      BY <1>0, <1>1, <1>2, <2>2
    <3> QED
      BY <3>1, <3>2, <3>3 DEF Struck
  <2> QED
    BY <2>1, <2>2
<1>4. ASSUME restarts' = 0 PROVE Counts'
  <2>1. Counts /\ Dated
    BY <1>0, <1>4 DEF Counted
  <2>2. clock.key \notin silent[active]
    <3>1. Rank(currentPhaseKey) \in Int
      BY <1>0 DEF Rank, Key
    <3> QED
      BY <1>0, <2>1, <3>1 DEF Dated
  <2>3. /\ IsFiniteSet(silent[active] \cup {clock.key})
        /\ Cardinality(silent[active] \cup {clock.key}) = Cardinality(silent[active]) + 1
    BY <1>0, <2>1, <2>2, FS_AddElement DEF Counts
  <2>4. \A p \in Player : IsFiniteSet(silent'[p]) /\ strikes'[p] = Cardinality(silent'[p])
    BY <1>0, <1>1, <2>1, <2>3 DEF Counts
  <2> QED
    BY <2>4 DEF Counts
<1>5. ASSUME restarts' = 0, ~Ended' PROVE Dated'
  <2>1. Dated
    BY <1>0, <1>5 DEF Counted
  <2>2. ~(strikes'[active] >= MaxStrikes)
    <3>1. SUFFICES ASSUME strikes'[active] >= MaxStrikes PROVE FALSE
      OBVIOUS
    <3>2. outcome' = [result |-> Opponent(active), reason |-> "timeout_strikes"]
      BY <3>1 DEF ExpireMain, Finish
    <3> QED
      BY <3>2, <1>5 DEF Ended, NoOutcome
  <2>3. clock'.pc = "pass" /\ clock'.key = clock.key
    BY <2>2, <1>0 DEF ExpireMain, TypeOK
  <2>4. SUFFICES ASSUME NEW p \in Player, NEW k \in silent'[p]
                 PROVE  \/ Rank(k) < Rank(currentPhaseKey')
                        \/ k = currentPhaseKey' /\ clock'.pc = "pass" /\ clock'.key = k
    BY DEF Dated
  <2>5. CASE k \in silent[p]
    BY <1>0, <2>1, <2>5 DEF Dated
  <2>6. CASE k = clock.key
    BY <1>0, <2>3, <2>6
  <2> QED
    BY <1>0, <1>1, <2>4, <2>5, <2>6
<1> QED
  BY <1>3, <1>4, <1>5 DEF Counted

(* Every step keeps the count.                                              *)
LEMMA NextCounted == Typed /\ Stopped /\ Counted /\ [Next]_vars => Counted'
<1> SUFFICES ASSUME Typed, Stopped, Counted, [Next]_vars PROVE Counted'
  OBVIOUS
<1>0. TypeOK
  BY DEF Typed
<1>a. ASSUME UNCHANGED <<strikes, silent, outcome, restarts, phase, turn, active>>,
             clock' = clock \/ clock.pc # "pass" \/ (~Ended => currentPhaseKey # clock.key)
      PROVE  Counted'
  <2>1. currentPhaseKey' = currentPhaseKey
    BY <1>a DEF currentPhaseKey
  <2>2. Struck' /\ (restarts' = 0 => Counts') /\ (Ended' <=> Ended)
    BY <1>a DEF Counted, Struck, Counts, Ended
  <2>3. ASSUME restarts' = 0, ~Ended' PROVE Dated'
    BY <1>a, <2>1, <2>2, <2>3 DEF Counted, Dated
  <2> QED
    BY <2>2, <2>3 DEF Counted
<1>1. ASSUME NEW c \in open, HandleMove(c) PROVE Counted'
  BY <1>1, MoveCounted
<1>2. ASSUME NEW c \in open, HandlePassPhase(c) PROVE Counted'
  <2>1. Forgiven /\ Pass(active) /\ ~Ended /\ restarts' = restarts
    BY <1>2, <1>0, StateParts DEF HandlePassPhase, KeepStrikes, Forgiven
  <2> QED
    BY <2>1, PassCounted
<1>3. ASSUME NEW c \in open, HandleCastSpell(c) PROVE Counted'
  BY <1>3, CastCounted
<1>b. ASSUME NEW result, NEW reason, reason \notin {"timeout_strikes", "none"}, Finish(result, reason), ~Ended,
             UNCHANGED <<strikes, silent, restarts, phase, turn, active>>
      PROVE  Counted'
  <2>1. Forgiven /\ EndsOtherwise
    BY <1>b DEF Forgiven, EndsOtherwise, Finish
  <2>2. Ended'
    BY <1>b DEF Ended, Finish, NoOutcome
  <2> QED
    BY <1>b, <2>1, <2>2, CountedKept
<1>4. ASSUME NEW c \in open, HandleResign(c) PROVE Counted'
  BY <1>4, <1>b DEF HandleResign, matchVars
<1>5. ASSUME NEW c \in open, HandleDrawOffer(c) PROVE Counted'
  BY <1>5, <1>a DEF HandleDrawOffer, matchVars, endVars
<1>6. ASSUME NEW c \in open, HandleDrawResponse(c) PROVE Counted'
  <2>1. CASE Finish("draw", "agreement")
    BY <1>6, <2>1, <1>b DEF HandleDrawResponse, matchVars
  <2>2. CASE GoesOn
    BY <1>6, <2>2, <1>a DEF HandleDrawResponse, matchVars, GoesOn, endVars
  <2> QED
    BY <1>6, <2>1, <2>2 DEF HandleDrawResponse
<1>7. ASSUME NEW c \in open, Leave(c) PROVE Counted'
  BY <1>7, <1>a DEF Leave, gameVars, endVars
<1>8. ASSUME NEW t \in armed, TimerFires(t) PROVE Counted'
  BY <1>8, <1>a DEF TimerFires, gameVars, endVars
<1>9. ASSUME NEW t \in fired, Abandon(t) PROVE Counted'
  <2>1. CASE Finish(Opponent(t[1]), "abandonment") /\ ~Ended
    BY <1>9, <2>1, <1>b DEF Abandon, matchVars
  <2>2. CASE GoesOn
    BY <1>9, <2>2, <1>a DEF Abandon, matchVars, GoesOn, endVars
  <2>3. disc[t[1]] = t[2] => ~Ended
    <3>1. SUFFICES ASSUME Ended PROVE disc[t[1]] # t[2]
      OBVIOUS
    <3>2. t \in Conn /\ t[1] \in Player /\ t[2] \in 1 .. MaxConns
      BY <1>0, ConnParts DEF TypeOK
    <3> QED
      BY <3>1, <3>2, BoundsAssumption DEF Stopped
  <2> QED
    BY <1>9, <2>1, <2>2, <2>3 DEF Abandon
<1>10. ASSUME NEW p \in Player, Rejoin(p) PROVE Counted'
  BY <1>10, <1>a DEF Rejoin, gameVars, endVars
<1>11. CASE Reconnect
  <2>1. clock' = clock \/ clock.pc # "pass"
    BY <1>11 DEF Reconnect
  <2> QED
    BY <1>11, <2>1, <1>a DEF Reconnect, gameVars
<1>12. CASE Announce
  BY <1>12, <1>a DEF Announce, gameVars
<1>13. CASE ClockTick
  BY <1>13, <1>a DEF ClockTick, gameVars, endVars
<1>14. CASE ClockTooLate
  BY <1>14, <1>a DEF ClockTooLate, StillThere, gameVars, endVars
<1>15. CASE ExpireMove
  <2>1. CASE GoesOn
    BY <1>15, <2>1, <1>a DEF ExpireMove, matchVars, GoesOn, endVars
  <2>2. CASE Finish(Opponent(active), "timeout") /\ clock' = Ticking
    <3>1. clock.pc = "expire" /\ ~Ended /\ UNCHANGED <<strikes, silent, restarts, phase, turn, active>>
      BY <1>15 DEF ExpireMove, StillThere, matchVars
    <3> QED
      BY <2>2, <3>1, <1>b
  <2> QED
    BY <1>15, <2>1, <2>2 DEF ExpireMove
<1>16. CASE ExpireMain
  BY <1>16, ExpireMainCounted
<1>17. CASE TimedPass
  BY <1>17, PassCounted DEF TimedPass, StillThere, KeepStrikes, Forgiven
<1>18. CASE Restart
  <2>1. restarts' # 0
    BY <1>18, <1>0 DEF Restart, TypeOK
  <2>2. Struck'
    BY <1>18 DEF Restart, Counted, Struck, endVars
  <2> QED
    BY <2>1, <2>2 DEF Counted
<1>19. CASE UNCHANGED vars
  BY <1>19, <1>a DEF vars, gameVars, endVars
<1> QED
  BY <1>1, <1>2, <1>3, <1>4, <1>5, <1>6, <1>7, <1>8, <1>9, <1>10, <1>11, <1>12, <1>13, <1>14, <1>15, <1>16, <1>17, <1>18, <1>19
  DEF Next, Handler, Clock

(* A new room has no strikes.                                               *)
LEMMA InitCounted == Init => Counted
<1> SUFFICES ASSUME Init PROVE Counted
  OBVIOUS
<1>1. Counts
  BY FS_EmptySet DEF Init, Counts
<1>2. Dated
  BY DEF Init, Dated
<1>3. Struck
  BY BoundsAssumption DEF Init, Struck, NoOutcome
<1> QED
  BY <1>1, <1>2, <1>3 DEF Counted

(* In a room never restored strikes are the distinct main phases the player *)
(* let run out, and MaxStrikes of them lose the game.                       *)
THEOREM StrikesAreCounted == Spec => [](restarts = 0 => StrikesAreDistinctPhases)
<1>1. Typed /\ Stopped /\ [Next]_vars /\ Counted => Counted'
  BY NextCounted
<1>2. Counted => (restarts = 0 => StrikesAreDistinctPhases)
  BY DEF Counted, Counts, Struck, StrikesAreDistinctPhases
<1> QED
  BY <1>1, <1>2, InitCounted, StoppedAlways, PTL DEF Spec

(* In a room never restored a struck phase is over, or is the one the clock *)
(* came for and is about to end: the time of a phase costs nothing in the   *)
(* next, and nobody plays on in a phase they were struck for (clock.go).    *)
THEOREM StruckPhasesAreOver == Spec => []StruckPhasesEnd
<1>1. Typed /\ Stopped /\ [Next]_vars /\ Counted => Counted'
  BY NextCounted
<1>2. Counted => StruckPhasesEnd
  BY DEF Counted, Dated, StruckPhasesEnd
<1> QED
  BY <1>1, <1>2, InitCounted, StoppedAlways, PTL DEF Spec
=============================================================================

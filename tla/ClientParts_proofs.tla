-------------------------- MODULE ClientParts_proofs --------------------------
(***************************************************************************)
(* What holds of the parts of the client for every value of the constants. *)
(* Each part has an inductive invariant of its own, in the variables of    *)
(* that part alone.                                                        *)
(***************************************************************************)
EXTENDS ClientParts, Sequences, FiniteSetTheorems, TLAPS

(* The part that runs is chosen at the start, and every step is its own.   *)
LEMMA StepsOfScreen ==
  [Next]_vars /\ part' = "screen" => part = "screen" /\ [C!Next]_(C!vars)
<1>1. ASSUME UNCHANGED vars PROVE part' = part /\ UNCHANGED C!vars
  BY <1>1 DEF vars, ofScreen, C!vars, C!held
<1>2. ASSUME Next PROVE part' = part /\ (part = "screen" => C!Next)
  BY <1>2 DEF Next, WireStep, AccountStep, SocialStep, DecksStep, ScreenStep, BotStep, PagesStep
<1> QED
  BY <1>1, <1>2
-----------------------------------------------------------------------------
(***************************************************************************)
(* The controls of the board.  A piece selected by a tap is of the         *)
(* position shown, and a spell is aimed on the position and in the phase   *)
(* shown, with no cast waiting.                                            *)
(***************************************************************************)
OwnPhases == {"main1", "move", "main2", "theirs"}
PhaseNames == OwnPhases \cup {"none"}
Games == [board : Nat, phase : OwnPhases, second : BOOLEAN, over : BOOLEAN]
ScreenTyped ==
  /\ game \in Games
  /\ targeting \in [kind : {"idle", "collecting", "choosing"}, board : Nat, phase : PhaseNames, steps : Nat]
  /\ castSent \in BOOLEAN /\ dropped \in BOOLEAN
Aimed ==
  targeting.kind # "idle" => targeting.board = game.board /\ targeting.phase = game.phase /\ ~castSent
HeldIsShown == ~dropped /\ selection # C!None => selection = game.board
ScreenKept == ScreenTyped /\ Aimed /\ HeldIsShown /\ C!SendsWhatIsShown

(* A change of the match under the controls. *)
LEMMA MatchGoesOn ==
  ASSUME ScreenKept, NEW g \in Games, C!Becomes(g),
         castSent' \in BOOLEAN, castSent' => castSent
  PROVE  ScreenKept'
<1>1. game' = g /\ targeting' \in {targeting, C!IDLE} /\ dropped' = dropped /\ last' = last
  BY DEF C!Becomes, C!Aim
<1>2. targeting' # C!IDLE => targeting' = targeting /\ g.board = game.board /\ g.phase = game.phase
  BY DEF C!Becomes, C!Aim, C!Signature
<1>3. C!IDLE \in [kind : {"idle", "collecting", "choosing"}, board : Nat, phase : PhaseNames, steps : Nat]
      /\ C!IDLE.kind = "idle"
  BY DEF C!IDLE, C!None, PhaseNames
<1>4. ScreenTyped'
  BY <1>1, <1>3 DEF ScreenTyped, ScreenKept
<1>5. Aimed'
  BY <1>1, <1>2, <1>3 DEF Aimed, ScreenKept
<1>6. selection' # C!None => selection' = selection /\ g.board = game.board
  BY DEF C!Becomes, C!Rendered
<1>7. HeldIsShown'
  BY <1>1, <1>6 DEF HeldIsShown, ScreenKept, C!None
<1>8. C!SendsWhatIsShown'
  BY <1>1 DEF C!SendsWhatIsShown, ScreenKept
<1> QED
  BY <1>4, <1>5, <1>7, <1>8 DEF ScreenKept

(* A step of the hand or of the board that leaves the match alone: what is *)
(* selected is of the position shown or was dropped there, an aim is given *)
(* up, kept or begun on what is shown, and what is sent is of them.        *)
LEMMA ControlUsed ==
  ASSUME ScreenKept, game' = game,
         targeting' \in [kind : {"idle", "collecting", "choosing"}, board : Nat, phase : PhaseNames, steps : Nat],
         targeting'.kind # "idle" => targeting'.board = game.board /\ targeting'.phase = game.phase /\ ~castSent',
         castSent' \in BOOLEAN, dropped' \in BOOLEAN,
         ~dropped' /\ selection' # C!None => selection' = game.board,
         C!SendsWhatIsShown'
  PROVE  ScreenKept'
BY DEF ScreenKept, ScreenTyped, Aimed, HeldIsShown, C!None

(* An aim given up or begun: the selection goes with what was collected.   *)
LEMMA AimSettles ==
  ASSUME ScreenKept, NEW t, C!Settles(t)
  PROVE  /\ game' = game /\ targeting' = t /\ dropped' = dropped /\ selection' \in {selection, C!None}
         /\ ~dropped' /\ selection' # C!None => selection' = game.board
BY DEF C!Settles, C!Rendered, ScreenKept, HeldIsShown, C!None

(* Nothing is sent, or a move that was chosen on a position.               *)
LEMMA MoveGoes ==
  ASSUME ScreenKept, NEW by, NEW on, by = "tap" => on = game.board, C!Goes(by, on)
  PROVE  C!SendsWhatIsShown'
<1>1. last' = last \/ last' = C!Sent("move", by, on, "move")
  BY DEF C!Goes
<1>2. CASE last' = last
  BY <1>2 DEF ScreenKept, C!SendsWhatIsShown
<1>3. CASE last' = C!Sent("move", by, on, "move")
  BY <1>3 DEF C!Sent, C!SendsWhatIsShown
<1> QED
  BY <1>1, <1>2, <1>3

(* The pieces. *)
LEMMA PiecesKeep ==
  ASSUME ScreenKept, C!pickup \/ C!startDrag \/ C!tapTarget \/ C!drop \/ C!choosePromotion
  PROVE  ScreenKept'
<1>1. game' = game /\ targeting' = targeting /\ castSent' = castSent
  BY DEF C!pickup, C!startDrag, C!tapTarget, C!drop, C!choosePromotion
<1>2. dropped' \in BOOLEAN
  BY DEF ScreenKept, ScreenTyped, C!pickup, C!startDrag, C!tapTarget, C!drop, C!choosePromotion
<1>3. ~dropped' /\ selection' # C!None => selection' = game.board
  BY DEF ScreenKept, HeldIsShown, C!None, C!pickup, C!startDrag, C!tapTarget, C!drop, C!choosePromotion, C!sendMove
<1>4. ASSUME last' = last PROVE C!SendsWhatIsShown'
  BY <1>4 DEF ScreenKept, C!SendsWhatIsShown
<1>5. C!SendsWhatIsShown'
  <2>1. CASE C!pickup \/ C!startDrag
    BY <2>1, <1>4 DEF C!pickup, C!startDrag
  <2>2. CASE C!tapTarget
    <3>1. PICK by : by = (IF dropped THEN "drag" ELSE "tap")
      OBVIOUS
    <3>2. C!sendMove(by, selection) /\ (by = "tap" => selection = game.board)
      BY <2>2, <3>1 DEF C!tapTarget, ScreenKept, HeldIsShown, ScreenTyped
    <3> QED
      BY <3>2, <1>4, MoveGoes DEF C!sendMove
  <2>3. CASE C!drop
    BY <2>3, <1>4, MoveGoes DEF C!drop, C!sendMove
  <2>4. CASE C!choosePromotion
    BY <2>4, <1>4, MoveGoes DEF C!choosePromotion
  <2> QED
    BY <2>1, <2>2, <2>3, <2>4
<1> QED
  BY <1>1, <1>2, <1>3, <1>5, ControlUsed DEF ScreenKept, ScreenTyped, Aimed

(* A spell aimed on what is shown goes, or the aim is given up. *)
LEMMA CastGoes ==
  ASSUME ScreenKept, targeting.kind # "idle", C!sendCast(targeting)
  PROVE  ScreenKept'
<1>1. C!Settles(C!IDLE)
  BY DEF C!sendCast
<1>2. last' = last \/ last' = C!Sent("cast", "card", targeting.board, targeting.phase)
  BY DEF C!sendCast
<1>3. castSent' \in BOOLEAN
  BY DEF C!sendCast, ScreenKept, ScreenTyped
<1>4. C!SendsWhatIsShown'
  <2>1. CASE last' = last
    BY <2>1 DEF ScreenKept, C!SendsWhatIsShown
  <2>2. CASE last' = C!Sent("cast", "card", targeting.board, targeting.phase)
    BY <2>2 DEF C!Sent, C!SendsWhatIsShown, ScreenKept, Aimed
  <2> QED
    BY <1>2, <2>1, <2>2
<1>5. C!IDLE \in [kind : {"idle", "collecting", "choosing"}, board : Nat, phase : PhaseNames, steps : Nat]
      /\ C!IDLE.kind = "idle"
  BY DEF C!IDLE, C!None, PhaseNames
<1>6. dropped' \in BOOLEAN
  BY <1>1, AimSettles DEF ScreenKept, ScreenTyped
<1> QED
  BY <1>1, <1>3, <1>4, <1>5, <1>6, AimSettles, ControlUsed

(* The spells. *)
LEMMA SpellsKeep ==
  ASSUME ScreenKept, C!Hand \/ C!pickTarget \/ C!pickChoice \/ C!cancel
  PROVE  ScreenKept'
<1> DEFINE Aims == [kind : {"idle", "collecting", "choosing"}, board : Nat, phase : PhaseNames, steps : Nat]
<1>1. C!IDLE \in Aims /\ C!IDLE.kind = "idle"
  BY DEF C!IDLE, C!None, PhaseNames
<1>2. game.board \in Nat /\ game.phase \in PhaseNames /\ targeting \in Aims /\ castSent \in BOOLEAN /\ dropped \in BOOLEAN
  BY DEF ScreenKept, ScreenTyped, Games, PhaseNames
<1>3. ASSUME NEW t \in Aims, C!Settles(t), castSent' = castSent, last' = last,
             t.kind # "idle" => t.board = game.board /\ t.phase = game.phase /\ ~castSent
      PROVE  ScreenKept'
  <2>1. C!SendsWhatIsShown'
    BY <1>3 DEF ScreenKept, C!SendsWhatIsShown
  <2> QED
    BY <1>2, <1>3, <2>1, AimSettles, ControlUsed
<1>4. CASE C!beginTargeting
  <2>1. PICK kind \in {"collecting", "choosing"} : C!Settles([C!Picked EXCEPT !.kind = kind])
    BY <1>4 DEF C!beginTargeting
  <2>2. /\ [C!Picked EXCEPT !.kind = kind].board = game.board
        /\ [C!Picked EXCEPT !.kind = kind].phase = game.phase
    BY DEF C!Picked, C!IDLE
  <2>3. [C!Picked EXCEPT !.kind = kind] \in Aims
    <3>1. C!Picked \in Aims
      BY <1>1, <1>2 DEF C!Picked
    <3> HIDE DEF Aims
    <3>2. \A a \in Aims : [a EXCEPT !.kind = kind] \in Aims
      BY DEF Aims
    <3> QED
      BY <3>1, <3>2
  <2>4. ~castSent /\ castSent' = castSent /\ last' = last
    BY <1>4 DEF C!beginTargeting, C!cardRefusal
  <2> QED
    BY <1>3, <2>1, <2>2, <2>3, <2>4
<1>5. CASE C!castAtOnce
  <2>1. C!Settles(C!IDLE) /\ castSent' = TRUE /\ ~castSent /\ last' = C!Sent("cast", "card", game.board, game.phase)
    BY <1>5 DEF C!castAtOnce, C!cardRefusal
  <2>2. C!SendsWhatIsShown'
    BY <2>1 DEF C!Sent, C!SendsWhatIsShown
  <2> QED
    BY <1>1, <1>2, <2>1, <2>2, AimSettles, ControlUsed
<1>6. CASE C!refuseCard
  BY <1>6 DEF C!refuseCard, C!held, ScreenKept, ScreenTyped, Aimed, HeldIsShown, C!SendsWhatIsShown
<1>7. CASE C!pickTarget
  <2>1. targeting.kind = "collecting"
    BY <1>7 DEF C!pickTarget, C!Collecting
  <2>2. CASE C!sendCast(targeting)
    BY <2>1, <2>2, CastGoes
  <2>3. CASE ~C!sendCast(targeting)
    <3>1. PICK kind \in {"collecting", "choosing"} : C!Settles([targeting EXCEPT !.kind = kind, !.steps = 1])
      BY <1>7, <2>3 DEF C!pickTarget
    <3>2. castSent' = castSent /\ last' = last
      BY <1>7, <2>3 DEF C!pickTarget
    <3>3. /\ [targeting EXCEPT !.kind = kind, !.steps = 1].board = targeting.board
          /\ [targeting EXCEPT !.kind = kind, !.steps = 1].phase = targeting.phase
      BY <1>2
    <3>4. [targeting EXCEPT !.kind = kind, !.steps = 1] \in Aims
      BY <1>2
    <3>5. targeting.board = game.board /\ targeting.phase = game.phase /\ ~castSent
      BY <2>1 DEF ScreenKept, Aimed
    <3> QED
      BY <1>3, <3>1, <3>2, <3>3, <3>4, <3>5
  <2> QED
    BY <2>2, <2>3
<1>8. CASE C!pickChoice
  BY <1>8, CastGoes DEF C!pickChoice
<1>9. CASE C!cancel
  BY <1>9, <1>1, <1>3 DEF C!cancel
<1> QED
  BY <1>4, <1>5, <1>6, <1>7, <1>8, <1>9 DEF C!Hand

(* The invariant of the controls. *)
LEMMA ScreenSteps ==
  ASSUME ScreenKept, [C!Next]_(C!vars)
  PROVE  ScreenKept'
<1>1. CASE UNCHANGED C!vars
  BY <1>1 DEF C!vars, C!held, ScreenKept, ScreenTyped, Aimed, HeldIsShown, C!SendsWhatIsShown
<1>2. CASE C!MatchScreen
  BY <1>2, PiecesKeep, SpellsKeep DEF C!MatchScreen, C!MatchBoard, C!Board, C!PieceChoiceDialog, C!PromotionDialog
<1>3. CASE C!PhaseChanged
  <2>1. PICK p \in C!NextPhases(game.phase) :
          C!Becomes([game EXCEPT !.board = IF game.phase = "theirs" THEN @ + 1 ELSE @, !.phase = p, !.second = FALSE])
    BY <1>3 DEF C!PhaseChanged
  <2>2. game \in Games /\ castSent \in BOOLEAN /\ castSent' = castSent /\ game.board \in Nat
    BY <1>3 DEF ScreenKept, ScreenTyped, C!PhaseChanged, Games
  <2>3. game.phase \in OwnPhases
    BY <2>2 DEF Games
  <2>4. p \in OwnPhases
    BY <2>3 DEF C!NextPhases, OwnPhases
  <2>5. PICK n : n = (IF game.phase = "theirs" THEN game.board + 1 ELSE game.board)
    OBVIOUS
  <2>6. n \in Nat /\ C!Becomes([game EXCEPT !.board = n, !.phase = p, !.second = FALSE])
    BY <2>1, <2>2, <2>5
  <2>7. [game EXCEPT !.board = n, !.phase = p, !.second = FALSE] \in Games
    BY <2>2, <2>4, <2>6 DEF Games
  <2> QED
    BY <2>2, <2>6, <2>7, MatchGoesOn
<1>4. CASE C!NewPosition
  <2>1. game.board \in Nat /\ game.phase \in OwnPhases /\ castSent' = FALSE
    BY <1>4 DEF C!NewPosition, ScreenKept, ScreenTyped, Games
  <2>2. PICK second \in BOOLEAN, ends \in BOOLEAN, p \in {game.phase} \cup {"main2", "theirs"} :
          C!Becomes([board |-> game.board + 1, phase |-> p, second |-> second, over |-> ends])
    BY <1>4 DEF C!NewPosition
  <2>3. [board |-> game.board + 1, phase |-> p, second |-> second, over |-> ends] \in Games
    BY <2>1 DEF OwnPhases, Games
  <2> QED
    BY <2>1, <2>2, <2>3, MatchGoesOn
<1>over. CASE C!GameOver
  <2>1. C!Becomes([game EXCEPT !.over = TRUE]) /\ castSent' = castSent /\ game \in Games /\ castSent \in BOOLEAN
    BY <1>over DEF C!GameOver, ScreenKept, ScreenTyped
  <2>2. [game EXCEPT !.over = TRUE] \in Games
    BY <2>1 DEF Games
  <2> QED
    BY <2>1, <2>2, MatchGoesOn
<1>5. CASE C!Answer \/ C!Notice \/ C!Connection \/ C!NoticeTimer
  <2>1. UNCHANGED <<game, targeting, selection, dropped, last>> /\ (castSent' = castSent \/ castSent' = FALSE)
    BY <1>5 DEF C!Answer, C!Notice, C!Connection, C!NoticeTimer, C!held
  <2>2. C!SendsWhatIsShown'
    BY <2>1 DEF ScreenKept, C!SendsWhatIsShown
  <2>3. castSent' \in BOOLEAN /\ (~castSent => ~castSent')
    <3>1. castSent \in BOOLEAN
      BY DEF ScreenKept, ScreenTyped
    <3>2. CASE castSent' = castSent
      BY <3>1, <3>2
    <3>3. CASE castSent' = FALSE
      BY <3>3
    <3> QED
      BY <2>1, <3>2, <3>3
  <2>4. ScreenTyped'
    BY <2>1, <2>3 DEF ScreenKept, ScreenTyped
  <2>5. Aimed'
    BY <2>1, <2>3 DEF ScreenKept, Aimed
  <2>6. HeldIsShown'
    BY <2>1 DEF ScreenKept, HeldIsShown, C!None
  <2> QED
    BY <2>2, <2>4, <2>5, <2>6 DEF ScreenKept
<1> QED
  BY <1>1, <1>2, <1>3, <1>4, <1>over, <1>5 DEF C!Next
LEMMA ScreenStarts ==
  ASSUME C!Init
  PROVE  ScreenKept
BY DEF C!Init, ScreenKept, ScreenTyped, Aimed, HeldIsShown, C!SendsWhatIsShown, C!IDLE, C!None, PhaseNames, OwnPhases, Games
-----------------------------------------------------------------------------
(***************************************************************************)
(* The notices.  The number of a notice tells it from all others, as its   *)
(* key does: a local key is of a refusal that was counted, a key of the    *)
(* server of an event that arrived.                                        *)
(***************************************************************************)
Key(k, upTo, counted) ==
  \/ k = <<"none", 0>>
  \/ \E n \in Nat : n < counted /\ k = <<"local", n>>
  \/ \E n \in Nat : 0 < n /\ n <= upTo /\ k = <<"server", n>>
NoticesTyped ==
  /\ notices \in [seq : Nat, server : [seq : Nat, number : Nat],
                  local : [order : Nat, key : {"none", "local", "server"} \X Nat, number : Nat],
                  expired : {"none", "local", "server"} \X Nat, refusals : Nat]
  /\ newest \in Nat
Counted ==
  /\ notices.server.seq <= notices.seq
  /\ notices.local.order <= 2 * notices.seq + 1
  /\ Key(notices.expired, notices.seq, notices.refusals)
  /\ notices.local.order > 0 => \E n \in Nat : n < notices.refusals /\ notices.local.key = <<"local", n>>
  /\ \A n \in shownOnce : n \in Nat /\ 0 < n /\ n <= newest
(* Which notice is the latest, and whether it is gone. *)
OfLocal == notices.local.order > 2 * notices.server.seq
OfServer == ~OfLocal /\ notices.server.seq > 0
Newest ==
  /\ OfLocal => /\ notices.local.number = newest /\ newest > 0
                /\ notices.local.key = notices.expired <=> newest \in shownOnce
  /\ OfServer => /\ notices.server.number = newest /\ newest > 0
                 /\ <<"server", notices.server.seq>> = notices.expired <=> newest \in shownOnce
  /\ ~OfLocal /\ ~OfServer => newest = 0
NoticesKept == NoticesTyped /\ Counted /\ Newest

(* Keys are told apart by their kind and by their number. *)
LEMMA KeysDiffer ==
  /\ \A m, n \in Nat : <<"local", m>> = <<"local", n>> => m = n
  /\ \A m, n \in Nat : <<"server", m>> = <<"server", n>> => m = n
  /\ \A m, n \in Nat : <<"local", m>> # <<"server", n>> /\ <<"local", m>> # <<"none", n>> /\ <<"server", m>> # <<"none", n>>
OBVIOUS

(* The notice shown is the latest, unless it has run out. *)
LEMMA WhatIsShown ==
  ASSUME NoticesKept
  PROVE  /\ OfLocal => C!Latest = notices.local /\ C!Latest.key # <<"none", 0>>
         /\ OfServer => /\ C!Latest = C!ServerNotice /\ C!Latest.key = <<"server", notices.server.seq>>
                        /\ C!Latest.number = notices.server.number
         /\ ~OfLocal /\ ~OfServer => C!Latest = C!NoNotice
         /\ C!NoNotice.key = <<"none", 0>>
<1>1. notices.server.seq \in Nat /\ notices.local.order \in Nat
  BY DEF NoticesKept, NoticesTyped
<1>2. C!ServerNotice.order = 2 * notices.server.seq
  BY DEF C!ServerNotice
<1>3. OfLocal => C!Latest = notices.local
  BY <1>2 DEF C!Latest, OfLocal
<1>4. OfLocal => notices.local.key # <<"none", 0>>
  BY <1>1, KeysDiffer DEF NoticesKept, Counted, OfLocal
<1>5. OfServer => C!Latest = C!ServerNotice
  BY <1>2 DEF C!Latest, OfLocal, OfServer
<1>6. C!ServerNotice.key = <<"server", notices.server.seq>> /\ C!ServerNotice.number = notices.server.number
  BY DEF C!ServerNotice
<1>7. ~OfLocal /\ ~OfServer => C!Latest = C!NoNotice
  BY <1>2 DEF C!Latest, OfLocal, OfServer
<1>8. C!NoNotice.key = <<"none", 0>>
  BY DEF C!NoNotice
<1> QED
  BY <1>3, <1>4, <1>5, <1>6, <1>7, <1>8

LEMMA NoticesMove ==
  ASSUME NoticesKept
  PROVE  C!NoticesMoveOn
<1>1. CASE OfLocal
  <2>1. C!Latest = notices.local /\ C!Latest # C!NoNotice
    BY <1>1, WhatIsShown
  <2> QED
    BY <1>1, <2>1 DEF C!NoticesMoveOn, C!Current, NoticesKept, Newest
<1>2. CASE OfServer
  <2>1. C!Latest.key = <<"server", notices.server.seq>> /\ C!Latest.number = notices.server.number
    BY <1>2, WhatIsShown
  <2>2. notices.server.seq \in Nat
    BY DEF NoticesKept, NoticesTyped
  <2>3. C!Latest # C!NoNotice
    BY <2>1, <2>2, KeysDiffer, WhatIsShown
  <2> QED
    BY <1>2, <2>1, <2>3 DEF C!NoticesMoveOn, C!Current, NoticesKept, Newest
<1>3. CASE ~OfLocal /\ ~OfServer
  <2>1. C!Current = C!NoNotice /\ newest = 0
    BY <1>3, WhatIsShown DEF C!Current, NoticesKept, Newest
  <2> QED
    BY <2>1 DEF C!NoticesMoveOn
<1> QED
  BY <1>1, <1>2, <1>3

(* A refusal of the client is shown. *)
LEMMA LocalNotice ==
  ASSUME NoticesKept, C!Show
  PROVE  NoticesKept'
<1> DEFINE n == notices  s == notices.server.seq
<1>1. /\ n.seq \in Nat /\ s \in Nat /\ n.refusals \in Nat /\ newest \in Nat /\ n.local.order \in Nat
      /\ s <= n.seq
  BY DEF NoticesKept, NoticesTyped, Counted
<1>2. /\ notices' = [n EXCEPT !.refusals = @ + 1,
                       !.local = [order |-> 2 * n.seq + 1, key |-> <<"local", n.refusals>>, number |-> newest + 1]]
      /\ newest' = newest + 1 /\ shownOnce' = shownOnce
  BY DEF C!Show, C!LocalKey
<1>3. /\ notices'.seq = n.seq /\ notices'.server = n.server /\ notices'.expired = n.expired
      /\ notices'.refusals = n.refusals + 1
      /\ notices'.local = [order |-> 2 * n.seq + 1, key |-> <<"local", n.refusals>>, number |-> newest + 1]
  BY <1>2 DEF NoticesKept, NoticesTyped
<1>4. /\ notices'.local.order = 2 * n.seq + 1 /\ notices'.local.key = <<"local", n.refusals>>
      /\ notices'.local.number = newest + 1
  BY <1>3
<1>5. NoticesTyped'
  <2>1. 2 * n.seq + 1 \in Nat /\ n.refusals + 1 \in Nat /\ newest + 1 \in Nat
    BY <1>1
  <2>2. [order |-> 2 * n.seq + 1, key |-> <<"local", n.refusals>>, number |-> newest + 1]
          \in [order : Nat, key : {"none", "local", "server"} \X Nat, number : Nat]
    BY <1>1, <2>1
  <2> QED
    BY <1>2, <2>1, <2>2 DEF NoticesKept, NoticesTyped
<1>6. Key(n.expired, n.seq, n.refusals + 1) /\ n.expired # <<"local", n.refusals>>
  BY <1>1, KeysDiffer DEF NoticesKept, Counted, Key
<1>7. newest + 1 \notin shownOnce /\ \A k \in shownOnce : k \in Nat /\ 0 < k /\ k <= newest + 1
  BY <1>1 DEF NoticesKept, Counted
<1>8. Counted'
  BY <1>1, <1>2, <1>3, <1>4, <1>6, <1>7 DEF Counted
<1>9. OfLocal'
  BY <1>1, <1>3, <1>4 DEF OfLocal
<1>10. Newest'
  BY <1>1, <1>2, <1>3, <1>4, <1>6, <1>7, <1>9 DEF Newest, OfServer
<1> QED
  BY <1>5, <1>8, <1>10 DEF NoticesKept

(* An event arrives, a notice or not. *)
LEMMA ServerEvent ==
  ASSUME NoticesKept, NEW isNotice \in BOOLEAN, C!Arrives(isNotice)
  PROVE  NoticesKept'
<1> DEFINE n == notices  s == notices.server.seq
<1>1. /\ n.seq \in Nat /\ s \in Nat /\ n.refusals \in Nat /\ newest \in Nat /\ n.local.order \in Nat
      /\ s <= n.seq
  BY DEF NoticesKept, NoticesTyped, Counted
<1>2. notices'.seq = n.seq + 1 /\ UNCHANGED <<notices.local, notices.expired, notices.refusals, shownOnce>>
  BY DEF C!Arrives, NoticesKept, NoticesTyped
<1>3. Key(n.expired, n.seq + 1, n.refusals) /\ n.expired # <<"server", n.seq + 1>>
  BY <1>1, KeysDiffer DEF NoticesKept, Counted, Key
<1>4. CASE isNotice
  <2>1. newest' = newest + 1 /\ notices'.server = [seq |-> n.seq + 1, number |-> newest + 1]
    BY <1>4 DEF C!Arrives, NoticesKept, NoticesTyped
  <2>2. notices'.server.seq = n.seq + 1 /\ notices'.server.number = newest + 1
    BY <2>1
  <2>3. newest + 1 \notin shownOnce /\ \A k \in shownOnce : k \in Nat /\ 0 < k /\ k <= newest + 1
    BY <1>1 DEF NoticesKept, Counted
  <2>4. NoticesTyped'
    <3>1. n.seq + 1 \in Nat /\ newest + 1 \in Nat
      BY <1>1
    <3>2. [seq |-> n.seq + 1, number |-> newest + 1] \in [seq : Nat, number : Nat]
      BY <3>1
    <3>3. notices' = [n EXCEPT !.seq = n.seq + 1, !.server = [seq |-> n.seq + 1, number |-> newest + 1]]
      BY <1>4, <2>1 DEF C!Arrives
    <3> QED
      BY <2>1, <3>1, <3>2, <3>3 DEF NoticesKept, NoticesTyped
  <2>5. Counted'
    BY <1>1, <1>2, <1>3, <2>1, <2>2, <2>3 DEF Counted, NoticesKept
  <2>6. ~OfLocal'
    BY <1>1, <1>2, <2>2 DEF OfLocal, NoticesKept, Counted
  <2>7. Newest'
    BY <1>1, <1>2, <1>3, <2>1, <2>2, <2>3, <2>6 DEF Newest, OfServer
  <2> QED
    BY <2>4, <2>5, <2>7 DEF NoticesKept
<1>5. CASE ~isNotice
  <2>1. newest' = newest /\ notices' = [n EXCEPT !.seq = n.seq + 1]
    BY <1>5 DEF C!Arrives, NoticesKept, NoticesTyped
  <2>2. notices'.server = n.server
    BY <2>1 DEF NoticesKept, NoticesTyped
  <2>3. NoticesTyped'
    BY <1>1, <2>1 DEF NoticesKept, NoticesTyped
  <2>4. Counted'
    BY <1>1, <1>2, <1>3, <2>1, <2>2 DEF Counted, NoticesKept
  <2>5. Newest'
    BY <1>2, <2>1, <2>2 DEF Newest, OfLocal, OfServer, NoticesKept
  <2> QED
    BY <2>3, <2>4, <2>5 DEF NoticesKept
<1> QED
  BY <1>4, <1>5

(* The notice shown runs out, or is taken away. *)
LEMMA NoticeExpires ==
  ASSUME NoticesKept, C!Expires
  PROVE  NoticesKept'
<1>1. CASE C!Current = C!NoNotice
  <2>1. UNCHANGED <<notices, newest, shownOnce>>
    BY <1>1 DEF C!Expires, NoticesKept, NoticesTyped
  <2> QED
    BY <2>1 DEF NoticesKept, NoticesTyped, Counted, Newest, OfLocal, OfServer
<1>2. CASE C!Current # C!NoNotice
  <2>1. C!Current = C!Latest /\ C!Latest # C!NoNotice
    BY <1>2 DEF C!Current
  <2>2. PICK k : k = C!Latest.key
    OBVIOUS
  <2>3. notices' = [notices EXCEPT !.expired = k] /\ shownOnce' = shownOnce \cup {C!Latest.number} /\ newest' = newest
    BY <1>2, <2>1, <2>2 DEF C!Expires
  <2>4. OfLocal \/ OfServer
    BY <2>1, WhatIsShown
  <2>5. /\ notices.seq \in Nat /\ notices.server.seq \in Nat /\ notices.server.seq <= notices.seq
        /\ notices.refusals \in Nat /\ newest \in Nat /\ notices.local.key \in {"none", "local", "server"} \X Nat
    BY DEF NoticesKept, NoticesTyped, Counted
  <2>6. /\ Key(k, notices.seq, notices.refusals) /\ k \in {"none", "local", "server"} \X Nat
        /\ C!Latest.number = newest /\ newest > 0
        /\ OfLocal => k = notices.local.key
        /\ OfServer => k = <<"server", notices.server.seq>>
    <3>1. CASE OfLocal
      <4>1. k = notices.local.key /\ C!Latest.number = newest /\ newest > 0
        BY <2>2, <3>1, WhatIsShown DEF NoticesKept, Newest
      <4>2. \E m \in Nat : m < notices.refusals /\ k = <<"local", m>>
        BY <2>5, <3>1, <4>1 DEF OfLocal, NoticesKept, Counted, NoticesTyped
      <4> QED
        BY <2>5, <3>1, <4>1, <4>2 DEF Key, OfServer
    <3>2. CASE OfServer
      <4>1. k = <<"server", notices.server.seq>> /\ C!Latest.number = newest /\ newest > 0
        BY <2>2, <3>2, WhatIsShown DEF NoticesKept, Newest
      <4>2. 0 < notices.server.seq
        BY <2>5, <3>2 DEF OfServer
      <4> QED
        BY <2>5, <3>2, <4>1, <4>2 DEF Key, OfServer
    <3> QED
      BY <2>4, <3>1, <3>2
  <2>7. UNCHANGED <<notices.seq, notices.server, notices.local, notices.refusals>> /\ notices'.expired = k
    BY <2>3 DEF NoticesKept, NoticesTyped
  <2>8. NoticesTyped'
    BY <2>3, <2>6 DEF NoticesKept, NoticesTyped
  <2>9. Counted'
    BY <2>3, <2>5, <2>6, <2>7 DEF NoticesKept, Counted
  <2>10. OfLocal' = OfLocal /\ OfServer' = OfServer
    BY <2>7 DEF OfLocal, OfServer
  <2>11. newest' \in shownOnce'
    BY <2>3, <2>6
  <2>12. Newest'
    BY <2>3, <2>4, <2>6, <2>7, <2>10, <2>11 DEF NoticesKept, Newest
  <2> QED
    BY <2>8, <2>9, <2>12 DEF NoticesKept
<1> QED
  BY <1>1, <1>2

(* Every step of the screen does one of these to the notices, or none. *)
LEMMA NoticesStay ==
  ASSUME NoticesKept, [C!Next]_(C!vars)
  PROVE  NoticesKept'
<1>1. ASSUME UNCHANGED <<notices, newest, shownOnce>> PROVE NoticesKept'
  BY <1>1 DEF NoticesKept, NoticesTyped, Counted, Newest, OfLocal, OfServer
<1>2. CASE UNCHANGED C!vars
  BY <1>1, <1>2 DEF C!vars
<1>3. CASE C!Hand
  BY <1>1, <1>3, LocalNotice, NoticeExpires DEF C!Hand, C!beginTargeting, C!castAtOnce, C!refuseCard
<1>4. CASE C!pickup \/ C!startDrag
  BY <1>1, <1>4, LocalNotice DEF C!pickup, C!startDrag, C!Quiet
<1>5. CASE C!tapTarget \/ C!drop \/ C!choosePromotion
  BY <1>1, <1>5, LocalNotice DEF C!tapTarget, C!drop, C!choosePromotion, C!sendMove, C!Goes, C!Quiet
<1>6. CASE C!pickTarget \/ C!pickChoice \/ C!cancel
  BY <1>1, <1>6, LocalNotice DEF C!pickTarget, C!pickChoice, C!cancel, C!sendCast, C!Quiet
<1>7. CASE C!PhaseChanged \/ C!Connection \/ C!GameOver
  BY <1>1, <1>7 DEF C!PhaseChanged, C!Connection, C!GameOver, C!Quiet
<1>8. CASE C!NewPosition \/ C!Answer \/ C!Notice
  BY <1>8, ServerEvent DEF C!NewPosition, C!Answer, C!Notice
<1>9. CASE C!NoticeTimer
  BY <1>9, NoticeExpires DEF C!NoticeTimer
<1> QED
  BY <1>2, <1>3, <1>4, <1>5, <1>6, <1>7, <1>8, <1>9
     DEF C!Next, C!MatchScreen, C!MatchBoard, C!Board, C!PieceChoiceDialog, C!PromotionDialog
LEMMA NoticesStart ==
  ASSUME C!Init
  PROVE  NoticesKept
<1>1. /\ notices = [seq |-> 0, server |-> [seq |-> 0, number |-> 0], local |-> C!NoNotice, expired |-> <<"none", 0>>, refusals |-> 0]
      /\ newest = 0 /\ shownOnce = {}
  BY DEF C!Init
<1>2. /\ C!NoNotice \in [order : Nat, key : {"none", "local", "server"} \X Nat, number : Nat]
      /\ C!NoNotice.order = 0
  BY DEF C!NoNotice
<1>3. /\ notices.seq = 0 /\ notices.server.seq = 0 /\ notices.local = C!NoNotice /\ notices.expired = <<"none", 0>>
      /\ notices.refusals = 0
  BY <1>1
<1>4. NoticesTyped
  BY <1>1, <1>2 DEF NoticesTyped
<1> QED
  BY <1>1, <1>2, <1>3, <1>4 DEF NoticesKept, Counted, Newest, OfLocal, OfServer, Key

(* What is sent was chosen on what is shown, and notices move on: the      *)
(* invariant that the run client_parts checks of the part "screen", for    *)
(* any number of positions, notices and refusals (Match.tsx, Board.tsx,    *)
(* useCasting.ts, useNotice.ts).                                           *)
THEOREM ControlsKeepPace == Spec => []ControlsAreSound
<1> DEFINE Inv == part = "screen" => ScreenKept /\ NoticesKept
<1>1. Init => Inv
  <2> SUFFICES ASSUME Init, part = "screen" PROVE ScreenKept /\ NoticesKept
    OBVIOUS
  <2>1. C!Init
    BY DEF Init
  <2> QED
    BY <2>1, ScreenStarts, NoticesStart
<1>2. Inv /\ [Next]_vars => Inv'
  BY StepsOfScreen, ScreenSteps, NoticesStay
<1>3. Inv => ControlsAreSound
  BY NoticesMove DEF ControlsAreSound, ScreenKept
<1> QED
  BY <1>1, <1>2, <1>3, PTL DEF Spec
-----------------------------------------------------------------------------
(***************************************************************************)
(* The virtual opponent.  What a handler may make of the room and of the   *)
(* driver keeps them in step, whoever calls it: the bot hears of its turn, *)
(* of the end and of the offers unless it is gone, and a spell refused in  *)
(* this phase is one it remembers.                                         *)
(***************************************************************************)
LEMMA StepsOfBot ==
  [Next]_vars /\ part' = "bot" => part = "bot" /\ [B!Next]_(B!vars)
<1>1. ASSUME UNCHANGED vars PROVE part' = part /\ UNCHANGED B!vars
  BY <1>1 DEF vars, ofBot, B!vars
<1>2. ASSUME Next PROVE part' = part /\ (part = "bot" => B!Next)
  BY <1>2 DEF Next, WireStep, AccountStep, SocialStep, DecksStep, ScreenStep, BotStep, PagesStep
<1> QED
  BY <1>1, <1>2

(* The room and the driver have their fields, and count. *)
IsRoom(r) ==
  /\ DOMAIN r = {"active", "phase", "second", "hand", "cast", "grave", "turns", "offer", "offers", "over", "seated", "present",
                 "running", "away", "tried", "refused", "again"}
  /\ r.active \in {"bot", "user"} /\ r.tried \in Nat
IsDriver(d) ==
  /\ DOMAIN d = {"pending", "rejected", "casts", "moves", "offered", "declined", "replies", "over", "connected", "back"}
  /\ d.casts \in Nat /\ d.replies \in Seq({"accept", "decline"})
Stays == behavior.leaves = "none"
Agree(r, d) ==
  /\ IsRoom(r) /\ IsDriver(d)
  /\ (d.connected => r.seated) /\ (d.over => r.over) /\ (Stays => d.connected)
  /\ ~d.connected /\ behavior.returns /\ ~d.over => d.back
  /\ r.refused \subseteq d.rejected /\ ~r.again
  /\ behavior.level => r.tried <= d.casts /\ d.casts <= 3
AnswerDue(r, d) == behavior.answers /\ ~r.over /\ r.offer = "user" => d.replies # <<>>
InStep(r, d) == Agree(r, d) /\ AnswerDue(r, d)
Awake(r, d) == ~r.over /\ r.active = "bot" /\ d.connected /\ ~behavior.stall => d.pending
BotKept ==
  /\ behavior.leaves \in {"none", "disconnect", "restart"} /\ (behavior.answers => Stays) /\ (behavior.level => Stays)
  /\ InStep(room, driver) /\ Awake(room, driver)

(* What the bot hears changes what it is told of, and no more. *)
LEMMA HearsState ==
  ASSUME NEW d, IsDriver(d), NEW mine, NEW h, h = B!hearState(d, mine)
  PROVE  /\ IsDriver(h) /\ (h.pending <=> d.pending \/ mine)
         /\ h.over = d.over /\ h.connected = d.connected /\ h.back = d.back /\ h.replies = d.replies
         /\ h.rejected = d.rejected /\ h.casts = d.casts
BY DEF IsDriver, B!hearState, B!schedule
LEMMA HearsPhase ==
  ASSUME NEW d, IsDriver(d), NEW mine, NEW h, h = B!hearPhase(d, mine)
  PROVE  /\ IsDriver(h) /\ (h.pending <=> d.pending \/ mine) /\ h.rejected = {} /\ h.casts = 0
         /\ h.over = d.over /\ h.connected = d.connected /\ h.back = d.back /\ h.replies = d.replies
BY DEF IsDriver, B!hearPhase, B!schedule

(* A phase ends: what was tried in it is forgotten by both, and the bot    *)
(* hears whose turn it is.                                                 *)
LEMMA PhaseIsFresh ==
  ASSUME NEW r, IsRoom(r), NEW ph, NEW q, q = B!InPhase(r, ph)
  PROVE  /\ IsRoom(q) /\ q.active = r.active /\ q.offer = r.offer /\ q.over = r.over /\ q.seated = r.seated
         /\ q.again = r.again /\ q.refused = {} /\ q.tried = 0
BY DEF IsRoom, B!InPhase, B!Untried
LEMMA TurnIsFresh ==
  ASSUME NEW r, IsRoom(r), NEW ph, NEW q, q = B!InTurn(r, ph)
  PROVE  /\ IsRoom(q) /\ q.active # r.active /\ q.offer = r.offer /\ q.over = r.over /\ q.seated = r.seated
         /\ q.again = r.again /\ q.refused = {} /\ q.tried = 0
<1>1. PICK p : p = B!InPhase(r, ph)
  OBVIOUS
<1>2. /\ IsRoom(p) /\ p.active = r.active /\ p.offer = r.offer /\ p.over = r.over /\ p.seated = r.seated
      /\ p.again = r.again /\ p.refused = {} /\ p.tried = 0
  BY <1>1, PhaseIsFresh
<1>3. PICK hand : hand = IF r.active = "user" THEN B!Cards ELSE p.hand
  OBVIOUS
<1>4. q = [p EXCEPT !.active = B!Other(p.active), !.turns = p.turns + 1, !.cast = {}, !.hand = hand]
  BY <1>1, <1>2, <1>3 DEF B!InTurn, IsRoom
<1>5. B!Other(p.active) \in {"bot", "user"} /\ B!Other(p.active) # p.active
  BY <1>2 DEF B!Other, IsRoom
<1> QED
  BY <1>2, <1>4, <1>5 DEF IsRoom
LEMMA LeftKeeps ==
  ASSUME BotKept, NEW r, NEW d, InStep(r, d), NEW o \in B!Left(r, d)
  PROVE  InStep(o.r, o.d) /\ Awake(o.r, o.d)
<1>1. IsRoom(r) /\ IsDriver(d) /\ r.active \in {"bot", "user"}
  BY DEF InStep, Agree, AnswerDue, IsRoom
<1>2. PICK mine, h : mine = (r.active = "bot") /\ (r.active = "bot" => mine) /\ h = B!hearPhase(d, mine)
  OBVIOUS
<1>3. /\ IsDriver(h) /\ h.over = d.over /\ h.connected = d.connected /\ h.back = d.back /\ h.replies = d.replies
      /\ h.casts = 0 /\ (r.active = "bot" => h.pending)
  BY <1>1, <1>2, HearsPhase
<1>4. PICK theirs, g : theirs = (r.active = "user") /\ (r.active = "user" => theirs) /\ g = B!hearPhase(h, theirs)
  OBVIOUS
<1>5. /\ IsDriver(g) /\ g.over = d.over /\ g.connected = d.connected /\ g.back = d.back /\ g.replies = d.replies
      /\ g.casts = 0 /\ (r.active = "user" => g.pending)
  BY <1>3, <1>4, HearsPhase
<1>6. PICK q, e : q = o.r /\ e = o.d
  OBVIOUS
<1>7. /\ IsRoom(q) /\ q.offer = r.offer /\ q.over = r.over /\ q.seated = r.seated /\ q.again = r.again
      /\ q.refused = {} /\ q.tried = 0
      /\ (q.active = r.active /\ e = IF r.seated THEN h ELSE d) \/ (q.active # r.active /\ e = IF r.seated THEN g ELSE d)
  <2>1. \/ \E ph \in {"move", "main2"} : o = [r |-> B!InPhase(r, ph), d |-> B!Told(r, d, h)]
        \/ \E ph \in {"main1", "move"} : o = [r |-> B!InTurn(r, ph), d |-> B!Told(r, d, g)]
    BY <1>2, <1>4 DEF B!Left
  <2>2. \/ \E ph \in {"move", "main2"} : q = B!InPhase(r, ph) /\ e = IF r.seated THEN h ELSE d
        \/ \E ph \in {"main1", "move"} : q = B!InTurn(r, ph) /\ e = IF r.seated THEN g ELSE d
    BY <1>6, <2>1 DEF B!Told
  <2> QED
    BY <1>1, <2>2, PhaseIsFresh, TurnIsFresh
<1>8. InStep(q, e) /\ Awake(q, e)
  BY <1>1, <1>3, <1>5, <1>7 DEF InStep, Agree, AnswerDue, Awake, BotKept, IsRoom
<1> QED
  BY <1>6, <1>8

(* The game is over. *)
LEMMA FinishedKeeps ==
  ASSUME NEW r, NEW d, Agree(r, d), NEW o \in B!Finished(r, d)
  PROVE  InStep(o.r, o.d) /\ Awake(o.r, o.d)
<1>1. PICK q, e : q = o.r /\ e = o.d
  OBVIOUS
<1>2. /\ q = [r EXCEPT !.over = TRUE, !.offer = "none", !.away = FALSE]
      /\ e = d \/ e = [d EXCEPT !.over = TRUE]
  BY <1>1 DEF B!Finished, B!Told, B!hearOver, B!None
<1>3. /\ IsRoom(q) /\ q.over /\ q.seated = r.seated /\ q.refused = r.refused /\ q.tried = r.tried /\ q.again = r.again
  BY <1>2 DEF InStep, Agree, AnswerDue, IsRoom
<1>4. /\ IsDriver(e) /\ e.connected = d.connected /\ e.back = d.back /\ e.rejected = d.rejected /\ e.casts = d.casts
      /\ (d.over => e.over)
  BY <1>2 DEF InStep, Agree, AnswerDue, IsDriver
<1>5. InStep(q, e) /\ Awake(q, e)
  BY <1>3, <1>4 DEF InStep, Agree, AnswerDue, Awake
<1> QED
  BY <1>1, <1>5
LEMMA PassKeeps ==
  ASSUME BotKept, NEW r, NEW d, InStep(r, d), NEW o \in B!passPhase(r, d)
  PROVE  InStep(o.r, o.d) /\ Awake(o.r, o.d)
BY LeftKeeps, FinishedKeeps DEF B!passPhase, InStep

(* A move: the offer it answers lapses, the turn may go on, and the state  *)
(* goes out.                                                               *)
LEMMA MoveKeeps ==
  ASSUME BotKept, NEW r, NEW d, InStep(r, d), NEW o \in B!handleMove(r, d)
  PROVE  InStep(o.r, o.d) /\ Awake(o.r, o.d)
<1>1. PICK l : l = [r EXCEPT !.offer = IF @ = B!Other(r.active) THEN B!None ELSE @]
  OBVIOUS
<1>2. IsRoom(r) /\ IsDriver(d) /\ r.active \in {"bot", "user"}
  BY DEF InStep, Agree, AnswerDue, IsRoom
<1>3. /\ IsRoom(l) /\ l.offer \in {"none", r.offer} /\ l.over = r.over /\ l.seated = r.seated /\ l.active = r.active
      /\ l.tried = r.tried /\ l.refused = r.refused /\ l.again = r.again
  BY <1>1, <1>2 DEF IsRoom, B!None
<1>4. InStep(l, d)
  BY <1>3 DEF InStep, Agree, AnswerDue
<1>5. PICK m : m = [B!Untried(l) EXCEPT !.second = TRUE]
  OBVIOUS
<1>6. /\ IsRoom(m) /\ m.offer = l.offer /\ m.over = l.over /\ m.seated = l.seated /\ m.active = l.active
      /\ m.tried = 0 /\ m.refused = {} /\ m.again = l.again
  BY <1>3, <1>5 DEF IsRoom, B!Untried
<1>7. InStep(m, d)
  BY <1>4, <1>6 DEF InStep, Agree, AnswerDue, IsDriver
<1>8. CASE o \in B!Finished(l, d)
  BY <1>4, <1>8, FinishedKeeps DEF InStep
<1>9. ASSUME NEW x, x \in B!Left(l, d) \/ x = [r |-> m, d |-> d], o = B!StateSent(x)
      PROVE  InStep(o.r, o.d) /\ Awake(o.r, o.d)
  <2>1. PICK xr, xd : xr = x.r /\ xd = x.d
    OBVIOUS
  <2>2. InStep(xr, xd)
    BY <1>4, <1>7, <1>9, <2>1, LeftKeeps
  <2>3. PICK mine, h : mine = (xr.active = "bot") /\ (xr.active = "bot" => mine) /\ h = B!hearState(xd, mine)
    OBVIOUS
  <2>4. /\ IsDriver(h) /\ h.over = xd.over /\ h.connected = xd.connected /\ h.back = xd.back /\ h.replies = xd.replies
        /\ h.rejected = xd.rejected /\ h.casts = xd.casts /\ (xr.active = "bot" => h.pending)
    BY <2>2, <2>3, HearsState DEF InStep, Agree, AnswerDue
  <2>5. x.r = xr /\ x.d = xd /\ x = [r |-> xr, d |-> xd]
    BY <1>9, <2>1 DEF B!Left
  <2>6. o = [x EXCEPT !.d = IF xr.seated THEN h ELSE xd]
    BY <1>9, <2>1, <2>3 DEF B!StateSent, B!Told
  <2>7. o.r = xr /\ o.d = IF xr.seated THEN h ELSE xd
    BY <2>5, <2>6
  <2>8. InStep(xr, h)
    BY <2>2, <2>4 DEF InStep, Agree, AnswerDue
  <2>9. Awake(xr, IF xr.seated THEN h ELSE xd)
    BY <2>2, <2>4 DEF InStep, Agree, AnswerDue, Awake
  <2> QED
    BY <2>2, <2>7, <2>8, <2>9
<1> QED
  BY <1>1, <1>5, <1>8, <1>9 DEF B!handleMove

(* A cast, of a card the bot has not seen refused in this phase. *)
LEMMA CastKeeps ==
  ASSUME BotKept, NEW r, NEW d, InStep(r, d), NEW card, card \notin d.rejected, card # B!None,
         behavior.level => d.casts < 3, NEW o \in B!TryCast(r, d, card)
  PROVE  InStep(o.r, o.d) /\ Awake(o.r, o.d)
<1>1. PICK c : c = [d EXCEPT !.casts = @ + 1]
  OBVIOUS
<1>2. IsRoom(r) /\ IsDriver(d) /\ IsDriver(c) /\ c.casts = d.casts + 1
      /\ c.over = d.over /\ c.connected = d.connected /\ c.back = d.back /\ c.replies = d.replies /\ c.rejected = d.rejected
  BY <1>1 DEF InStep, Agree, AnswerDue, IsDriver
<1>3. PICK x \in B!handleCastSpell(r, c, card) : o = [x EXCEPT !.d.pending = TRUE]
  BY <1>1 DEF B!TryCast
<1>4. PICK xr, xd : xr = x.r /\ xd = x.d
  OBVIOUS
<1>5. ASSUME x \in B!Refused(r, c, card) PROVE InStep(xr, xd) /\ x = [r |-> xr, d |-> xd]
  <2> PICK again : again = (r.again \/ card \in r.refused) /\ (again => r.again \/ card \in r.refused)
    OBVIOUS
  <2>1. /\ xr = [r EXCEPT !.refused = @ \cup {card}, !.again = again, !.tried = @ + 1]
        /\ xd = [c EXCEPT !.rejected = @ \cup {card}]
        /\ x = [r |-> xr, d |-> xd]
    BY <1>4, <1>5 DEF B!Refused, B!hearRefusal
  <2>2. /\ IsRoom(xr) /\ xr.active = r.active /\ xr.offer = r.offer /\ xr.over = r.over /\ xr.seated = r.seated
        /\ xr.refused = r.refused \cup {card} /\ xr.tried = r.tried + 1 /\ (xr.again => r.again \/ card \in r.refused)
    BY <1>2, <2>1 DEF IsRoom
  <2>3. /\ IsDriver(xd) /\ xd.casts = d.casts + 1 /\ xd.rejected = d.rejected \cup {card}
        /\ xd.over = d.over /\ xd.connected = d.connected /\ xd.back = d.back /\ xd.replies = d.replies
    BY <1>2, <2>1 DEF IsDriver
  <2>4. InStep(xr, xd)
    BY <2>2, <2>3 DEF InStep, Agree, AnswerDue, IsRoom, IsDriver
  <2> QED
    BY <2>1, <2>4
<1>6. ASSUME x \in B!Played(r, c, card) PROVE InStep(xr, xd) /\ x = [r |-> xr, d |-> xd]
  <2>1. PICK paid : paid = [r EXCEPT !.hand = @ \ {card}, !.cast = @ \cup {card}, !.tried = @ + 1]
    OBVIOUS
  <2>2. /\ IsRoom(paid) /\ paid.active = r.active /\ paid.offer = r.offer /\ paid.over = r.over /\ paid.seated = r.seated
        /\ paid.refused = r.refused /\ paid.tried = r.tried + 1 /\ paid.again = r.again
    BY <1>2, <2>1 DEF IsRoom
  <2>3. InStep(paid, c)
    BY <1>2, <2>2 DEF InStep, Agree, AnswerDue, IsRoom, IsDriver
  <2>4. x = [r |-> paid, d |-> c] \/ x \in B!Left(paid, c) \/ x \in B!Finished(paid, c)
    BY <1>6, <2>1 DEF B!Played
  <2>5. InStep(xr, xd)
    BY <1>4, <2>3, <2>4, LeftKeeps, FinishedKeeps DEF InStep
  <2>6. x = [r |-> xr, d |-> xd]
    BY <1>4, <2>4 DEF B!Left, B!Finished
  <2> QED
    BY <2>5, <2>6
<1>7. InStep(xr, xd) /\ x = [r |-> xr, d |-> xd]
  <2>1. x \in B!Refused(r, c, card) \/ x \in B!Played(r, c, card)
    BY <1>3 DEF B!handleCastSpell
  <2> QED
    BY <1>5, <1>6, <2>1
<1>8. PICK e : e = [xd EXCEPT !.pending = TRUE]
  OBVIOUS
<1>9. o.r = xr /\ o.d = e
  BY <1>3, <1>7, <1>8
<1>10. InStep(xr, e) /\ Awake(xr, e)
  BY <1>7, <1>8 DEF InStep, Agree, AnswerDue, IsDriver, Awake
<1> QED
  BY <1>9, <1>10

(* After its first move a bot may be gone, with the timer that brings it   *)
(* back.                                                                   *)
LEMMA LeavesKeeps ==
  ASSUME BotKept, NEW r, NEW d, InStep(r, d), Awake(r, d), NEW o, o = B!Leaves(B!Counted([r |-> r, d |-> d]))
  PROVE  InStep(o.r, o.d) /\ Awake(o.r, o.d)
<1>1. PICK c : c = [d EXCEPT !.moves = 1]
  OBVIOUS
<1>2. /\ IsDriver(c) /\ c.over = d.over /\ c.connected = d.connected /\ c.back = d.back /\ c.replies = d.replies
      /\ c.rejected = d.rejected /\ c.casts = d.casts /\ c.pending = d.pending
  BY <1>1 DEF InStep, Agree, AnswerDue, IsDriver
<1>3. InStep(r, c) /\ Awake(r, c)
  BY <1>2 DEF InStep, Agree, AnswerDue, Awake
<1>4. B!Counted([r |-> r, d |-> d]) = [r |-> r, d |-> c]
  BY <1>1 DEF B!Counted
<1>5. PICK p : p = [r |-> r, d |-> c] /\ p.r = r /\ p.d = c /\ o = B!Leaves(p)
  BY <1>4
<1>6. CASE behavior.leaves = "none" \/ driver.moves > 0
  <2>1. o = p
    BY <1>5, <1>6 DEF B!Leaves, B!None, B!Counted
  <2> QED
    BY <1>3, <1>5, <2>1
<1>7. CASE behavior.leaves = "disconnect" /\ ~(driver.moves > 0)
  <2>1. PICK e : e = [c EXCEPT !.connected = FALSE, !.back = behavior.returns]
    OBVIOUS
  <2>2. PICK q : q = [r EXCEPT !.away = ~r.over]
    OBVIOUS
  <2>3. o = [p EXCEPT !.d.connected = FALSE, !.d.back = behavior.returns, !.r.away = ~p.r.over]
    BY <1>5, <1>7 DEF B!Leaves, B!None
  <2>4. o.r = q /\ o.d = e
    BY <1>5, <2>1, <2>2, <2>3
  <2>5. /\ IsRoom(q) /\ q.active = r.active /\ q.offer = r.offer /\ q.over = r.over /\ q.seated = r.seated
        /\ q.refused = r.refused /\ q.tried = r.tried /\ q.again = r.again
    BY <2>2 DEF InStep, Agree, AnswerDue, IsRoom
  <2>6. /\ IsDriver(e) /\ e.over = c.over /\ ~e.connected /\ e.back = behavior.returns /\ e.replies = c.replies
        /\ e.rejected = c.rejected /\ e.casts = c.casts
    BY <1>2, <2>1 DEF IsDriver
  <2>7. InStep(q, e) /\ Awake(q, e)
    BY <1>3, <1>7, <2>5, <2>6 DEF InStep, Agree, AnswerDue, Awake, Stays
  <2> QED
    BY <2>4, <2>7
<1>8. CASE behavior.leaves = "restart" /\ ~(driver.moves > 0)
  <2>1. PICK e : e = [c EXCEPT !.connected = FALSE, !.back = TRUE]
    OBVIOUS
  <2>2. PICK q : q = [r EXCEPT !.seated = FALSE, !.present = FALSE, !.running = FALSE]
    OBVIOUS
  <2>3. o = [p EXCEPT !.d.connected = FALSE, !.d.back = TRUE, !.r.seated = FALSE, !.r.present = FALSE, !.r.running = FALSE]
    BY <1>5, <1>8 DEF B!Leaves, B!None
  <2>4. o.r = q /\ o.d = e
    BY <1>5, <2>1, <2>2, <2>3
  <2>5. /\ IsRoom(q) /\ q.active = r.active /\ q.offer = r.offer /\ q.over = r.over
        /\ q.refused = r.refused /\ q.tried = r.tried /\ q.again = r.again
    BY <2>2 DEF InStep, Agree, AnswerDue, IsRoom
  <2>6. /\ IsDriver(e) /\ e.over = c.over /\ ~e.connected /\ e.back /\ e.replies = c.replies
        /\ e.rejected = c.rejected /\ e.casts = c.casts
    BY <1>2, <2>1 DEF IsDriver
  <2>7. InStep(q, e) /\ Awake(q, e)
    BY <1>3, <1>8, <2>5, <2>6 DEF InStep, Agree, AnswerDue, Awake, Stays
  <2> QED
    BY <2>4, <2>7
<1> QED
  BY <1>6, <1>7, <1>8 DEF BotKept
LEMMA MovePairs ==
  ASSUME NEW r, NEW d, NEW o \in B!handleMove(r, d)
  PROVE  \E q, e : o = [r |-> q, d |-> e]
<1>1. ASSUME NEW x, NEW q, NEW e, x = [r |-> q, d |-> e], o = B!StateSent(x) PROVE \E qq, ee : o = [r |-> qq, d |-> ee]
  <2>1. PICK h : h = B!Told(q, e, B!hearState(e, q.active = "bot"))
    OBVIOUS
  <2>2. o = [r |-> q, d |-> h]
    BY <1>1, <2>1 DEF B!StateSent
  <2> QED
    BY <2>2
<1> QED
  BY <1>1 DEF B!handleMove, B!Left, B!Finished

(* The bot acts. *)
LEMMA ActKeeps ==
  ASSUME BotKept, B!act
  PROVE  InStep(room', driver') /\ Awake(room', driver')
<1>1. PICK idle : idle = [driver EXCEPT !.pending = FALSE]
  OBVIOUS
<1>2. IsRoom(room) /\ IsDriver(driver) /\ InStep(room, driver)
  BY DEF BotKept, InStep, Agree, AnswerDue
<1>3. /\ IsDriver(idle) /\ idle.over = driver.over /\ idle.connected = driver.connected /\ idle.back = driver.back
      /\ idle.replies = driver.replies /\ idle.rejected = driver.rejected /\ idle.casts = driver.casts
  BY <1>1, <1>2 DEF IsDriver
<1>4. InStep(room, idle)
  BY <1>2, <1>3 DEF InStep, Agree, AnswerDue
<1>5. PICK q, e : B!Offering(room, idle) = [r |-> q, d |-> e]
  BY DEF B!Offering
<1>6. InStep(q, e) /\ InStep(room, e)
  <2>1. CASE behavior.offerDraw /\ ~idle.offered
    <3>1. q = [room EXCEPT !.offer = IF @ = "none" THEN "bot" ELSE @] /\ e = [idle EXCEPT !.offered = TRUE]
      BY <1>5, <2>1 DEF B!Offering, B!None
    <3>2. /\ IsRoom(q) /\ q.active = room.active /\ (q.offer = "user" => room.offer = "user") /\ q.over = room.over
          /\ q.seated = room.seated /\ q.refused = room.refused /\ q.tried = room.tried /\ q.again = room.again
      BY <1>2, <3>1 DEF IsRoom
    <3>3. /\ IsDriver(e) /\ e.over = idle.over /\ e.connected = idle.connected /\ e.back = idle.back
          /\ e.replies = idle.replies /\ e.rejected = idle.rejected /\ e.casts = idle.casts
      BY <1>3, <3>1 DEF IsDriver
    <3> QED
      BY <1>4, <3>2, <3>3 DEF InStep, Agree, AnswerDue
  <2>2. CASE ~(behavior.offerDraw /\ ~idle.offered)
    <3>1. q = room /\ e = idle
      BY <1>5, <2>2 DEF B!Offering
    <3> QED
      BY <1>4, <3>1
  <2> QED
    BY <2>1, <2>2
<1>7. IF behavior.stall \/ ~B!send(driver) \/ room.active # "bot" THEN B!Becomes({[r |-> room, d |-> idle]})
      ELSE IF room.over THEN B!Becomes({[r |-> room, d |-> e]})
      ELSE IF B!InMain(room)
           THEN \E card \in B!Casts(q, e) :
                   B!Becomes(IF card = B!None THEN B!passPhase(q, e) ELSE B!TryCast(q, e, card))
           ELSE B!Becomes(B!playMove(q, e))
  <2>1. PICK o : o = B!Offering(room, idle) /\ o.r = q /\ o.d = e
    BY <1>5
  <2>2. IF behavior.stall \/ ~B!send(driver) \/ room.active # "bot" THEN B!Becomes({[r |-> room, d |-> idle]})
        ELSE IF room.over THEN B!Becomes({[r |-> room, d |-> o.d]})
        ELSE IF B!InMain(room)
             THEN \E card \in B!Casts(o.r, o.d) :
                     B!Becomes(IF card = B!None THEN B!passPhase(o.r, o.d) ELSE B!TryCast(o.r, o.d, card))
             ELSE B!Becomes(B!playMove(o.r, o.d))
    BY <1>1, <2>1, Zenon DEF B!act
  <2> QED
    BY <2>1, <2>2
<1>8. CASE behavior.stall \/ ~B!send(driver) \/ room.active # "bot"
  <2>1. room' = room /\ driver' = idle
    BY <1>7, <1>8 DEF B!Becomes
  <2>2. Awake(room, idle)
    BY <1>2, <1>3, <1>8 DEF Awake, InStep, Agree, AnswerDue, B!send
  <2> QED
    BY <1>4, <2>1, <2>2
<1>9. CASE ~(behavior.stall \/ ~B!send(driver) \/ room.active # "bot") /\ room.over
  <2>1. room' = room /\ driver' = e
    BY <1>7, <1>9 DEF B!Becomes
  <2>2. InStep(room, e) /\ Awake(room, e)
    BY <1>6, <1>9 DEF Awake
  <2> QED
    BY <2>1, <2>2
<1>10. CASE ~(behavior.stall \/ ~B!send(driver) \/ room.active # "bot") /\ ~room.over /\ B!InMain(room)
  <2>1. PICK card \in B!Casts(q, e) : B!Becomes(IF card = B!None THEN B!passPhase(q, e) ELSE B!TryCast(q, e, card))
    BY <1>7, <1>10
  <2>2. card # B!None => card \notin e.rejected /\ (behavior.level => e.casts < 3)
    BY <1>6, <2>1 DEF B!Casts, B!levelCast, B!chooseSpell, B!castable, B!pickCast, B!MAX_CASTS_PER_PHASE, InStep, Agree, AnswerDue, IsDriver
  <2>3. PICK o \in (IF card = B!None THEN B!passPhase(q, e) ELSE B!TryCast(q, e, card)) : room' = o.r /\ driver' = o.d
    BY <2>1 DEF B!Becomes
  <2>4. InStep(o.r, o.d) /\ Awake(o.r, o.d)
    BY <1>6, <2>2, <2>3, PassKeeps, CastKeeps
  <2> QED
    BY <2>3, <2>4
<1>11. CASE ~(behavior.stall \/ ~B!send(driver) \/ room.active # "bot") /\ ~room.over /\ ~B!InMain(room)
  <2>1. PICK o \in B!playMove(q, e) : room' = o.r /\ driver' = o.d
    BY <1>7, <1>11 DEF B!Becomes
  <2>2. CASE o \in B!passPhase(q, e)
    BY <1>6, <2>1, <2>2, PassKeeps
  <2>3. CASE \E x \in B!handleMove(q, e) : o = B!Leaves(B!Counted(x))
    <3>1. PICK x \in B!handleMove(q, e) : o = B!Leaves(B!Counted(x))
      BY <2>3
    <3>2. PICK xr, xd : x = [r |-> xr, d |-> xd]
      BY <3>1, MovePairs
    <3>3. InStep(xr, xd) /\ Awake(xr, xd)
      BY <1>6, <3>1, <3>2, MoveKeeps
    <3> QED
      BY <2>1, <3>1, <3>2, <3>3, LeavesKeeps
  <2> QED
    BY <2>1, <2>2, <2>3 DEF B!playMove
<1> QED
  BY <1>8, <1>9, <1>10, <1>11

(* It answers an offer, comes back, or is taken out of its room. *)
LEMMA ReplyKeeps ==
  ASSUME BotKept, B!reply
  PROVE  InStep(room', driver') /\ Awake(room', driver')
<1>1. PICK d : d = [driver EXCEPT !.replies = Tail(@)]
  OBVIOUS
<1>2. IsRoom(room) /\ IsDriver(driver) /\ Agree(room, driver) /\ AnswerDue(room, driver) /\ Awake(room, driver)
  BY DEF BotKept, InStep, Agree
<1>3. driver.replies \in Seq({"accept", "decline"}) /\ driver.replies # <<>>
  BY <1>2 DEF IsDriver, B!reply
<1>4. /\ IsDriver(d) /\ d.over = driver.over /\ d.connected = driver.connected /\ d.back = driver.back
      /\ d.rejected = driver.rejected /\ d.casts = driver.casts /\ d.pending = driver.pending
  BY <1>1, <1>2, <1>3 DEF IsDriver
<1>5. Agree(room, d) /\ Awake(room, d)
  BY <1>2, <1>4 DEF Agree, Awake
<1>6. CASE ~(B!send(driver) /\ room.offer = "user")
  <2>1. room' = room /\ driver' = d
    BY <1>1, <1>6 DEF B!reply, B!Becomes
  <2>2. AnswerDue(room, d)
    BY <1>2, <1>6 DEF AnswerDue, Agree, BotKept, B!send
  <2> QED
    BY <1>5, <2>1, <2>2 DEF InStep
<1>7. CASE B!send(driver) /\ room.offer = "user" /\ Head(driver.replies) = "accept"
  <2>1. PICK o \in B!Finished(room, d) : room' = o.r /\ driver' = o.d
    BY <1>1, <1>7 DEF B!reply, B!Becomes
  <2> QED
    BY <1>5, <2>1, FinishedKeeps
<1>8. CASE B!send(driver) /\ room.offer = "user" /\ Head(driver.replies) # "accept"
  <2>1. room' = [room EXCEPT !.offer = "none"] /\ driver' = d
    BY <1>1, <1>8 DEF B!reply, B!Becomes, B!None
  <2>2. PICK q : q = room'
    OBVIOUS
  <2>3. /\ IsRoom(q) /\ q.active = room.active /\ q.offer = "none" /\ q.over = room.over /\ q.seated = room.seated
        /\ q.refused = room.refused /\ q.tried = room.tried /\ q.again = room.again
    BY <1>2, <2>1, <2>2 DEF IsRoom
  <2>4. InStep(q, d) /\ Awake(q, d)
    BY <1>5, <2>3 DEF InStep, Agree, AnswerDue, Awake
  <2> QED
    BY <2>1, <2>2, <2>4
<1> QED
  BY <1>6, <1>7, <1>8
LEMMA ComeBackKeeps ==
  ASSUME BotKept, B!comeBack
  PROVE  InStep(room', driver') /\ Awake(room', driver')
<1>1. PICK d : d = [driver EXCEPT !.back = FALSE]
  OBVIOUS
<1>2. PICK q : q = [room EXCEPT !.away = FALSE, !.seated = TRUE, !.running = TRUE]
  OBVIOUS
<1>3. IsRoom(room) /\ IsDriver(driver) /\ InStep(room, driver)
  BY DEF BotKept, InStep, Agree
<1>4. /\ IsRoom(q) /\ q.active = room.active /\ q.offer = room.offer /\ q.over = room.over /\ q.seated
      /\ q.refused = room.refused /\ q.tried = room.tried /\ q.again = room.again
  BY <1>2, <1>3 DEF IsRoom
<1>5. /\ IsDriver(d) /\ d.over = driver.over /\ d.connected = driver.connected /\ d.replies = driver.replies
      /\ d.rejected = driver.rejected /\ d.casts = driver.casts
  BY <1>1, <1>3 DEF IsDriver
<1>6. CASE driver.over
  <2>1. room' = room /\ driver' = d
    BY <1>1, <1>6 DEF B!comeBack, B!Becomes
  <2>2. InStep(room, d) /\ Awake(room, d)
    BY <1>3, <1>5, <1>6 DEF InStep, Agree, AnswerDue, Awake, BotKept
  <2> QED
    BY <2>1, <2>2
<1>7. CASE ~driver.over
  <2>1. PICK c : c = [d EXCEPT !.connected = TRUE]
    OBVIOUS
  <2>2. /\ IsDriver(c) /\ c.over = driver.over /\ c.connected /\ c.replies = driver.replies
        /\ c.rejected = driver.rejected /\ c.casts = driver.casts
    BY <1>5, <2>1 DEF IsDriver
  <2>3. PICK mine, h : mine = (q.active = "bot") /\ (q.active = "bot" => mine) /\ h = B!hearState(c, mine)
    OBVIOUS
  <2>4. /\ IsDriver(h) /\ h.over = c.over /\ h.connected = c.connected /\ h.replies = c.replies
        /\ h.rejected = c.rejected /\ h.casts = c.casts /\ (q.active = "bot" => h.pending)
    <3>1. /\ IsDriver(h) /\ (h.pending <=> c.pending \/ mine)
          /\ h.over = c.over /\ h.connected = c.connected /\ h.back = c.back /\ h.replies = c.replies
          /\ h.rejected = c.rejected /\ h.casts = c.casts
      <4>1. h = B!hearState(c, mine)
        BY <2>3
      <4> QED
        BY <2>2, <4>1 DEF IsDriver, B!hearState, B!schedule
    <3> QED
      BY <2>3, <3>1
  <2>5. room' = q /\ driver' = h
    BY <1>1, <1>2, <1>7, <2>1, <2>3 DEF B!comeBack, B!Becomes
  <2>6. InStep(q, h) /\ Awake(q, h)
    BY <1>3, <1>4, <2>2, <2>4 DEF InStep, Agree, AnswerDue, Awake
  <2> QED
    BY <2>5, <2>6
<1> QED
  BY <1>6, <1>7
LEMMA DisposeKeeps ==
  ASSUME BotKept, B!dispose
  PROVE  InStep(room', driver') /\ Awake(room', driver')
<1>1. PICK q, d : q = [room EXCEPT !.over = TRUE] /\ d = [driver EXCEPT !.pending = FALSE, !.over = TRUE]
  OBVIOUS
<1>2. room' = q /\ driver' = d
  BY <1>1 DEF B!dispose, B!Becomes
<1>3. IsRoom(room) /\ IsDriver(driver) /\ InStep(room, driver)
  BY DEF BotKept, InStep, Agree
<1>4. /\ IsRoom(q) /\ q.over /\ q.seated = room.seated /\ q.refused = room.refused /\ q.tried = room.tried /\ q.again = room.again
  BY <1>1, <1>3 DEF IsRoom
<1>5. /\ IsDriver(d) /\ d.over /\ d.connected = driver.connected /\ d.rejected = driver.rejected /\ d.casts = driver.casts
  BY <1>1, <1>3 DEF IsDriver
<1>6. InStep(q, d) /\ Awake(q, d)
  BY <1>3, <1>4, <1>5 DEF InStep, Agree, AnswerDue, Awake
<1> QED
  BY <1>2, <1>6

(* The user, the clock and the timer of abandonment. *)
LEMMA RoomChanges ==
  ASSUME BotKept, NEW q, IsRoom(q), q.active = room.active, q.offer \in {"none", room.offer}, q.over = room.over,
         q.seated \/ q.seated = room.seated, q.refused = room.refused, q.tried = room.tried, q.again = room.again,
         room' = q, driver' = driver
  PROVE  InStep(room', driver') /\ Awake(room', driver')
<1>1. InStep(q, driver) /\ Awake(q, driver)
  BY DEF BotKept, InStep, Agree, AnswerDue, Awake
<1> QED
  BY <1>1
LEMMA OffersKeep ==
  ASSUME BotKept, B!UserOffers
  PROVE  InStep(room', driver') /\ Awake(room', driver')
<1>1. PICK q : q = [room EXCEPT !.offer = "user", !.offers = @ + 1]
  OBVIOUS
<1>2. PICK d : d = B!Told(q, driver, B!hearOffer(driver))
  OBVIOUS
<1>3. room' = q /\ driver' = d
  BY <1>1, <1>2 DEF B!UserOffers, B!Becomes
<1>4. IsRoom(room) /\ IsDriver(driver) /\ InStep(room, driver) /\ Awake(room, driver)
  BY DEF BotKept, InStep, Agree
<1>5. /\ IsRoom(q) /\ q.active = room.active /\ q.over = room.over /\ q.seated = room.seated
      /\ q.refused = room.refused /\ q.tried = room.tried /\ q.again = room.again
  BY <1>1, <1>4 DEF IsRoom
<1>6. CASE behavior.answers
  <2>1. driver.connected /\ room.seated
    BY <1>4, <1>6 DEF BotKept, InStep, Agree
  <2>2. PICK accepts : accepts = (~behavior.level /\ driver.declined >= 1)
    OBVIOUS
  <2>3. PICK a \in {"accept", "decline"} : a = IF accepts THEN "accept" ELSE "decline"
    OBVIOUS
  <2>4. PICK n : n = IF accepts \/ behavior.level THEN driver.declined ELSE driver.declined + 1
    OBVIOUS
  <2>5. d = [driver EXCEPT !.replies = Append(@, a), !.declined = n]
    BY <1>2, <1>5, <1>6, <2>1, <2>2, <2>3, <2>4 DEF B!Told, B!hearOffer
  <2>6. PICK replies : replies = Append(driver.replies, a)
    OBVIOUS
  <2>7. replies \in Seq({"accept", "decline"}) /\ replies # <<>>
    BY <1>4, <2>6 DEF IsDriver
  <2>8. /\ IsDriver(d) /\ d.over = driver.over /\ d.connected = driver.connected /\ d.back = driver.back /\ d.replies # <<>>
        /\ d.rejected = driver.rejected /\ d.casts = driver.casts /\ d.pending = driver.pending
    BY <1>4, <2>5, <2>6, <2>7 DEF IsDriver
  <2>9. InStep(q, d) /\ Awake(q, d)
    BY <1>4, <1>5, <2>8 DEF InStep, Agree, AnswerDue, Awake
  <2> QED
    BY <1>3, <2>9
<1>7. CASE ~behavior.answers
  <2>1. d = driver
    BY <1>2, <1>7 DEF B!Told, B!hearOffer
  <2>2. InStep(q, driver) /\ Awake(q, driver)
    BY <1>4, <1>5, <1>7 DEF InStep, Agree, AnswerDue, Awake
  <2> QED
    BY <1>3, <2>1, <2>2
<1> QED
  BY <1>6, <1>7
LEMMA BotSteps ==
  ASSUME BotKept, [B!Next]_(B!vars)
  PROVE  BotKept'
<1>1. InStep(room, driver) /\ Awake(room, driver) /\ IsRoom(room)
  BY DEF BotKept, InStep, Agree
<1>2. CASE UNCHANGED B!vars
  BY <1>2 DEF B!vars, BotKept, InStep, Agree, AnswerDue, Awake, Stays
<1>3. ASSUME UNCHANGED behavior, InStep(room', driver') /\ Awake(room', driver') PROVE BotKept'
  <2>1. PICK q, d : q = room' /\ d = driver' /\ InStep(q, d) /\ Awake(q, d)
    BY <1>3
  <2>2. (InStep(q, d) /\ Awake(q, d))'
    BY <1>3, <2>1 DEF InStep, Agree, AnswerDue, Awake, Stays
  <2> QED
    BY <1>3, <2>1, <2>2 DEF BotKept, Stays
<1>4. ASSUME NEW s, B!Becomes(s), \A o \in s : InStep(o.r, o.d) /\ Awake(o.r, o.d) PROVE InStep(room', driver') /\ Awake(room', driver')
  BY <1>4 DEF B!Becomes
<1>5. /\ \A o \in B!passPhase(room, driver) : InStep(o.r, o.d) /\ Awake(o.r, o.d)
      /\ \A o \in B!handleMove(room, driver) : InStep(o.r, o.d) /\ Awake(o.r, o.d)
      /\ \A o \in B!Finished(room, driver) : InStep(o.r, o.d) /\ Awake(o.r, o.d)
  BY <1>1, PassKeeps, MoveKeeps, FinishedKeeps DEF InStep
<1>6. CASE B!act
  BY <1>3, <1>6, ActKeeps DEF B!act
<1>7. CASE B!reply
  BY <1>3, <1>7, ReplyKeeps DEF B!reply
<1>8. CASE B!comeBack
  BY <1>3, <1>8, ComeBackKeeps DEF B!comeBack
<1>9. CASE B!dispose
  BY <1>3, <1>9, DisposeKeeps DEF B!dispose
<1>10. CASE B!UserPlays
  <2>1. B!Becomes(B!passPhase(room, driver)) \/ B!Becomes(B!handleMove(room, driver))
    BY <1>10 DEF B!UserPlays
  <2> QED
    BY <1>3, <1>4, <1>5, <1>10, <2>1 DEF B!UserPlays, B!Going
<1>11. CASE B!UserOffers
  BY <1>3, <1>11, OffersKeep DEF B!UserOffers, B!Going
<1>12. CASE B!UserAnswers
  <2>1. CASE \E o \in B!Finished(room, driver) : room' = o.r /\ driver' = o.d
    BY <1>3, <1>5, <1>12, <2>1 DEF B!UserAnswers, B!Going
  <2>2. CASE room' = [room EXCEPT !.offer = "none"] /\ driver' = driver
    <3>1. PICK q : q = [room EXCEPT !.offer = "none"]
      OBVIOUS
    <3>2. /\ IsRoom(q) /\ q.active = room.active /\ q.offer = "none" /\ q.over = room.over /\ q.seated = room.seated
          /\ q.refused = room.refused /\ q.tried = room.tried /\ q.again = room.again
      BY <1>1, <3>1 DEF IsRoom
    <3> QED
      BY <1>3, <1>12, <2>2, <3>1, <3>2, RoomChanges DEF B!UserAnswers, B!Going
  <2> QED
    BY <1>12, <2>1, <2>2 DEF B!UserAnswers, B!Becomes, B!None
<1>13. CASE B!UserResigns
  BY <1>3, <1>4, <1>5, <1>13 DEF B!UserResigns, B!Going
<1>14. CASE B!UserReturns
  <2>1. PICK q : q = [room EXCEPT !.present = TRUE, !.running = TRUE]
    OBVIOUS
  <2>2. room' = q /\ driver' = driver
    BY <1>14, <2>1 DEF B!UserReturns, B!Becomes
  <2>3. /\ IsRoom(q) /\ q.active = room.active /\ q.offer = room.offer /\ q.over = room.over /\ q.seated = room.seated
        /\ q.refused = room.refused /\ q.tried = room.tried /\ q.again = room.again
    BY <1>1, <2>1 DEF IsRoom
  <2> QED
    BY <1>3, <1>14, <2>2, <2>3, RoomChanges DEF B!UserReturns, B!Going
<1>15. CASE B!PhaseExpires
  <2>1. B!Becomes(B!passPhase(room, driver)) \/ B!Becomes(B!Finished(room, driver))
    BY <1>15 DEF B!PhaseExpires
  <2> QED
    BY <1>3, <1>4, <1>5, <1>15, <2>1 DEF B!PhaseExpires, B!Going
<1>16. CASE B!Abandoned
  BY <1>3, <1>4, <1>5, <1>16 DEF B!Abandoned, B!Going
<1> QED
  BY <1>2, <1>6, <1>7, <1>8, <1>9, <1>10, <1>11, <1>12, <1>13, <1>14, <1>15, <1>16 DEF B!Next, B!User
LEMMA BotStarts ==
  ASSUME B!Init
  PROVE  BotKept
<1>1. PICK first \in {"bot", "user"}, grave \in BOOLEAN :
        /\ room = [active |-> first, phase |-> "main1", second |-> FALSE, hand |-> B!Cards, cast |-> {}, grave |-> grave,
                   turns |-> 1, offer |-> "none", offers |-> 0, over |-> FALSE, seated |-> TRUE, present |-> TRUE, running |-> TRUE,
                   away |-> FALSE, tried |-> 0, refused |-> {}, again |-> FALSE]
        /\ driver = [pending |-> first = "bot", rejected |-> {}, casts |-> 0, moves |-> 0, offered |-> FALSE, declined |-> 0,
                     replies |-> <<>>, over |-> FALSE, connected |-> TRUE, back |-> FALSE]
  BY DEF B!Init, B!None
<1>2. /\ IsRoom(room) /\ room.active = first /\ room.offer = "none" /\ ~room.over /\ room.seated /\ room.refused = {}
      /\ room.tried = 0 /\ ~room.again
  BY <1>1 DEF IsRoom
<1>3. PICK mine : mine = (first = "bot") /\ (first = "bot" => mine)
  OBVIOUS
<1>4. /\ IsDriver(driver) /\ (first = "bot" => driver.pending) /\ ~driver.over /\ driver.connected /\ driver.casts = 0
  <2>1. driver = [pending |-> mine, rejected |-> {}, casts |-> 0, moves |-> 0, offered |-> FALSE, declined |-> 0,
                  replies |-> <<>>, over |-> FALSE, connected |-> TRUE, back |-> FALSE]
    BY <1>1, <1>3
  <2> QED
    BY <1>3, <2>1 DEF IsDriver
<1>5. behavior.leaves \in {"none", "disconnect", "restart"} /\ (behavior.answers => Stays) /\ (behavior.level => Stays)
  <2>1. behavior \in B!setupScenario \cup {B!joinBot}
    BY DEF B!Init
  <2>2. PICK q : q = B!Quiet
    OBVIOUS
  <2>3. q = [level |-> FALSE, castSpells |-> FALSE, stall |-> FALSE, offerDraw |-> FALSE, answers |-> FALSE, leaves |-> "none",
             returns |-> FALSE]
    BY <2>2 DEF B!Quiet, B!None
  <2>4. behavior \in {q, [q EXCEPT !.castSpells = TRUE], [q EXCEPT !.stall = TRUE], [q EXCEPT !.offerDraw = TRUE, !.answers = TRUE],
                     [q EXCEPT !.leaves = "disconnect"], [q EXCEPT !.leaves = "disconnect", !.returns = TRUE],
                     [q EXCEPT !.leaves = "restart", !.returns = TRUE], [q EXCEPT !.level = TRUE, !.answers = TRUE]}
    BY <2>1, <2>2 DEF B!setupScenario, B!joinBot
  <2>5. CASE behavior = q
    BY <2>3, <2>5 DEF Stays
  <2>6. CASE behavior = [q EXCEPT !.castSpells = TRUE]
    BY <2>3, <2>6 DEF Stays
  <2>7. CASE behavior = [q EXCEPT !.stall = TRUE]
    BY <2>3, <2>7 DEF Stays
  <2>8. CASE behavior = [q EXCEPT !.offerDraw = TRUE, !.answers = TRUE]
    BY <2>3, <2>8 DEF Stays
  <2>9. CASE behavior = [q EXCEPT !.leaves = "disconnect"]
    BY <2>3, <2>9 DEF Stays
  <2>10. CASE behavior = [q EXCEPT !.leaves = "disconnect", !.returns = TRUE]
    BY <2>3, <2>10 DEF Stays
  <2>11. CASE behavior = [q EXCEPT !.leaves = "restart", !.returns = TRUE]
    BY <2>3, <2>11 DEF Stays
  <2>12. CASE behavior = [q EXCEPT !.level = TRUE, !.answers = TRUE]
    BY <2>3, <2>12 DEF Stays
  <2> QED
    BY <2>4, <2>5, <2>6, <2>7, <2>8, <2>9, <2>10, <2>11, <2>12
<1> QED
  BY <1>2, <1>4, <1>5 DEF BotKept, InStep, Agree, AnswerDue, Awake

(* A bot that may act has something to wake it, an offer it should answer  *)
(* has its answer on the way, and a spell refused in a phase is not tried  *)
(* again in it: the invariant that the run client_parts checks of the part *)
(* "bot", for any number of turns and of offers (scenarios/bot.ts).        *)
THEOREM BotGoesOn == Spec => []BotIsSound
<1> DEFINE Inv == part = "bot" => BotKept
<1>1. Init => Inv
  <2> SUFFICES ASSUME Init, part = "bot" PROVE BotKept
    OBVIOUS
  <2>1. B!Init
    BY DEF Init
  <2> QED
    BY <2>1, BotStarts
<1>2. Inv /\ [Next]_vars => Inv'
  BY StepsOfBot, BotSteps
<1>3. BotKept => B!BotPlaysOn
  BY DEF BotKept, InStep, Agree, AnswerDue, Awake, IsRoom, IsDriver, B!BotPlaysOn, B!Woken, B!OffersAreAnswered, B!TriesEnd,
         B!MAX_CASTS_PER_PHASE
<1>4. Inv => BotIsSound
  BY <1>3 DEF BotIsSound
<1> QED
  BY <1>1, <1>2, <1>4, PTL DEF Spec
-----------------------------------------------------------------------------
(***************************************************************************)
(* Friends and challenges.  What the server holds is sound after every     *)
(* handler: links and challenges are taken away, or one is added that the  *)
(* outcome of the request allows.                                          *)
(***************************************************************************)
LEMMA StepsOfSocial ==
  [Next]_vars /\ part' = "social" => part = "social" /\ [S!Next]_(S!vars)
<1>1. ASSUME UNCHANGED vars PROVE part' = part /\ UNCHANGED S!vars
  BY <1>1 DEF vars, ofSocial, S!vars, S!server, S!device
<1>2. ASSUME Next PROVE part' = part /\ (part = "social" => S!Next)
  BY <1>2 DEF Next, WireStep, AccountStep, SocialStep, DecksStep, ScreenStep, BotStep, PagesStep
<1> QED
  BY <1>1, <1>2

(* Links L and challenges Ch, with the blocks b, the deleted users g and   *)
(* those who play p; a challenge of the server has an id above h.          *)
Between(l, u, v) == (l.requester = u /\ l.addressee = v) \/ (l.requester = v /\ l.addressee = u)
Apart(u, v, b) == <<u, v>> \notin b /\ <<v, u>> \notin b
AllLinks == [requester : People, addressee : People, status : {"pending", "accepted"}]
LinksOk(L, b, g) ==
  /\ L \subseteq AllLinks
  /\ \A l \in L : l.requester # l.addressee /\ l.requester \notin g /\ l.addressee \notin g /\ Apart(l.requester, l.addressee, b)
  /\ \A k, l \in L : Between(k, l.requester, l.addressee) => k = l
FriendsIn(L, u) == {v \in People : v # u /\ \E l \in L : Between(l, u, v) /\ l.status = "accepted"}
AskedIn(L, u) == {v \in People : v # u /\ \E l \in L : Between(l, u, v) /\ l.status = "pending" /\ l.requester = u}
Limited(L) == \A u \in People : Cardinality(FriendsIn(L, u)) <= MaxFriends /\ Cardinality(AskedIn(L, u)) <= MaxPendingOut
ChallengesOk(Ch, b, g, p, h) ==
  /\ Ch \subseteq [id : Nat, from : People, to : People]
  /\ \A c \in Ch : /\ c.from \notin g /\ c.to \notin g /\ c.from \notin p /\ c.to \notin p
                   /\ Apart(c.from, c.to, b) /\ c.id > h
  /\ \A c, d \in Ch : c.from = d.from => c = d
ServerOk == LinksOk(links, blocks, gone) /\ Limited(links) /\ ChallengesOk(challenges, blocks, gone, playing, left.handled)

(* The operators of the server in these terms.                             *)
LEMMA PairsOf ==
  /\ \A a, b, c, d : {a, b} = {c, d} <=> ((a = c /\ b = d) \/ (a = d /\ b = c))
  /\ \A l, u, v : {l.requester, l.addressee} = {u, v} <=> Between(l, u, v)
<1>1. ASSUME NEW a, NEW b, NEW c, NEW d PROVE {a, b} = {c, d} <=> ((a = c /\ b = d) \/ (a = d /\ b = c))
  <2>1. {a, b} = {c, d} => (a = c \/ a = d) /\ (b = c \/ b = d) /\ (c = a \/ c = b) /\ (d = a \/ d = b)
    OBVIOUS
  <2>2. (a = c /\ b = d) \/ (a = d /\ b = c) => {a, b} = {c, d}
    OBVIOUS
  <2> QED
    BY <2>1, <2>2
<1> QED
  BY <1>1 DEF Between
LEMMA CardinalityOf == ASSUME NEW X PROVE S!Cardinality(X) = Cardinality(X)
BY DEF S!Cardinality, Cardinality
LEMMA LinksBetween ==
  /\ \A u, v : S!link(u, v) = {l \in links : Between(l, u, v)}
  /\ \A u, v : S!IsAccepted(u, v) <=> \E l \in links : Between(l, u, v) /\ l.status = "accepted"
  /\ \A u, v : S!Pending(u, v) <=> \E l \in links : Between(l, u, v) /\ l.status = "pending" /\ l.requester = u
  /\ \A u \in People : S!friendsOf(u) = FriendsIn(links, u) /\ S!pendingOut(u) = AskedIn(links, u)
  /\ \A u, v \in People : v \in S!hiddenFor(u) <=> ~Apart(u, v, blocks)
<1>1. \A u, v : S!link(u, v) = {l \in links : Between(l, u, v)}
  BY PairsOf DEF S!link
<1>2. \A u, v : S!IsAccepted(u, v) <=> \E l \in links : Between(l, u, v) /\ l.status = "accepted"
  BY <1>1 DEF S!IsAccepted
<1>3. \A u, v : S!Pending(u, v) <=> \E l \in links : Between(l, u, v) /\ l.status = "pending" /\ l.requester = u
  BY <1>1 DEF S!Pending
<1>4. \A u \in People : S!friendsOf(u) = FriendsIn(links, u) /\ S!pendingOut(u) = AskedIn(links, u)
  BY <1>2, <1>3 DEF S!friendsOf, S!pendingOut, FriendsIn, AskedIn
<1>5. \A u, v \in People : v \in S!hiddenFor(u) <=> ~Apart(u, v, blocks)
  BY DEF S!hiddenFor, Apart
<1> QED
  BY <1>1, <1>2, <1>3, <1>4, <1>5

(* Fewer links, with no more blocked or deleted than those left allow.     *)
LEMMA FewerLinks ==
  ASSUME NEW L, NEW M, NEW b, NEW c, NEW g, NEW h, LinksOk(L, b, g), Limited(L), M \subseteq L,
         \A l \in M : l.requester \notin h /\ l.addressee \notin h /\ Apart(l.requester, l.addressee, c)
  PROVE  LinksOk(M, c, h) /\ Limited(M)
<1>1. LinksOk(M, c, h)
  BY DEF LinksOk
<1>2. ASSUME NEW u \in People PROVE Cardinality(FriendsIn(M, u)) <= MaxFriends /\ Cardinality(AskedIn(M, u)) <= MaxPendingOut
  <2>1. FriendsIn(M, u) \subseteq FriendsIn(L, u) /\ AskedIn(M, u) \subseteq AskedIn(L, u)
    BY DEF FriendsIn, AskedIn
  <2>2. IsFiniteSet(FriendsIn(L, u)) /\ IsFiniteSet(AskedIn(L, u))
    BY PartsAssumption, FS_Subset DEF FriendsIn, AskedIn
  <2>3. Cardinality(FriendsIn(M, u)) <= Cardinality(FriendsIn(L, u)) /\ Cardinality(AskedIn(M, u)) <= Cardinality(AskedIn(L, u))
    BY <2>1, <2>2, FS_Subset
  <2>4. /\ Cardinality(FriendsIn(M, u)) \in Nat /\ Cardinality(FriendsIn(L, u)) \in Nat
        /\ Cardinality(AskedIn(M, u)) \in Nat /\ Cardinality(AskedIn(L, u)) \in Nat
    BY <2>1, <2>2, FS_Subset, FS_CardinalityType
  <2> QED
    BY <2>3, <2>4, PartsAssumption DEF Limited
<1> QED
  BY <1>1, <1>2 DEF Limited

(* A set with one more member, or none, and the bounds on it.              *)
LEMMA OneMore ==
  ASSUME NEW X, NEW Y, NEW x, NEW n \in Nat, IsFiniteSet(X), Y \subseteq X \cup {x}
  PROVE  /\ Cardinality(X) < n => Cardinality(Y) <= n
         /\ Cardinality(X) <= n /\ x \in X => Cardinality(Y) <= n
<1>1. IsFiniteSet(X \cup {x}) /\ Cardinality(X \cup {x}) = IF x \in X THEN Cardinality(X) ELSE Cardinality(X) + 1
  BY FS_AddElement
<1>2. Cardinality(Y) <= Cardinality(X \cup {x}) /\ IsFiniteSet(Y)
  BY <1>1, FS_Subset
<1>3. Cardinality(X) \in Nat /\ Cardinality(Y) \in Nat
  BY <1>2, FS_CardinalityType
<1> QED
  BY <1>1, <1>2, <1>3
LEMMA Subsets ==
  ASSUME NEW X, NEW Y, NEW n \in Nat, IsFiniteSet(X), Y \subseteq X, Cardinality(X) <= n
  PROVE  Cardinality(Y) <= n
<1>1. Cardinality(Y) <= Cardinality(X) /\ IsFiniteSet(Y)
  BY FS_Subset
<1> QED
  BY <1>1, FS_CardinalityType
LEMMA FiniteLists ==
  ASSUME NEW L, NEW u \in People
  PROVE  IsFiniteSet(FriendsIn(L, u)) /\ IsFiniteSet(AskedIn(L, u))
BY PartsAssumption, FS_Subset DEF FriendsIn, AskedIn

(* A link more, asked for by u of v, or accepted between them.             *)
LEMMA AskedLink ==
  ASSUME NEW L, NEW b, NEW g, NEW u \in People, NEW v \in People, u # v, LinksOk(L, b, g), Limited(L),
         \A l \in L : ~Between(l, u, v), u \notin g, v \notin g, Apart(u, v, b), Cardinality(AskedIn(L, u)) < MaxPendingOut
  PROVE  LinksOk(L \cup {[requester |-> u, addressee |-> v, status |-> "pending"]}, b, g)
         /\ Limited(L \cup {[requester |-> u, addressee |-> v, status |-> "pending"]})
<1>1. PICK k, M : k = [requester |-> u, addressee |-> v, status |-> "pending"] /\ M = L \cup {k}
  OBVIOUS
<1>2. k \in AllLinks /\ k.requester = u /\ k.addressee = v /\ k.status = "pending"
  BY <1>1 DEF AllLinks
<1>3. LinksOk(M, b, g)
  <2>1. \A l \in L : ~Between(l, k.requester, k.addressee) /\ ~Between(k, l.requester, l.addressee)
    BY <1>2 DEF Between
  <2> QED
    BY <1>1, <1>2, <2>1 DEF LinksOk
<1>4. ASSUME NEW w \in People PROVE Cardinality(FriendsIn(M, w)) <= MaxFriends /\ Cardinality(AskedIn(M, w)) <= MaxPendingOut
  <2>1. FriendsIn(M, w) \subseteq FriendsIn(L, w)
    BY <1>1, <1>2 DEF FriendsIn
  <2>2. AskedIn(M, w) \subseteq AskedIn(L, w) \cup {v} /\ (w # u => AskedIn(M, w) \subseteq AskedIn(L, w))
    BY <1>1, <1>2 DEF AskedIn, Between
  <2>3. Cardinality(FriendsIn(L, w)) <= MaxFriends /\ Cardinality(AskedIn(L, w)) <= MaxPendingOut
    BY DEF Limited
  <2>4. MaxFriends \in Nat /\ MaxPendingOut \in Nat
    BY PartsAssumption
  <2>5. Cardinality(FriendsIn(M, w)) <= MaxFriends
    BY <2>1, <2>3, <2>4, FiniteLists, Subsets
  <2>6. CASE w = u
    BY <2>2, <2>4, <2>5, <2>6, FiniteLists, OneMore
  <2>7. CASE w # u
    BY <2>2, <2>3, <2>4, <2>5, <2>7, FiniteLists, Subsets
  <2> QED
    BY <2>6, <2>7
<1> QED
  BY <1>1, <1>3, <1>4 DEF Limited
LEMMA AcceptedLink ==
  ASSUME NEW L, NEW b, NEW g, NEW u \in People, NEW v \in People, u # v, LinksOk(L, b, g), Limited(L),
         u \notin g, v \notin g, Apart(u, v, b),
         Cardinality(FriendsIn(L, u)) < MaxFriends, Cardinality(FriendsIn(L, v)) < MaxFriends
  PROVE  LinksOk({l \in L : ~Between(l, u, v)} \cup {[requester |-> u, addressee |-> v, status |-> "accepted"]}, b, g)
         /\ Limited({l \in L : ~Between(l, u, v)} \cup {[requester |-> u, addressee |-> v, status |-> "accepted"]})
<1>1. PICK k, K, M : /\ k = [requester |-> u, addressee |-> v, status |-> "accepted"]
                     /\ K = {l \in L : ~Between(l, u, v)} /\ M = K \cup {k}
  OBVIOUS
<1>2. k \in AllLinks /\ k.requester = u /\ k.addressee = v /\ k.status = "accepted"
  BY <1>1 DEF AllLinks
<1>3. LinksOk(M, b, g)
  <2>1. \A l \in K : ~Between(l, k.requester, k.addressee) /\ ~Between(k, l.requester, l.addressee)
    BY <1>1, <1>2 DEF Between
  <2>2. K \subseteq L
    BY <1>1
  <2> QED
    BY <1>1, <1>2, <2>1, <2>2 DEF LinksOk
<1>4. ASSUME NEW w \in People PROVE Cardinality(FriendsIn(M, w)) <= MaxFriends /\ Cardinality(AskedIn(M, w)) <= MaxPendingOut
  <2>1. AskedIn(M, w) \subseteq AskedIn(L, w)
    BY <1>1, <1>2 DEF AskedIn
  <2>2. /\ w = u => FriendsIn(M, w) \subseteq FriendsIn(L, w) \cup {v}
        /\ w = v => FriendsIn(M, w) \subseteq FriendsIn(L, w) \cup {u}
        /\ w \notin {u, v} => FriendsIn(M, w) \subseteq FriendsIn(L, w)
    BY <1>1, <1>2 DEF FriendsIn, Between
  <2>3. Cardinality(FriendsIn(L, w)) <= MaxFriends /\ Cardinality(AskedIn(L, w)) <= MaxPendingOut
    BY DEF Limited
  <2>4. MaxFriends \in Nat /\ MaxPendingOut \in Nat
    BY PartsAssumption
  <2>5. Cardinality(AskedIn(M, w)) <= MaxPendingOut
    BY <2>1, <2>3, <2>4, FiniteLists, Subsets
  <2>6. CASE w = u
    BY <2>2, <2>4, <2>5, <2>6, FiniteLists, OneMore
  <2>7. CASE w = v
    BY <2>2, <2>4, <2>5, <2>7, FiniteLists, OneMore
  <2>8. CASE w \notin {u, v}
    BY <2>2, <2>3, <2>4, <2>5, <2>8, FiniteLists, Subsets
  <2> QED
    BY <2>6, <2>7, <2>8
<1> QED
  BY <1>1, <1>3, <1>4 DEF Limited

(* Fewer challenges, with the ids still to come below theirs; one more of  *)
(* u to v, which takes the place of the one u had.                         *)
LEMMA FewerChallenges ==
  ASSUME NEW Ch, NEW Some, NEW b, NEW b2, NEW g, NEW g2, NEW p, NEW p2, NEW h \in Nat, NEW h2 \in Nat,
         ChallengesOk(Ch, b, g, p, h), Some \subseteq Ch, h2 <= h,
         \A c \in Some : /\ c.from \notin g2 /\ c.to \notin g2 /\ c.from \notin p2 /\ c.to \notin p2
                         /\ Apart(c.from, c.to, b2)
  PROVE  ChallengesOk(Some, b2, g2, p2, h2)
<1>1. \A c \in Some : c \in [id : Nat, from : People, to : People] /\ c.id > h
  BY DEF ChallengesOk
<1>2. \A c \in Some : c.id > h2
  BY <1>1
<1> QED
  BY <1>1, <1>2 DEF ChallengesOk
LEMMA OneChallengeMore ==
  ASSUME NEW Ch, NEW b, NEW g, NEW p, NEW h \in Nat, h > 0, NEW u \in People, NEW v \in People,
         ChallengesOk(Ch, b, g, p, h), u \notin g, v \notin g, u \notin p, v \notin p, Apart(u, v, b)
  PROVE  ChallengesOk({c \in Ch : c.from # u} \cup {[id |-> h, from |-> u, to |-> v]}, b, g, p, h - 1)
<1>1. PICK n, Some : n = [id |-> h, from |-> u, to |-> v] /\ Some = {c \in Ch : c.from # u}
  OBVIOUS
<1>2. n \in [id : Nat, from : People, to : People] /\ n.id = h /\ n.from = u /\ n.to = v
  BY <1>1
<1>3. ChallengesOk(Some, b, g, p, h - 1) /\ \A c \in Some : c.from # u
  BY <1>1, FewerChallenges DEF ChallengesOk
<1> QED
  BY <1>1, <1>2, <1>3 DEF ChallengesOk

(* What every handler of a user starts from.                               *)
LeftOk == left \in [handled : Nat, signals : Nat]
Spent == left.handled > 0 /\ left' = [left EXCEPT !.handled = @ - 1]
LEMMA Counts ==
  ASSUME LeftOk, Spent
  PROVE  LeftOk' /\ left.handled \in Nat /\ left.handled > 0 /\ left'.handled = left.handled - 1
BY DEF LeftOk, Spent
LEMMA LinksGo ==
  ASSUME ServerOk, LeftOk, Spent, links' \subseteq links, challenges' \subseteq challenges,
         \A l \in links' : l.requester \notin gone' /\ l.addressee \notin gone' /\ Apart(l.requester, l.addressee, blocks'),
         \A c \in challenges' : /\ c.from \notin gone' /\ c.to \notin gone' /\ c.from \notin playing' /\ c.to \notin playing'
                                /\ Apart(c.from, c.to, blocks')
  PROVE  ServerOk'
<1>1. LinksOk(links', blocks', gone') /\ Limited(links')
  BY FewerLinks DEF ServerOk
<1>2. ChallengesOk(challenges', blocks', gone', playing', left'.handled)
  <2>1. left.handled \in Nat /\ left'.handled \in Nat /\ left'.handled <= left.handled
    BY Counts
  <2> QED
    BY <2>1, FewerChallenges DEF ServerOk
<1> QED
  BY <1>1, <1>2 DEF ServerOk

(* One lemma for each handler that adds something.                         *)
LEMMA RequestKeeps ==
  ASSUME ServerOk, LeftOk, Spent, NEW u \in People, NEW v \in People, u # v, u \notin gone, S!request(u, v)
  PROVE  ServerOk'
<1>1. /\ v \notin gone /\ Apart(u, v, blocks) /\ ~S!IsAccepted(u, v) /\ ~S!Pending(u, v)
      /\ ~(Cardinality(S!friendsOf(u)) >= MaxFriends) /\ ~(Cardinality(S!friendsOf(v)) >= MaxFriends)
      /\ (S!Pending(v, u) \/ ~(Cardinality(S!pendingOut(u)) >= MaxPendingOut))
  <2>1. S!RequestOutcome(u, v) = "ok"
    BY DEF S!request
  <2>2. v \notin gone /\ v \notin S!hiddenFor(u) /\ ~S!IsAccepted(u, v) /\ ~S!Pending(u, v)
    BY <2>1 DEF S!RequestOutcome, S!findById
  <2>3. /\ ~(Cardinality(S!friendsOf(u)) >= MaxFriends) /\ ~(Cardinality(S!friendsOf(v)) >= MaxFriends)
        /\ (S!Pending(v, u) \/ ~(Cardinality(S!pendingOut(u)) >= MaxPendingOut))
    BY <2>1, <2>2, CardinalityOf DEF S!RequestOutcome
  <2> QED
    BY <2>2, <2>3, LinksBetween
<1>2. /\ IsFiniteSet(FriendsIn(links, u)) /\ IsFiniteSet(FriendsIn(links, v)) /\ IsFiniteSet(AskedIn(links, u))
      /\ MaxFriends \in Nat /\ MaxPendingOut \in Nat
  BY FiniteLists, PartsAssumption
<1>3. /\ Cardinality(FriendsIn(links, u)) < MaxFriends /\ Cardinality(FriendsIn(links, v)) < MaxFriends
      /\ (S!Pending(v, u) \/ Cardinality(AskedIn(links, u)) < MaxPendingOut)
  <2>1. /\ ~(Cardinality(FriendsIn(links, u)) >= MaxFriends) /\ ~(Cardinality(FriendsIn(links, v)) >= MaxFriends)
        /\ (S!Pending(v, u) \/ ~(Cardinality(AskedIn(links, u)) >= MaxPendingOut))
    BY <1>1, LinksBetween
  <2>2. /\ Cardinality(FriendsIn(links, u)) \in Nat /\ Cardinality(FriendsIn(links, v)) \in Nat
        /\ Cardinality(AskedIn(links, u)) \in Nat
    BY <1>2, FS_CardinalityType
  <2> QED
    BY <1>2, <2>1, <2>2
<1>4. LinksOk(links', blocks, gone) /\ Limited(links')
  <2>1. CASE S!Pending(v, u)
    <3>1. links' = {l \in links : ~Between(l, v, u)} \cup {[requester |-> v, addressee |-> u, status |-> "accepted"]}
      BY <2>1, LinksBetween DEF S!request, S!Accepted
    <3>2. Apart(v, u, blocks)
      BY <1>1 DEF Apart
    <3> QED
      BY <1>1, <1>3, <3>1, <3>2, AcceptedLink DEF ServerOk
  <2>2. CASE ~S!Pending(v, u)
    <3>1. links' = links \cup {[requester |-> u, addressee |-> v, status |-> "pending"]}
      BY <2>2 DEF S!request
    <3>2. \A l \in links : ~Between(l, u, v)
      <4>1. ASSUME NEW l \in links, Between(l, u, v) PROVE FALSE
        <5>1. l.status = "pending" \/ l.status = "accepted"
          BY DEF ServerOk, LinksOk, AllLinks
        <5>2. l.requester = u \/ l.requester = v
          BY <4>1 DEF Between
        <5>3. Between(l, v, u)
          BY <4>1 DEF Between
        <5> QED
          BY <1>1, <2>2, <4>1, <5>1, <5>2, <5>3, LinksBetween
      <4> QED
        BY <4>1
    <3> QED
      BY <1>1, <1>3, <2>2, <3>1, <3>2, AskedLink DEF ServerOk
  <2> QED
    BY <2>1, <2>2
<1>5. ChallengesOk(challenges', blocks', gone', playing', left'.handled)
  <2>1. UNCHANGED <<blocks, gone, playing, challenges>>
    BY DEF S!request
  <2>2. left.handled \in Nat /\ left'.handled \in Nat /\ left'.handled <= left.handled
    BY Counts
  <2> QED
    BY <2>1, <2>2, FewerChallenges DEF ServerOk, ChallengesOk
<1> QED
  BY <1>4, <1>5 DEF S!request, ServerOk
LEMMA AcceptKeeps ==
  ASSUME ServerOk, LeftOk, Spent, NEW u \in People, NEW v \in People, u # v, u \notin gone, S!accept(u, v)
  PROVE  ServerOk'
<1>1. /\ S!Pending(v, u) /\ ~(Cardinality(S!friendsOf(u)) >= MaxFriends) /\ ~(Cardinality(S!friendsOf(v)) >= MaxFriends)
  BY CardinalityOf DEF S!accept, S!AcceptOutcome
<1>2. v \notin gone /\ Apart(v, u, blocks)
  <2>1. PICK l \in links : Between(l, v, u)
    BY <1>1, LinksBetween
  <2> QED
    BY <2>1 DEF ServerOk, LinksOk, Between, Apart
<1>3. Cardinality(FriendsIn(links, u)) < MaxFriends /\ Cardinality(FriendsIn(links, v)) < MaxFriends
  <2>1. ~(Cardinality(FriendsIn(links, u)) >= MaxFriends) /\ ~(Cardinality(FriendsIn(links, v)) >= MaxFriends)
    BY <1>1, LinksBetween
  <2>2. Cardinality(FriendsIn(links, u)) \in Nat /\ Cardinality(FriendsIn(links, v)) \in Nat /\ MaxFriends \in Nat
    BY FiniteLists, FS_CardinalityType, PartsAssumption
  <2> QED
    BY <2>1, <2>2
<1>4. LinksOk(links', blocks, gone) /\ Limited(links')
  <2>1. links' = {l \in links : ~Between(l, v, u)} \cup {[requester |-> v, addressee |-> u, status |-> "accepted"]}
    BY LinksBetween DEF S!accept, S!Accepted
  <2> QED
    BY <1>2, <1>3, <2>1, AcceptedLink DEF ServerOk
<1>5. ChallengesOk(challenges', blocks', gone', playing', left'.handled)
  <2>1. UNCHANGED <<blocks, gone, playing, challenges>>
    BY DEF S!accept
  <2>2. left.handled \in Nat /\ left'.handled \in Nat /\ left'.handled <= left.handled
    BY Counts
  <2> QED
    BY <2>1, <2>2, FewerChallenges DEF ServerOk, ChallengesOk
<1> QED
  BY <1>4, <1>5 DEF S!accept, ServerOk
LEMMA CreateChallengeKeeps ==
  ASSUME ServerOk, LeftOk, Spent, NEW u \in People, NEW v \in People, u # v, u \notin gone, S!createChallenge(u, v)
  PROVE  ServerOk'
<1>1. v \notin gone /\ u \notin playing /\ v \notin playing /\ Apart(u, v, blocks)
  <2>1. S!ChallengeOutcome(u, v) = "ok"
    BY DEF S!createChallenge
  <2>2. S!isFriend(u, v) /\ v \notin gone /\ u \notin playing /\ v \notin playing
    BY <2>1 DEF S!ChallengeOutcome, S!findById, S!inMatch
  <2> QED
    BY <2>2, LinksBetween DEF S!isFriend
<1>2. ChallengesOk(challenges', blocks, gone, playing, left.handled - 1)
  <2>1. challenges' = {c \in challenges : c.from # u} \cup {[id |-> left.handled, from |-> u, to |-> v]}
    BY DEF S!createChallenge
  <2>2. left.handled \in Nat /\ left.handled > 0
    BY Counts
  <2>3. ChallengesOk(challenges, blocks, gone, playing, left.handled)
    BY DEF ServerOk
  <2> QED
    BY <1>1, <2>1, <2>2, <2>3, OneChallengeMore
<1>3. UNCHANGED <<links, blocks, gone, playing>> /\ left'.handled = left.handled - 1
  BY Counts DEF S!createChallenge
<1> QED
  BY <1>2, <1>3 DEF ServerOk

(* What is there has nobody who was deleted, nobody blocked and, of the    *)
(* challenges, nobody who plays.                                           *)
LEMMA AllApart ==
  ASSUME ServerOk
  PROVE  /\ \A l \in links : /\ l.requester \in People /\ l.addressee \in People
                             /\ l.requester \notin gone /\ l.addressee \notin gone /\ Apart(l.requester, l.addressee, blocks)
         /\ \A c \in challenges : /\ c.from \in People /\ c.to \in People /\ c.from \notin gone /\ c.to \notin gone
                                  /\ c.from \notin playing /\ c.to \notin playing /\ Apart(c.from, c.to, blocks)
BY DEF ServerOk, LinksOk, ChallengesOk, AllLinks
LEMMA HandlersTake ==
  ASSUME ServerOk, LeftOk, Spent, NEW u \in People
  PROVE  /\ \A v \in People :
              u # v /\ (S!deleteLink(u, v) \/ S!block(u, v) \/ S!unblock(u, v) \/ S!matchStarted(u, v)) => ServerOk'
         /\ \A c \in challenges : S!deleteChallenge(u, c) => ServerOk'
         /\ S!updatePrivacy(u) \/ S!deleteAccount(u) \/ S!matchEnded(u) \/ S!Touch(u) \/ S!Fade(u) => ServerOk'
<1> USE AllApart, LinksGo
<1>1. ASSUME NEW v \in People, u # v, S!deleteLink(u, v) PROVE ServerOk'
  BY <1>1 DEF S!deleteLink
<1>2. ASSUME NEW v \in People, u # v, S!block(u, v) PROVE ServerOk'
  <2>1. blocks' = blocks \cup {<<u, v>>} /\ UNCHANGED <<gone, playing>>
    BY <1>2 DEF S!block
  <2>2. links' = {l \in links : ~Between(l, u, v)} /\ challenges' = {c \in challenges : {c.from, c.to} # {u, v}}
    BY <1>2, LinksBetween DEF S!block, S!challengesBetween
  <2>3. \A l \in links' : l \in links /\ Apart(l.requester, l.addressee, blocks')
    BY <2>1, <2>2 DEF Apart, Between
  <2>4. \A c \in challenges' : c \in challenges /\ Apart(c.from, c.to, blocks')
    <3>1. ASSUME NEW c \in challenges' PROVE c \in challenges /\ Apart(c.from, c.to, blocks')
      <4>1. c \in challenges /\ {c.from, c.to} # {u, v} /\ Apart(c.from, c.to, blocks)
        BY <2>2, <3>1
      <4>2. ~(c.from = u /\ c.to = v) /\ ~(c.from = v /\ c.to = u)
        BY <4>1
      <4> QED
        BY <2>1, <4>1, <4>2 DEF Apart
    <3> QED
      BY <3>1
  <2> QED
    BY <2>1, <2>3, <2>4
<1>3. ASSUME NEW v \in People, u # v, S!unblock(u, v) PROVE ServerOk'
  <2>1. blocks' \subseteq blocks /\ UNCHANGED <<links, challenges, gone, playing>>
    BY <1>3 DEF S!unblock
  <2>2. \A a, b : Apart(a, b, blocks) => Apart(a, b, blocks')
    BY <2>1 DEF Apart
  <2> QED
    BY <2>1, <2>2
<1>4. ASSUME NEW v \in People, u # v, S!matchStarted(u, v) PROVE ServerOk'
  <2>1. playing' = playing \cup {u, v} /\ UNCHANGED <<links, blocks, gone>>
    BY <1>4 DEF S!matchStarted
  <2>2. \A c \in challenges' : c \in challenges /\ u \notin {c.from, c.to} /\ v \notin {c.from, c.to}
    BY <1>4 DEF S!matchStarted, S!challengesOf
  <2> QED
    BY <2>1, <2>2
<1>5. ASSUME NEW c \in challenges, S!deleteChallenge(u, c) PROVE ServerOk'
  BY <1>5 DEF S!deleteChallenge
<1>6. ASSUME S!updatePrivacy(u) \/ S!Touch(u) \/ S!Fade(u) PROVE ServerOk'
  <2>1. UNCHANGED <<links, blocks, gone, playing, challenges>>
    BY <1>6 DEF S!updatePrivacy, S!Touch, S!Fade
  <2> QED
    BY <2>1
<1>7. ASSUME S!deleteAccount(u) PROVE ServerOk'
  <2>1. gone' = gone \cup {u} /\ playing' = playing /\ blocks' \subseteq blocks
    BY <1>7 DEF S!deleteAccount
  <2>2. \A a, b : Apart(a, b, blocks) => Apart(a, b, blocks')
    BY <2>1 DEF Apart
  <2>3. /\ \A l \in links' : l \in links /\ u \notin {l.requester, l.addressee}
        /\ \A c \in challenges' : c \in challenges /\ u \notin {c.from, c.to}
    BY <1>7 DEF S!deleteAccount, S!linksOf, S!challengesOf
  <2> QED
    BY <2>1, <2>2, <2>3
<1>8. ASSUME S!matchEnded(u) PROVE ServerOk'
  BY <1>8 DEF S!matchEnded
<1> QED
  BY <1>1, <1>2, <1>3, <1>4, <1>5, <1>6, <1>7, <1>8
-----------------------------------------------------------------------------
(***************************************************************************)
(* The challenges the device shows.  An id names one challenge for ever,   *)
(* so that what the server had open when it saw a signal is an interval of *)
(* the signals for each id: what is in a later answer, or still open, and  *)
(* was seen before is in every answer between.                             *)
(***************************************************************************)
Stamped == Cardinality({m \in DOMAIN signals : signals[m].stamp > 0})
Back(n) == n \in DOMAIN signals /\ signals[n].at = "back"
SignalsOk ==
  /\ IsFiniteSet(DOMAIN signals)
  /\ signals \in [DOMAIN signals -> [at : {"out", "back", "done"}, open : SUBSET Nat, stamp : Nat]]
  /\ \A n \in DOMAIN signals : (signals[n].at = "out" => signals[n].stamp = 0) /\ signals[n].stamp <= Stamped
  /\ latest \in Nat /\ latest <= Stamped
  /\ \A n, m \in DOMAIN signals : Back(n) /\ Back(m) /\ signals[n].stamp = signals[m].stamp => n = m
(* Ids already given.                                                      *)
Given == incoming \cup answered \cup UNION {signals[n].open : n \in {m \in DOMAIN signals : Back(m)}}
IdsOk == \A id \in Given : id \in Nat /\ id > left.handled
Intervals ==
  \A n, m \in DOMAIN signals : Back(n) /\ Back(m) /\ signals[n].stamp < signals[m].stamp =>
     /\ signals[n].open \cap S!received \subseteq signals[m].open
     /\ \A p \in DOMAIN signals : Back(p) /\ signals[m].stamp < signals[p].stamp =>
           signals[n].open \cap signals[p].open \subseteq signals[m].open
(* What was shown or answered is in every answer not read yet that came    *)
(* before one that has it.                                                 *)
Lasts ==
  \A n \in DOMAIN signals : Back(n) /\ latest <= signals[n].stamp =>
     /\ (incoming \cup answered) \cap S!received \subseteq signals[n].open
     /\ \A m \in DOMAIN signals : Back(m) /\ signals[n].stamp < signals[m].stamp =>
           (incoming \cup answered) \cap signals[m].open \subseteq signals[n].open
KeptAway ==
  /\ incoming \cap answered = {} /\ answered \cap S!received \subseteq dismissed
  /\ \A n \in DOMAIN signals : Back(n) /\ latest <= signals[n].stamp => answered \cap signals[n].open \subseteq dismissed
DeviceOk == SignalsOk /\ IdsOk /\ Intervals /\ (~overtaken => Lasts /\ KeptAway)
SocialKept == LeftOk /\ ServerOk /\ DeviceOk

LEMMA ReceivedOf == \A id : id \in S!received <=> \E c \in challenges : c.to = Me /\ c.id = id
BY DEF S!received

(* A step of the server opens one challenge at most, of a new id.          *)
LEMMA ServerMoves ==
  ASSUME SocialKept, Spent, UNCHANGED S!device,
         \A c \in challenges' : c \in challenges \/ c.id = left.handled
  PROVE  DeviceOk'
<1>1. left.handled \in Nat /\ left'.handled = left.handled - 1
  BY Counts DEF SocialKept
<1>2. UNCHANGED <<signals, incoming, dismissed, answered, latest, overtaken>>
  BY DEF S!device
<1>3. \A id \in S!received' : id \in S!received \/ id = left.handled
  BY ReceivedOf DEF S!received
<1>4. left.handled \notin incoming \cup answered /\ \A n \in DOMAIN signals : Back(n) => left.handled \notin signals[n].open
  BY <1>1 DEF SocialKept, DeviceOk, IdsOk, Given
<1>5. SignalsOk'
  BY <1>2 DEF SocialKept, DeviceOk, SignalsOk, Stamped, Back
<1>6. IdsOk'
  BY <1>1, <1>2 DEF SocialKept, DeviceOk, IdsOk, Given, Back
<1>7. Intervals'
  BY <1>2, <1>3, <1>4 DEF SocialKept, DeviceOk, Intervals, Back
<1>8. Lasts => Lasts'
  BY <1>2, <1>3, <1>4 DEF Lasts, Back
<1>9. KeptAway => KeptAway'
  BY <1>2, <1>3, <1>4 DEF KeptAway, Back
<1> QED
  BY <1>2, <1>5, <1>6, <1>7, <1>8, <1>9 DEF SocialKept, DeviceOk

(* What no answer to come looks like; one answer fewer; the one read.      *)
LEMMA SendPresenceKeeps ==
  ASSUME SocialKept, S!sendPresence
  PROVE  DeviceOk'
<1>1. PICK x : x = S!Cardinality(DOMAIN signals) + 1
  OBVIOUS
<1>2. /\ DOMAIN signals' = DOMAIN signals \cup {x}
      /\ \A n \in DOMAIN signals : signals'[n] = signals[n]
      /\ x \notin DOMAIN signals => signals'[x] = [at |-> "out", open |-> {}, stamp |-> 0]
      /\ signals' \in [DOMAIN signals' -> [at : {"out", "back", "done"}, open : SUBSET Nat, stamp : Nat]]
  BY <1>1 DEF S!sendPresence, SocialKept, DeviceOk, SignalsOk
<1>3. UNCHANGED <<challenges, incoming, dismissed, answered, latest, overtaken>> /\ left'.handled = left.handled
  BY DEF S!sendPresence, S!server, SocialKept, LeftOk
<1>4. \A n : Back(n)' <=> Back(n)
  BY <1>2 DEF Back
<1>5. Stamped' = Stamped
  <2>1. {m \in DOMAIN signals' : signals'[m].stamp > 0} = {m \in DOMAIN signals : signals[m].stamp > 0}
    BY <1>2
  <2> QED
    BY <2>1 DEF Stamped
<1>6. SignalsOk'
  <2>1. IsFiniteSet(DOMAIN signals')
    BY <1>2, FS_AddElement DEF SocialKept, DeviceOk, SignalsOk
  <2>2. Stamped \in Nat /\ latest \in Nat /\ latest <= Stamped
    <3>1. IsFiniteSet({m \in DOMAIN signals : signals[m].stamp > 0})
      BY FS_Subset DEF SocialKept, DeviceOk, SignalsOk
    <3> QED
      BY <3>1, FS_CardinalityType DEF SocialKept, DeviceOk, SignalsOk, Stamped
  <2>3. \A n \in DOMAIN signals' : (signals'[n].at = "out" => signals'[n].stamp = 0) /\ signals'[n].stamp <= Stamped
    BY <1>2, <2>2 DEF SocialKept, DeviceOk, SignalsOk
  <2>4. \A n, m \in DOMAIN signals' : Back(n)' /\ Back(m)' /\ signals'[n].stamp = signals'[m].stamp => n = m
    BY <1>2, <1>4 DEF SocialKept, DeviceOk, SignalsOk, Back
  <2> QED
    BY <1>2, <1>3, <1>5, <2>1, <2>2, <2>3, <2>4 DEF SignalsOk
<1>7. S!received' = S!received
  BY <1>3 DEF S!received
<1>8. \A n : Back(n) => n \in DOMAIN signals /\ signals'[n] = signals[n]
  BY <1>2 DEF Back
<1>9. IdsOk'
  <2>1. Given' \subseteq Given
    BY <1>2, <1>3, <1>4, <1>8 DEF Given
  <2> QED
    BY <1>3, <2>1 DEF SocialKept, DeviceOk, IdsOk
<1>10. Intervals'
  BY <1>2, <1>4, <1>7, <1>8 DEF SocialKept, DeviceOk, Intervals
<1>11. Lasts => Lasts'
  BY <1>2, <1>3, <1>4, <1>7, <1>8 DEF Lasts
<1>12. KeptAway => KeptAway'
  BY <1>2, <1>3, <1>4, <1>7, <1>8 DEF KeptAway
<1> QED
  BY <1>3, <1>6, <1>9, <1>10, <1>11, <1>12 DEF SocialKept, DeviceOk
LEMMA StampedIsNat == SignalsOk => Stamped \in Nat /\ IsFiniteSet({m \in DOMAIN signals : signals[m].stamp > 0})
<1>1. SignalsOk => IsFiniteSet({m \in DOMAIN signals : signals[m].stamp > 0})
  BY FS_Subset DEF SignalsOk
<1> QED
  BY <1>1, FS_CardinalityType DEF Stamped
LEMMA PresenceHandlerKeeps ==
  ASSUME SocialKept, NEW n \in DOMAIN signals, S!presenceHandler(n)
  PROVE  DeviceOk'
<1>1. PICK s : s = Stamped + 1
  OBVIOUS
<1>2. /\ DOMAIN signals' = DOMAIN signals /\ signals[n].at = "out"
      /\ \A m \in DOMAIN signals : m # n => signals'[m] = signals[m]
      /\ signals'[n] = [at |-> "back", open |-> S!received, stamp |-> s]
  BY <1>1, CardinalityOf DEF S!presenceHandler, SocialKept, DeviceOk, SignalsOk, Stamped
<1>3. UNCHANGED <<challenges, incoming, dismissed, answered, latest, overtaken, left>>
  BY DEF S!presenceHandler
<1>4. /\ Stamped \in Nat /\ s = Stamped + 1 /\ latest \in Nat /\ latest <= Stamped
      /\ \A m \in DOMAIN signals : signals[m].stamp \in Nat /\ signals[m].stamp <= Stamped
  BY <1>1, StampedIsNat DEF SocialKept, DeviceOk, SignalsOk
<1>5. Stamped' = s
  <2>1. {m \in DOMAIN signals' : signals'[m].stamp > 0} = {m \in DOMAIN signals : signals[m].stamp > 0} \cup {n}
    BY <1>2, <1>4
  <2>2. n \notin {m \in DOMAIN signals : signals[m].stamp > 0}
    BY <1>2 DEF SocialKept, DeviceOk, SignalsOk
  <2>3. IsFiniteSet({m \in DOMAIN signals : signals[m].stamp > 0})
    BY StampedIsNat DEF SocialKept, DeviceOk
  <2> QED
    BY <1>1, <2>1, <2>2, <2>3, FS_AddElement DEF Stamped
<1>6. S!received' = S!received /\ S!received \subseteq Nat /\ \A id \in S!received : id > left.handled
  BY <1>3, ReceivedOf DEF S!received, SocialKept, ServerOk, ChallengesOk
<1>7. /\ \A m \in DOMAIN signals : m # n => (Back(m)' <=> Back(m)) /\ signals'[m] = signals[m]
      /\ Back(n)' /\ signals'[n].open = S!received /\ signals'[n].stamp = s
  BY <1>2 DEF Back
<1>8. SignalsOk'
  <2>1. signals' \in [DOMAIN signals' -> [at : {"out", "back", "done"}, open : SUBSET Nat, stamp : Nat]]
    <3>1. [at |-> "back", open |-> S!received, stamp |-> s] \in [at : {"out", "back", "done"}, open : SUBSET Nat, stamp : Nat]
      BY <1>4, <1>6
    <3> QED
      BY <1>1, <3>1, CardinalityOf DEF S!presenceHandler, SocialKept, DeviceOk, SignalsOk, Stamped
  <2>2. \A m \in DOMAIN signals' : (signals'[m].at = "out" => signals'[m].stamp = 0) /\ signals'[m].stamp <= s
    BY <1>2, <1>4 DEF SocialKept, DeviceOk, SignalsOk
  <2>3. \A l, m \in DOMAIN signals' : Back(l)' /\ Back(m)' /\ signals'[l].stamp = signals'[m].stamp => l = m
    <3>1. ASSUME NEW l \in DOMAIN signals, NEW m \in DOMAIN signals, Back(l)', Back(m)', signals'[l].stamp = signals'[m].stamp
          PROVE  l = m
      <4>1. CASE l # n /\ m # n
        BY <1>7, <3>1, <4>1 DEF SocialKept, DeviceOk, SignalsOk
      <4>2. CASE l = n /\ m # n
        BY <1>4, <1>7, <3>1, <4>2
      <4>3. CASE l # n /\ m = n
        BY <1>4, <1>7, <3>1, <4>3
      <4> QED
        BY <4>1, <4>2, <4>3
    <3> QED
      BY <1>2, <3>1
  <2>4. IsFiniteSet(DOMAIN signals')
    BY <1>2 DEF SocialKept, DeviceOk, SignalsOk
  <2> QED
    BY <1>3, <1>4, <1>5, <2>1, <2>2, <2>3, <2>4 DEF SignalsOk
<1>9. IdsOk'
  <2>1. Given' \subseteq Given \cup S!received
    BY <1>2, <1>3, <1>7 DEF Given
  <2> QED
    BY <1>3, <1>6, <2>1 DEF SocialKept, DeviceOk, IdsOk
<1>10. Intervals'
  <2>1. ASSUME NEW l \in DOMAIN signals, NEW m \in DOMAIN signals, Back(l)', Back(m)', signals'[l].stamp < signals'[m].stamp
        PROVE  /\ signals'[l].open \cap S!received \subseteq signals'[m].open
               /\ \A p \in DOMAIN signals : Back(p)' /\ signals'[m].stamp < signals'[p].stamp =>
                     signals'[l].open \cap signals'[p].open \subseteq signals'[m].open
    <3>1. l # n /\ Back(l) /\ signals'[l] = signals[l]
      BY <1>4, <1>7, <2>1
    <3>2. CASE m = n
      BY <1>4, <1>7, <2>1, <3>2
    <3>3. CASE m # n
      <4>1. Back(m) /\ signals'[m] = signals[m]
        BY <1>7, <2>1, <3>3
      <4>2. signals'[l].open \cap S!received \subseteq signals'[m].open
        BY <2>1, <3>1, <4>1 DEF SocialKept, DeviceOk, Intervals
      <4>3. ASSUME NEW p \in DOMAIN signals, Back(p)', signals'[m].stamp < signals'[p].stamp
            PROVE  signals'[l].open \cap signals'[p].open \subseteq signals'[m].open
        <5>1. CASE p = n
          BY <1>7, <4>2, <5>1
        <5>2. CASE p # n
          <6>1. Back(p) /\ signals'[p] = signals[p]
            BY <1>7, <4>3, <5>2
          <6> QED
            BY <2>1, <3>1, <4>1, <4>3, <6>1 DEF SocialKept, DeviceOk, Intervals
        <5> QED
          BY <5>1, <5>2
      <4> QED
        BY <4>2, <4>3
    <3> QED
      BY <3>2, <3>3
  <2> QED
    BY <1>2, <1>6, <2>1 DEF Intervals
<1>11. Lasts => Lasts'
  BY <1>2, <1>3, <1>4, <1>6, <1>7 DEF Lasts
<1>12. KeptAway => KeptAway'
  BY <1>2, <1>3, <1>6, <1>7 DEF KeptAway
<1> QED
  BY <1>3, <1>8, <1>9, <1>10, <1>11, <1>12 DEF SocialKept, DeviceOk
(* An answer that was read, or is lost, is not looked at again.            *)
LEMMA AnswerGoes ==
  ASSUME SocialKept, NEW n \in DOMAIN signals, signals' = [signals EXCEPT ![n].at = "done", ![n].open = {}],
         UNCHANGED <<challenges, left>>, latest' \in Nat, latest' <= Stamped, latest <= latest',
         incoming' \subseteq incoming \cup signals[n].open, answered' \subseteq incoming \cup answered,
         incoming' # incoming => Back(n)
  PROVE  /\ SignalsOk' /\ IdsOk' /\ Intervals'
         /\ \A m \in DOMAIN signals' : Back(m)' => m # n /\ m \in DOMAIN signals /\ Back(m) /\ signals'[m] = signals[m]
         /\ S!received' = S!received
<1>1. /\ DOMAIN signals' = DOMAIN signals
      /\ \A m \in DOMAIN signals : m # n => signals'[m] = signals[m]
      /\ signals'[n].at = "done" /\ signals'[n].open = {} /\ signals'[n].stamp = signals[n].stamp
      /\ signals' \in [DOMAIN signals' -> [at : {"out", "back", "done"}, open : SUBSET Nat, stamp : Nat]]
  <2>1. PICK K : K = DOMAIN signals
    OBVIOUS
  <2>2. signals \in [K -> [at : {"out", "back", "done"}, open : SUBSET Nat, stamp : Nat]] /\ n \in K
    BY <2>1 DEF SocialKept, DeviceOk, SignalsOk
  <2>3. DOMAIN signals' = K
    BY <2>2
  <2>4. signals'[n] = [[signals[n] EXCEPT !.at = "done"] EXCEPT !.open = {}] /\ \A m \in K : m # n => signals'[m] = signals[m]
    BY <2>2
  <2>5. /\ signals'[n].at = "done" /\ signals'[n].open = {} /\ signals'[n].stamp = signals[n].stamp
        /\ signals'[n] \in [at : {"out", "back", "done"}, open : SUBSET Nat, stamp : Nat]
    <3>1. PICK u, v : u = signals[n] /\ v = signals'[n]
      OBVIOUS
    <3>2. u \in [at : {"out", "back", "done"}, open : SUBSET Nat, stamp : Nat] /\ v = [[u EXCEPT !.at = "done"] EXCEPT !.open = {}]
      BY <2>2, <2>4, <3>1
    <3>3. v.at = "done" /\ v.open = {} /\ v.stamp = u.stamp /\ v \in [at : {"out", "back", "done"}, open : SUBSET Nat, stamp : Nat]
      BY <3>2
    <3> QED
      BY <3>1, <3>3
  <2>6. signals' \in [K -> [at : {"out", "back", "done"}, open : SUBSET Nat, stamp : Nat]]
    BY <2>2
  <2> QED
    BY <2>1, <2>3, <2>4, <2>5, <2>6
<1>2. \A m \in DOMAIN signals' : Back(m)' => m # n /\ m \in DOMAIN signals /\ Back(m) /\ signals'[m] = signals[m]
  BY <1>1 DEF Back
<1>3. S!received' = S!received
  BY DEF S!received
<1>4. Stamped' = Stamped
  <2>1. {m \in DOMAIN signals' : signals'[m].stamp > 0} = {m \in DOMAIN signals : signals[m].stamp > 0}
    BY <1>1
  <2> QED
    BY <2>1 DEF Stamped
<1>5. SignalsOk'
  <2>1. \A m \in DOMAIN signals' : (signals'[m].at = "out" => signals'[m].stamp = 0) /\ signals'[m].stamp <= Stamped
    BY <1>1 DEF SocialKept, DeviceOk, SignalsOk
  <2>2. \A l, m \in DOMAIN signals' : Back(l)' /\ Back(m)' /\ signals'[l].stamp = signals'[m].stamp => l = m
    BY <1>2 DEF SocialKept, DeviceOk, SignalsOk
  <2>3. IsFiniteSet(DOMAIN signals')
    BY <1>1 DEF SocialKept, DeviceOk, SignalsOk
  <2> QED
    BY <1>1, <1>4, <2>1, <2>2, <2>3 DEF SignalsOk
<1>6. IdsOk'
  <2>1. Given' \subseteq Given
    BY <1>1, <1>2 DEF Given
  <2> QED
    BY <2>1 DEF SocialKept, DeviceOk, IdsOk
<1>7. Intervals'
  BY <1>2, <1>3 DEF SocialKept, DeviceOk, Intervals
<1> QED
  BY <1>2, <1>3, <1>5, <1>6, <1>7
LEMMA LostSignalKeeps ==
  ASSUME SocialKept, NEW n \in DOMAIN signals, S!lose(n)
  PROVE  DeviceOk'
<1>1. /\ signals' = [signals EXCEPT ![n].at = "done", ![n].open = {}]
      /\ UNCHANGED <<challenges, incoming, dismissed, answered, latest, overtaken, left>>
  BY DEF S!lose, S!server
<1>2. latest \in Nat /\ latest <= Stamped
  BY DEF SocialKept, DeviceOk, SignalsOk
<1>3. /\ SignalsOk' /\ IdsOk' /\ Intervals' /\ S!received' = S!received
      /\ \A m \in DOMAIN signals' : Back(m)' => m # n /\ m \in DOMAIN signals /\ Back(m) /\ signals'[m] = signals[m]
  <2>1. UNCHANGED <<challenges, left>> /\ latest' \in Nat /\ latest' <= Stamped /\ latest <= latest'
        /\ incoming' \subseteq incoming \cup signals[n].open /\ answered' \subseteq incoming \cup answered
        /\ (incoming' # incoming => Back(n))
    BY <1>1, <1>2
  <2> QED
    BY <1>1, <2>1, AnswerGoes
<1>4. Lasts => Lasts'
  BY <1>1, <1>3 DEF Lasts
<1>5. KeptAway => KeptAway'
  BY <1>1, <1>3 DEF KeptAway
<1> QED
  BY <1>1, <1>3, <1>4, <1>5 DEF SocialKept, DeviceOk
LEMMA ReadSignalKeeps ==
  ASSUME SocialKept, NEW n \in DOMAIN signals, S!refresh(n)
  PROVE  DeviceOk'
<1>1. PICK op, t : op = signals[n].open /\ t = signals[n].stamp
  OBVIOUS
<1>2. /\ signals' = [signals EXCEPT ![n].at = "done", ![n].open = {}]
      /\ UNCHANGED <<challenges, answered, left>>
      /\ dismissed' = dismissed \cap op /\ incoming' = op \ dismissed'
      /\ overtaken' = (overtaken \/ t < latest)
      /\ latest' = IF t > latest THEN t ELSE latest
      /\ Back(n)
  BY <1>1 DEF S!refresh, S!server, Back
<1>3. latest \in Nat /\ latest <= Stamped /\ t \in Nat /\ t <= Stamped
  BY <1>1 DEF SocialKept, DeviceOk, SignalsOk
<1>4. /\ SignalsOk' /\ IdsOk' /\ Intervals' /\ S!received' = S!received
      /\ \A m \in DOMAIN signals' : Back(m)' => m # n /\ m \in DOMAIN signals /\ Back(m) /\ signals'[m] = signals[m]
  <2>1. UNCHANGED <<challenges, left>> /\ latest' \in Nat /\ latest' <= Stamped /\ latest <= latest'
        /\ incoming' \subseteq incoming \cup signals[n].open /\ answered' \subseteq incoming \cup answered
        /\ (incoming' # incoming => Back(n))
    BY <1>1, <1>2, <1>3
  <2> QED
    BY <1>2, <2>1, AnswerGoes
<1>5. ASSUME ~overtaken' PROVE Lasts' /\ KeptAway'
  <2>1. Lasts /\ KeptAway /\ t >= latest /\ latest' = t
    <3>1. ~overtaken /\ ~(t < latest)
      BY <1>2, <1>5
    <3> QED
      BY <1>2, <1>3, <3>1 DEF SocialKept, DeviceOk
  <2>2. \A m \in DOMAIN signals' : Back(m)' /\ latest' <= signals'[m].stamp =>
           /\ m \in DOMAIN signals /\ Back(m) /\ signals'[m] = signals[m] /\ signals[m].stamp > t /\ latest <= signals[m].stamp
    <3>1. ASSUME NEW m \in DOMAIN signals', Back(m)', latest' <= signals'[m].stamp
          PROVE  /\ m \in DOMAIN signals /\ Back(m) /\ signals'[m] = signals[m]
                 /\ signals[m].stamp > t /\ latest <= signals[m].stamp
      <4>1. m # n /\ m \in DOMAIN signals /\ Back(m) /\ signals'[m] = signals[m] /\ signals[m].stamp \in Nat
        BY <1>4, <3>1 DEF SocialKept, DeviceOk, SignalsOk
      <4>2. signals[m].stamp # t
        BY <1>1, <1>2, <4>1 DEF SocialKept, DeviceOk, SignalsOk
      <4> QED
        BY <1>3, <2>1, <3>1, <4>1, <4>2
    <3> QED
      BY <3>1
  <2>3. answered \cap op \subseteq dismissed
    BY <1>1, <1>2, <2>1 DEF KeptAway
  <2>4. answered \cap S!received \subseteq dismissed' /\ \A m \in DOMAIN signals : Back(m) /\ signals[m].stamp > t =>
           answered \cap signals[m].open \subseteq dismissed'
    <3>1. answered \cap S!received \subseteq op
      BY <1>1, <1>2, <2>1 DEF Lasts
    <3>2. ASSUME NEW m \in DOMAIN signals, Back(m), signals[m].stamp > t PROVE answered \cap signals[m].open \subseteq op
      BY <1>1, <1>2, <1>3, <2>1, <3>2 DEF Lasts, SocialKept, DeviceOk, SignalsOk
    <3> QED
      BY <1>2, <2>3, <3>1, <3>2
  <2>5. KeptAway'
    BY <1>2, <1>4, <2>2, <2>3, <2>4 DEF KeptAway
  <2>6. Lasts'
    <3>1. ASSUME NEW m \in DOMAIN signals', Back(m)', latest' <= signals'[m].stamp
          PROVE  /\ (incoming' \cup answered') \cap S!received' \subseteq signals'[m].open
                 /\ \A p \in DOMAIN signals' : Back(p)' /\ signals'[m].stamp < signals'[p].stamp =>
                       (incoming' \cup answered') \cap signals'[p].open \subseteq signals'[m].open
      <4>1. Back(m) /\ m \in DOMAIN signals /\ signals'[m] = signals[m] /\ signals[m].stamp > t /\ latest <= signals[m].stamp
        BY <2>2, <3>1
      <4>2. t < signals[m].stamp
        BY <1>3, <4>1 DEF SocialKept, DeviceOk, SignalsOk
      <4>3. op \cap S!received \subseteq signals[m].open /\ answered \cap S!received \subseteq signals[m].open
        BY <1>1, <1>2, <2>1, <4>1, <4>2 DEF Lasts, SocialKept, DeviceOk, Intervals
      <4>4. ASSUME NEW p \in DOMAIN signals', Back(p)', signals'[m].stamp < signals'[p].stamp
            PROVE  (incoming' \cup answered') \cap signals'[p].open \subseteq signals'[m].open
        <5>1. Back(p) /\ p \in DOMAIN signals /\ signals'[p] = signals[p]
          BY <1>4, <4>4
        <5>2. op \cap signals[p].open \subseteq signals[m].open
          BY <1>1, <1>2, <4>1, <4>2, <4>4, <5>1 DEF SocialKept, DeviceOk, Intervals
        <5>3. answered \cap signals[p].open \subseteq signals[m].open
          BY <2>1, <4>1, <4>4, <5>1 DEF Lasts
        <5> QED
          BY <1>2, <4>1, <5>1, <5>2, <5>3
      <4>5. (incoming' \cup answered') \cap S!received' \subseteq signals'[m].open
        BY <1>2, <1>4, <4>1, <4>3
      <4> QED
        BY <4>4, <4>5
    <3> QED
      BY <3>1 DEF Lasts
  <2> QED
    BY <2>5, <2>6
<1> QED
  BY <1>4, <1>5 DEF DeviceOk
LEMMA DismissKeeps ==
  ASSUME SocialKept, NEW id \in incoming, S!dismiss(id)
  PROVE  DeviceOk'
<1>1. /\ dismissed' = dismissed \cup {id} /\ incoming' = incoming \ {id} /\ answered' = answered \cup {id}
      /\ UNCHANGED <<challenges, signals, latest, overtaken, left>>
  BY DEF S!dismiss, S!server
<1>2. S!received' = S!received /\ Given' = Given /\ incoming' \cup answered' = incoming \cup answered
  BY <1>1 DEF S!received, Given, Back
<1>3. SignalsOk' /\ IdsOk' /\ Intervals'
  BY <1>1, <1>2 DEF SocialKept, DeviceOk, SignalsOk, IdsOk, Intervals, Stamped, Back
<1>4. Lasts => Lasts'
  BY <1>1, <1>2 DEF Lasts, Back
<1>5. KeptAway => KeptAway'
  BY <1>1, <1>2 DEF KeptAway, Back
<1> QED
  BY <1>1, <1>3, <1>4, <1>5 DEF SocialKept, DeviceOk

(* Every step, and the start.                                              *)
LEMMA SocialSteps == SocialKept /\ [S!Next]_(S!vars) => SocialKept'
<1> SUFFICES ASSUME SocialKept, [S!Next]_(S!vars) PROVE SocialKept'
  OBVIOUS
<1>1. CASE UNCHANGED S!vars
  BY <1>1 DEF S!vars, S!server, S!device, SocialKept, LeftOk, ServerOk, DeviceOk, SignalsOk, IdsOk, Intervals, Lasts, KeptAway,
              Stamped, Back, Given, S!received
<1>2. ASSUME UNCHANGED <<links, blocks, gone, playing, challenges>>, LeftOk', left'.handled = left.handled PROVE LeftOk' /\ ServerOk'
  BY <1>2 DEF SocialKept, ServerOk
<1>3. CASE S!expireChallenge
  <2>1. Spent /\ UNCHANGED <<links, blocks, gone, playing>> /\ UNCHANGED S!device /\ challenges' \subseteq challenges
    BY <1>3 DEF S!expireChallenge, Spent, S!device
  <2>2. LeftOk'
    BY <2>1, Counts DEF SocialKept
  <2>3. ServerOk'
    BY <2>1, AllApart, LinksGo DEF SocialKept
  <2>4. DeviceOk'
    BY <2>1, ServerMoves
  <2> QED
    BY <2>2, <2>3, <2>4 DEF SocialKept
<1>4. CASE S!sendPresence
  <2>1. UNCHANGED S!server /\ left' = [left EXCEPT !.signals = @ - 1] /\ left.signals > 0
    BY <1>4 DEF S!sendPresence
  <2>2. LeftOk' /\ left'.handled = left.handled
    BY <2>1 DEF SocialKept, LeftOk
  <2> QED
    BY <1>2, <1>4, <2>1, <2>2, SendPresenceKeeps DEF SocialKept, S!server
<1>5. ASSUME NEW u \in People, S!Handlers(u) PROVE SocialKept'
  <2>1. Spent /\ u \notin gone /\ UNCHANGED S!device
    BY <1>5 DEF S!Handlers, S!Handled, Spent
  <2>2. LeftOk /\ ServerOk /\ LeftOk'
    BY <2>1, Counts DEF SocialKept
  <2>3. \/ \E v \in People \ {u} : \/ S!request(u, v) \/ S!accept(u, v) \/ S!deleteLink(u, v) \/ S!block(u, v) \/ S!unblock(u, v)
                                   \/ S!createChallenge(u, v) \/ S!matchStarted(u, v)
        \/ \E c \in challenges : S!deleteChallenge(u, c)
        \/ S!updatePrivacy(u) \/ S!deleteAccount(u) \/ S!matchEnded(u) \/ S!Touch(u) \/ S!Fade(u)
    BY <1>5 DEF S!Handlers
  <2>4. ServerOk'
    <3>1. ASSUME NEW v \in People, u # v, S!request(u, v) \/ S!accept(u, v) \/ S!createChallenge(u, v) PROVE ServerOk'
      BY <2>1, <2>2, <3>1, RequestKeeps, AcceptKeeps, CreateChallengeKeeps
    <3> QED
      BY <2>1, <2>2, <2>3, <3>1, HandlersTake
  <2>5. \A c \in challenges' : c \in challenges \/ c.id = left.handled
    <3>1. ASSUME NEW v \in People \ {u}, S!request(u, v) \/ S!accept(u, v) \/ S!deleteLink(u, v) \/ S!block(u, v) \/ S!unblock(u, v)
                                         \/ S!matchStarted(u, v)
          PROVE  challenges' \subseteq challenges
      BY <3>1 DEF S!request, S!accept, S!deleteLink, S!block, S!unblock, S!matchStarted
    <3>2. ASSUME NEW v \in People \ {u}, S!createChallenge(u, v) PROVE \A c \in challenges' : c \in challenges \/ c.id = left.handled
      BY <3>2 DEF S!createChallenge
    <3>3. ASSUME NEW c \in challenges, S!deleteChallenge(u, c) PROVE challenges' \subseteq challenges
      BY <3>3 DEF S!deleteChallenge
    <3>4. S!updatePrivacy(u) \/ S!deleteAccount(u) \/ S!matchEnded(u) \/ S!Touch(u) \/ S!Fade(u) => challenges' \subseteq challenges
      BY DEF S!updatePrivacy, S!deleteAccount, S!matchEnded, S!Touch, S!Fade
    <3> QED
      BY <2>3, <3>1, <3>2, <3>3, <3>4
  <2> QED
    BY <2>1, <2>2, <2>4, <2>5, ServerMoves DEF SocialKept
<1>6. ASSUME NEW n \in DOMAIN signals, S!presenceHandler(n) \/ S!lose(n) \/ S!refresh(n) PROVE SocialKept'
  <2>1. UNCHANGED <<links, blocks, gone, playing, challenges, left>>
    BY <1>6 DEF S!presenceHandler, S!lose, S!refresh, S!server
  <2>2. LeftOk' /\ left'.handled = left.handled
    BY <2>1 DEF SocialKept, LeftOk
  <2>3. DeviceOk'
    BY <1>6, PresenceHandlerKeeps, LostSignalKeeps, ReadSignalKeeps
  <2> QED
    BY <1>2, <2>1, <2>2, <2>3 DEF SocialKept
<1>7. ASSUME NEW id \in incoming, S!dismiss(id) PROVE SocialKept'
  <2>1. UNCHANGED <<links, blocks, gone, playing, challenges, left>>
    BY <1>7 DEF S!dismiss, S!server
  <2>2. LeftOk' /\ left'.handled = left.handled
    BY <2>1 DEF SocialKept, LeftOk
  <2> QED
    BY <1>2, <1>7, <2>1, <2>2, DismissKeeps DEF SocialKept
<1> QED
  BY <1>1, <1>3, <1>4, <1>5, <1>6, <1>7 DEF S!Next
LEMMA SocialStarts == S!Init => SocialKept
<1> SUFFICES ASSUME S!Init PROVE SocialKept
  OBVIOUS
<1>1. LeftOk
  BY PartsAssumption DEF S!Init, LeftOk
<1>2. ChallengesOk(challenges, blocks, gone, playing, left.handled)
  BY DEF S!Init, ChallengesOk
<1>3. LinksOk({}, blocks, gone) /\ Limited({})
  <2>1. \A u \in People : FriendsIn({}, u) = {} /\ AskedIn({}, u) = {}
    BY DEF FriendsIn, AskedIn
  <2>2. Cardinality({}) = 0 /\ MaxFriends \in Nat /\ MaxPendingOut \in Nat
    BY FS_EmptySet, PartsAssumption
  <2>3. Limited({})
    BY <2>1, <2>2 DEF Limited
  <2> QED
    BY <2>3 DEF LinksOk
<1>4. LinksOk(links, blocks, gone) /\ Limited(links)
  <2>1. CASE links = {}
    BY <1>3, <2>1
  <2>2. ASSUME NEW u \in People \ {Me}, links = {[requester |-> u, addressee |-> Me, status |-> "pending"]}
        PROVE  LinksOk(links, blocks, gone) /\ Limited(links)
    <3>1. Cardinality(AskedIn({}, u)) < MaxPendingOut
      <4>1. AskedIn({}, u) = {}
        BY DEF AskedIn
      <4> QED
        BY <4>1, FS_EmptySet, PartsAssumption
    <3>2. gone = {} /\ Apart(u, Me, blocks) /\ u # Me /\ Me \in People
      BY PartsAssumption DEF S!Init, Apart
    <3>3. links = {} \cup {[requester |-> u, addressee |-> Me, status |-> "pending"]}
      BY <2>2
    <3> QED
      BY <1>3, <3>1, <3>2, <3>3, AskedLink
  <2>3. links \in S!LinksAtFirst
    BY DEF S!Init
  <2> QED
    BY <2>1, <2>2, <2>3 DEF S!LinksAtFirst
<1>5. DeviceOk
  <2>1. /\ DOMAIN signals = {} /\ signals = [n \in {} |-> [at |-> "done", open |-> {}, stamp |-> 0]]
        /\ incoming = {} /\ answered = {} /\ latest = 0
    BY DEF S!Init
  <2>2. Stamped = 0
    <3>1. {m \in DOMAIN signals : signals[m].stamp > 0} = {}
      BY <2>1
    <3> QED
      BY <3>1, FS_EmptySet DEF Stamped
  <2>3. SignalsOk
    BY <2>1, <2>2, FS_EmptySet DEF SignalsOk
  <2> QED
    BY <2>1, <2>3 DEF DeviceOk, IdsOk, Given, Intervals, Lasts, KeptAway
<1> QED
  BY <1>1, <1>2, <1>4, <1>5 DEF SocialKept, ServerOk

(* What the run checks follows from what is kept.                          *)
LEMMA AtMostOne == ASSUME NEW X, \A x, y \in X : x = y PROVE Cardinality(X) <= 1
<1>1. CASE X = {}
  BY <1>1, FS_EmptySet
<1>2. CASE X # {}
  <2>1. PICK x : x \in X
    BY <1>2
  <2>2. X = {x}
    BY <2>1
  <2> QED
    <3>1. Cardinality({x}) = 1
      BY FS_Singleton
    <3> QED
      BY <2>2, <3>1
<1> QED
  BY <1>1, <1>2
LEMMA KeptIsSound == ServerOk => S!SocialSound
<1> SUFFICES ASSUME ServerOk PROVE S!SocialSound
  OBVIOUS
<1>1. ASSUME NEW u \in People, NEW v \in People, u # v
      PROVE  /\ Cardinality(S!link(u, v)) <= 1
             /\ v \in S!hiddenFor(u) => S!link(u, v) = {} /\ S!challengesBetween(u, v) = {}
  <2>1. \A k, l \in S!link(u, v) : k = l
    BY LinksBetween DEF ServerOk, LinksOk, Between
  <2>2. ASSUME v \in S!hiddenFor(u) PROVE S!link(u, v) = {} /\ S!challengesBetween(u, v) = {}
    <3>1. ~Apart(u, v, blocks) /\ ~Apart(v, u, blocks)
      BY <2>2, LinksBetween DEF Apart
    <3>2. \A l \in links : ~Between(l, u, v)
      BY <3>1 DEF ServerOk, LinksOk, Between
    <3>3. \A c \in challenges : {c.from, c.to} # {u, v}
      <4>1. ASSUME NEW c \in challenges, {c.from, c.to} = {u, v} PROVE FALSE
        <5>1. (c.from = u /\ c.to = v) \/ (c.from = v /\ c.to = u)
          BY <4>1, PairsOf
        <5> QED
          BY <3>1, <5>1 DEF ServerOk, ChallengesOk
      <4> QED
        BY <4>1
    <3> QED
      BY <3>2, <3>3, LinksBetween DEF S!challengesBetween
  <2> QED
    BY <2>1, <2>2, AtMostOne
<1>2. ASSUME NEW u \in People
      PROVE  /\ Cardinality(S!friendsOf(u)) <= MaxFriends /\ Cardinality(S!pendingOut(u)) <= MaxPendingOut
             /\ u \in playing => S!challengesOf(u) = {}
             /\ Cardinality({c \in challenges : c.from = u}) <= 1
  <2>1. Cardinality(S!friendsOf(u)) <= MaxFriends /\ Cardinality(S!pendingOut(u)) <= MaxPendingOut
    BY LinksBetween DEF ServerOk, Limited
  <2>2. u \in playing => S!challengesOf(u) = {}
    BY DEF ServerOk, ChallengesOk, S!challengesOf
  <2>3. \A c, d \in {e \in challenges : e.from = u} : c = d
    BY DEF ServerOk, ChallengesOk
  <2> QED
    BY <2>1, <2>2, <2>3, AtMostOne
<1>3. ASSUME NEW u \in gone PROVE S!linksOf(u) = {} /\ S!challengesOf(u) = {}
  BY <1>3 DEF ServerOk, LinksOk, ChallengesOk, S!linksOf, S!challengesOf
<1> QED
  BY <1>1, <1>2, <1>3, CardinalityOf DEF S!SocialSound
(* What is offered of u: what each action of a screen presupposes.         *)
Asks(relation, action) ==
  \/ relation = "none" /\ action = "request"
  \/ relation = "incoming" /\ action \in {"accept", "decline"}
  \/ relation = "outgoing" /\ action = "cancel"
LEMMA RelationActions ==
  ASSUME NEW me, NEW u, NEW action
  PROVE  /\ S!relationTo(me, u) \in {"friend", "incoming", "outgoing", "none"}
         /\ S!relationTo(me, u) = "friend" <=> S!IsAccepted(me, u)
         /\ S!relationTo(me, u) = "incoming" => S!Pending(u, me)
         /\ S!relationTo(me, u) = "outgoing" => S!Pending(me, u)
         /\ S!relationTo(me, u) = "none" => ~S!IsAccepted(me, u) /\ ~S!Pending(u, me) /\ ~S!Pending(me, u)
         /\ action \in S!RelationAction(S!relationTo(me, u)) => Asks(S!relationTo(me, u), action)
<1>1. /\ S!relationTo(me, u) \in {"friend", "incoming", "outgoing", "none"}
      /\ S!relationTo(me, u) = "friend" <=> S!IsAccepted(me, u)
      /\ S!relationTo(me, u) = "incoming" => S!Pending(u, me)
      /\ S!relationTo(me, u) = "outgoing" => S!Pending(me, u)
      /\ S!relationTo(me, u) = "none" => ~S!IsAccepted(me, u) /\ ~S!Pending(u, me) /\ ~S!Pending(me, u)
  <2>1. CASE S!IsAccepted(me, u)
    BY <2>1 DEF S!relationTo
  <2>2. CASE ~S!IsAccepted(me, u) /\ S!Pending(u, me)
    BY <2>2 DEF S!relationTo
  <2>3. CASE ~S!IsAccepted(me, u) /\ ~S!Pending(u, me) /\ S!Pending(me, u)
    BY <2>3 DEF S!relationTo
  <2>4. CASE ~S!IsAccepted(me, u) /\ ~S!Pending(u, me) /\ ~S!Pending(me, u)
    BY <2>4 DEF S!relationTo
  <2> QED
    BY <2>1, <2>2, <2>3, <2>4
<1>2. PICK relation : relation = S!relationTo(me, u)
  OBVIOUS
<1>3. action \in S!RelationAction(relation) => Asks(relation, action)
  <2>1. CASE relation = "friend"
    BY <2>1 DEF S!RelationAction, Asks
  <2>2. CASE relation = "incoming"
    BY <2>2 DEF S!RelationAction, Asks
  <2>3. CASE relation = "outgoing"
    BY <2>3 DEF S!RelationAction, Asks
  <2>4. CASE relation = "none"
    BY <2>4 DEF S!RelationAction, Asks
  <2> QED
    BY <1>1, <1>2, <2>1, <2>2, <2>3, <2>4
<1> QED
  BY <1>1, <1>2, <1>3
LEMMA Linked ==
  ASSUME ServerOk, NEW me \in People, NEW u \in People, S!link(me, u) # {}
  PROVE  Apart(me, u, blocks) /\ Apart(u, me, blocks) /\ S!relationTo(me, u) # "none"
<1>1. PICK l \in links : Between(l, me, u)
  BY LinksBetween
<1>2. Apart(me, u, blocks) /\ Apart(u, me, blocks)
  BY <1>1 DEF ServerOk, LinksOk, Between, Apart
<1>3. S!IsAccepted(me, u) \/ S!Pending(me, u) \/ S!Pending(u, me)
  <2>1. (l.status = "pending" \/ l.status = "accepted") /\ (l.requester = me \/ l.requester = u) /\ Between(l, u, me)
    BY <1>1 DEF ServerOk, LinksOk, AllLinks, Between
  <2> QED
    BY <1>1, <2>1, LinksBetween
<1> QED
  BY <1>2, <1>3, RelationActions
(* A challenge is offered to whom a link or the list of all makes one.     *)
Reachable(me, u) ==
  /\ S!statusOf(u) = "online" /\ me \notin playing
  /\ (S!link(me, u) # {} \/ (AllFriends /\ u \notin S!hiddenFor(me)))
LEMMA WhatIsOffered ==
  ASSUME ServerOk, NEW me \in People \ gone, NEW u \in People \ (gone \cup {me}), <<u, me>> \notin blocks,
         NEW action, action \in S!Offered(me, u)
  PROVE  \/ Asks(S!relationTo(me, u), action) /\ (action = "request" => Apart(me, u, blocks))
         \/ action = "remove" /\ S!relationTo(me, u) = "friend"
         \/ action = "challenge" /\ Reachable(me, u)
         \/ action = "block"
         \/ action = "unblock" /\ <<me, u>> \in blocks
<1>1. u \in S!others(me) => AllFriends /\ u \notin S!hiddenFor(me) /\ Apart(me, u, blocks)
  BY LinksBetween DEF S!others
<1>2. action \in S!RelationAction(S!relationTo(me, u)) => Asks(S!relationTo(me, u), action)
  BY RelationActions
<1>3. S!link(me, u) # {} => Apart(me, u, blocks)
  BY Linked
<1>4. u \in S!friendsOf(me) => S!link(me, u) # {}
  BY DEF S!friendsOf, S!IsAccepted
<1>5. action \in S!FriendRow(me, u) => action = "challenge" /\ S!statusOf(u) = "online" /\ me \notin playing
  BY DEF S!FriendRow, S!canChallenge, S!inMatch
<1>6. CASE action \in S!FriendsCard(me, u)
  BY <1>1, <1>4, <1>5, <1>6 DEF S!FriendsCard, S!challengeable, Reachable
<1>7. CASE action \in S!Friends(me, u) /\ action \notin S!FriendsCard(me, u)
  BY <1>1, <1>2, <1>3, <1>7 DEF S!Friends, S!FriendsCard
<1>8. CASE action \in S!SearchResults(me, u)
  BY <1>2, <1>8, LinksBetween DEF S!SearchResults, S!search
<1> DEFINE r == S!relationOf(me, u)
<1>9. /\ r.relation = S!relationTo(me, u)
      /\ r.status = "online" => S!statusOf(u) = "online" /\ (S!link(me, u) # {} \/ u \in S!others(me))
  <2>1. r = [relation |-> S!relationTo(me, u),
             status |-> IF S!link(me, u) # {} \/ u \in S!others(me) THEN S!statusOf(u) ELSE "unknown"]
    BY DEF S!relationOf
  <2> QED
    BY <2>1
<1>10. CASE action \in S!PlayerProfile(me, u)
  <2>1. CASE <<me, u>> \in blocks
    BY <1>10, <2>1 DEF S!PlayerProfile
  <2>2. CASE <<me, u>> \notin blocks
    <3>1. Apart(me, u, blocks)
      BY <2>2 DEF Apart
    <3>2. \/ action = "block" \/ action \in S!RelationAction(r.relation)
          \/ action = "challenge" /\ r.status = "online" /\ S!canChallenge(me)
          \/ action = "remove" /\ r.relation = "friend"
      BY <1>10, <2>2 DEF S!PlayerProfile
    <3> QED
      BY <1>1, <1>2, <1>9, <3>1, <3>2 DEF Reachable, S!canChallenge, S!inMatch
  <2> QED
    BY <2>1, <2>2
<1>11. CASE action \in S!BlockedPlayers(me, u)
  BY <1>11 DEF S!BlockedPlayers
<1>12. CASE <<me, u>> \notin blocks /\ action \in S!AddOpponent(me, u)
  <2>1. Apart(me, u, blocks)
    BY <1>12 DEF Apart
  <2>2. Asks(r.relation, action)
    <3>1. CASE r.relation = "friend" \/ r.relation = "outgoing"
      BY <1>12, <3>1 DEF S!AddOpponent
    <3>2. CASE r.relation = "incoming"
      BY <1>12, <3>2 DEF S!AddOpponent, Asks
    <3>3. CASE r.relation = "none"
      BY <1>12, <3>3 DEF S!AddOpponent, Asks
    <3> QED
      BY <1>9, <3>1, <3>2, <3>3, RelationActions
  <2> QED
    BY <1>9, <2>1, <2>2
<1> QED
  BY <1>6, <1>7, <1>8, <1>10, <1>11, <1>12 DEF S!Offered
LEMMA OfferKept == ServerOk => S!OfferedIsAccepted
<1> SUFFICES ASSUME ServerOk, NEW me \in People \ gone, NEW u \in People \ (gone \cup {me}), <<u, me>> \notin blocks,
                    NEW action \in S!Offered(me, u)
             PROVE  \/ S!OutcomeOf(action, me, u) \in S!Limits
                    \/ (action = "challenge" /\ S!relationTo(me, u) \in {"incoming", "outgoing"})
  BY DEF S!OfferedIsAccepted
<1>1. CASE action = "request" /\ S!relationTo(me, u) = "none" /\ Apart(me, u, blocks)
  <2>1. u \notin S!hiddenFor(me) /\ ~S!IsAccepted(me, u) /\ ~S!Pending(me, u)
    BY <1>1, LinksBetween, RelationActions
  <2>2. S!RequestOutcome(me, u) \in S!Limits
    BY <2>1 DEF S!RequestOutcome, S!findById, S!Limits
  <2> QED
    BY <1>1, <2>2 DEF S!OutcomeOf
<1>2. CASE action = "accept" /\ S!relationTo(me, u) = "incoming"
  <2>1. S!AcceptOutcome(me, u) \in S!Limits
    BY <1>2, RelationActions DEF S!AcceptOutcome, S!Limits
  <2> QED
    BY <1>2, <2>1 DEF S!OutcomeOf
<1>3. CASE action \in {"cancel", "decline"} /\ S!relationTo(me, u) \in {"incoming", "outgoing"}
  <2>1. S!Pending(u, me) \/ S!Pending(me, u)
    BY <1>3, RelationActions
  <2>2. \E l \in S!link(me, u) : l.status = "pending"
    BY <2>1, LinksBetween DEF Between
  <2>3. S!DeleteOutcome(me, u, "pending") = "ok"
    BY <2>2 DEF S!DeleteOutcome
  <2> QED
    BY <1>3, <2>3 DEF S!OutcomeOf, S!Limits
<1>4. CASE action = "remove" /\ S!relationTo(me, u) = "friend"
  <2>1. S!DeleteOutcome(me, u, "accepted") = "ok"
    BY <1>4, RelationActions DEF S!DeleteOutcome, S!IsAccepted
  <2> QED
    BY <1>4, <2>1 DEF S!OutcomeOf, S!Limits
<1>5. CASE action = "challenge" /\ Reachable(me, u) /\ S!relationTo(me, u) \notin {"incoming", "outgoing"}
  <2>1. S!isFriend(me, u)
    <3>1. S!link(me, u) # {} => S!IsAccepted(me, u) /\ u \notin S!hiddenFor(me)
      <4>1. ASSUME S!link(me, u) # {} PROVE S!IsAccepted(me, u) /\ u \notin S!hiddenFor(me)
        <5>1. Apart(me, u, blocks) /\ S!relationTo(me, u) # "none"
          BY <4>1, Linked
        <5>2. S!relationTo(me, u) \in {"friend", "incoming", "outgoing", "none"}
              /\ (S!relationTo(me, u) = "friend" <=> S!IsAccepted(me, u))
          BY RelationActions
        <5> QED
          BY <1>5, <5>1, <5>2, LinksBetween
      <4> QED
        BY <4>1
    <3> QED
      BY <1>5, <3>1 DEF Reachable, S!isFriend
  <2>2. u \notin hidden /\ u \notin playing /\ u \in seen
    BY <1>5 DEF Reachable, S!statusOf
  <2>3. S!ChallengeOutcome(me, u) = "ok"
    BY <1>5, <2>1, <2>2 DEF S!ChallengeOutcome, S!findById, S!inMatch, Reachable
  <2> QED
    BY <1>5, <2>3 DEF S!OutcomeOf, S!Limits
<1>6. CASE action = "block"
  <2>1. S!BlockOutcome(me, u) = "ok"
    BY DEF S!BlockOutcome, S!findById
  <2> QED
    BY <1>6, <2>1 DEF S!OutcomeOf, S!Limits
<1>7. CASE action = "unblock" /\ <<me, u>> \in blocks
  <2>1. S!UnblockOutcome(me, u) = "ok"
    BY <1>7 DEF S!UnblockOutcome
  <2> QED
    BY <1>7, <2>1 DEF S!OutcomeOf, S!Limits
<1>8. \/ Asks(S!relationTo(me, u), action) /\ (action = "request" => Apart(me, u, blocks))
      \/ action = "remove" /\ S!relationTo(me, u) = "friend"
      \/ action = "challenge" /\ Reachable(me, u)
      \/ action = "block"
      \/ action = "unblock" /\ <<me, u>> \in blocks
  BY WhatIsOffered
<1> QED
  BY <1>1, <1>2, <1>3, <1>4, <1>5, <1>6, <1>7, <1>8 DEF Asks

(* Links, blocks and challenges agree, what is offered is accepted and     *)
(* what was answered stays away: the invariant that the run client_parts   *)
(* checks of the part "social", for any people and limits, any number of   *)
(* requests and of presence signals under way (rest/friends.ts,            *)
(* store/challenges.ts, presence.ts and the screens).                      *)
THEOREM SocialHolds == Spec => []SocialIsSound
<1> DEFINE Inv == part = "social" => SocialKept
<1>1. Init => Inv
  <2> SUFFICES ASSUME Init, part = "social" PROVE SocialKept
    OBVIOUS
  <2>1. S!Init
    BY DEF Init
  <2> QED
    BY <2>1, SocialStarts
<1>2. Inv /\ [Next]_vars => Inv'
  BY StepsOfSocial, SocialSteps
<1>3. SocialKept => S!SocialSound /\ S!OfferedIsAccepted /\ S!AnsweredStaysAway
  BY KeptIsSound, OfferKept DEF SocialKept, DeviceOk, KeptAway, S!AnsweredStaysAway
<1>4. Inv => SocialIsSound
  BY <1>3 DEF SocialIsSound
<1> QED
  BY <1>1, <1>2, <1>4, PTL DEF Spec
-----------------------------------------------------------------------------
(***************************************************************************)
(* The decks.  What each write makes of the rows of a user: one deck in    *)
(* use that can be played, ids and dates that are never given twice.       *)
(***************************************************************************)
LEMMA StepsOfDecks ==
  [Next]_vars /\ part' = "decks" => part = "decks" /\ [D!Next]_(D!vars)
<1>1. ASSUME UNCHANGED vars PROVE part' = part /\ UNCHANGED D!vars
  BY <1>1 DEF vars, ofDecks, D!vars
<1>2. ASSUME Next PROVE part' = part /\ (part = "decks" => D!Next)
  BY <1>2 DEF Next, WireStep, AccountStep, SocialStep, DecksStep, ScreenStep, BotStep, PagesStep
<1> QED
  BY <1>1, <1>2

(* Rows R of a time t.                                                     *)
IsRow(d, t) ==
  /\ DOMAIN d = {"id", "cards", "active", "stamp"}
  /\ d.id \in Nat /\ 0 < d.id /\ d.id <= t /\ d.stamp \in Nat /\ d.stamp <= t /\ d.active \in BOOLEAN
Distinct(R) == \A d, e \in R : d.id = e.id => d = e
RowsOk(R, t) ==
  /\ R # {} /\ IsFiniteSet(R) /\ Cardinality(R) <= MaxDecks
  /\ \A d \in R : IsRow(d, t) /\ ~D!blockingProblem(d.cards) /\ (d.active => D!isValid(d.cards))
  /\ Distinct(R) /\ \A d, e \in R : d.stamp = e.stamp => d = e
  /\ \E d \in R : d.active
  /\ \A d, e \in R : d.active /\ e.active => d = e
LEMMA TheOf ==
  ASSUME NEW R, NEW id, id \in D!Ids(R)
  PROVE  /\ D!The(R, id) \in R /\ D!The(R, id).id = id
         /\ Distinct(R) => \A d \in R : d.id = id => d = D!The(R, id)
<1>1. \E d \in R : d.id = id
  BY DEF D!Ids
<1> QED
  BY <1>1 DEF D!The, Distinct
LEMMA ValidIsSaved == ASSUME NEW cards, D!isValid(cards) PROVE ~D!blockingProblem(cards)
BY DEF D!isValid

LEMMA Covers ==
  ASSUME NEW R, NEW K, IsFiniteSet(R), NEW f \in [R -> K], \A d \in K : \E e \in R : f[e] = d
  PROVE  IsFiniteSet(K) /\ Cardinality(K) <= Cardinality(R)
<1>1. f \in Surjection(R, K)
  BY DEF Surjection
<1> QED
  BY <1>1, FS_Surjection

(* A row more, in use or not, in the place of none.                        *)
LEMMA InsertKeeps ==
  ASSUME NEW R, NEW t \in Nat, NEW k \in Nat, t < k, IsFiniteSet(R), Cardinality(R) < MaxDecks, NEW cards, NEW active \in BOOLEAN,
         \A d \in R : IsRow(d, t) /\ ~D!blockingProblem(d.cards) /\ (d.active => D!isValid(d.cards)),
         Distinct(R), \A d, e \in R : d.stamp = e.stamp => d = e, \A d, e \in R : d.active /\ e.active => d = e,
         active => D!isValid(cards), ~D!blockingProblem(cards), active \/ \E d \in R : d.active
  PROVE  RowsOk(D!insert(R, cards, active, k), k)
<1>1. PICK n : n = D!row(k, cards, active, k)
  OBVIOUS
<1>2. IsRow(n, k) /\ n.id = k /\ n.stamp = k /\ n.cards = cards /\ n.active = active
  BY <1>1 DEF D!row, IsRow
<1>3. ASSUME NEW K, \A d \in K : \E e \in R : DOMAIN d = DOMAIN e /\ d.id = e.id /\ d.stamp = e.stamp /\ d.cards = e.cards
                                              /\ (d.active => e.active) /\ d.active \in BOOLEAN,
             \A d, e \in K : d.id = e.id => d = e, IsFiniteSet(K), Cardinality(K) <= Cardinality(R),
             active => \A d \in K : ~d.active, ~active => K = R
      PROVE  RowsOk(K \cup {n}, k)
  <2>1. \A d \in K : /\ IsRow(d, k) /\ ~D!blockingProblem(d.cards) /\ (d.active => D!isValid(d.cards))
                     /\ d.id < k /\ d.stamp < k
    BY <1>3 DEF IsRow
  <2>2. \A d, e \in K : d.stamp = e.stamp => d = e
    BY <1>3
  <2>3. \A d, e \in K : d.active /\ e.active => d = e
    BY <1>3
  <2>4. IsFiniteSet(K \cup {n}) /\ Cardinality(K \cup {n}) <= MaxDecks
    <3>1. n \notin K
      BY <1>2, <2>1
    <3>2. Cardinality(K \cup {n}) = Cardinality(K) + 1 /\ IsFiniteSet(K \cup {n})
      BY <1>3, <3>1, FS_AddElement
    <3>3. Cardinality(K) \in Nat /\ Cardinality(R) \in Nat /\ MaxDecks \in Nat
      BY <1>3, FS_CardinalityType, PartsAssumption
    <3> QED
      BY <1>3, <3>2, <3>3
  <2>5. \E d \in K \cup {n} : d.active
    BY <1>2, <1>3
  <2>6. \A d, e \in K \cup {n} : d.active /\ e.active => d = e
    BY <1>2, <1>3, <2>3
  <2>7. Distinct(K \cup {n}) /\ \A d, e \in K \cup {n} : d.stamp = e.stamp => d = e
    BY <1>2, <1>3, <2>1, <2>2 DEF Distinct
  <2> QED
    BY <1>2, <2>1, <2>4, <2>5, <2>6, <2>7 DEF RowsOk
<1>4. CASE active
  <2>1. PICK K : K = {[d EXCEPT !.active = FALSE] : d \in R}
    OBVIOUS
  <2>2. ASSUME NEW d \in K
        PROVE  \E e \in R : /\ DOMAIN d = DOMAIN e /\ d.id = e.id /\ d.stamp = e.stamp /\ d.cards = e.cards
                            /\ d.active = FALSE /\ d = [e EXCEPT !.active = FALSE]
    <3>1. PICK e \in R : d = [e EXCEPT !.active = FALSE]
      BY <2>1
    <3> QED
      BY <3>1 DEF IsRow
  <2>3. \A d, e \in K : d.id = e.id => d = e
    <3>1. ASSUME NEW d \in K, NEW e \in K, d.id = e.id PROVE d = e
      <4>1. PICK a \in R : d = [a EXCEPT !.active = FALSE]
        BY <2>1, <3>1
      <4>2. PICK b \in R : e = [b EXCEPT !.active = FALSE]
        BY <2>1, <3>1
      <4>3. d.id = a.id /\ e.id = b.id
        BY <4>1, <4>2 DEF IsRow
      <4> QED
        BY <3>1, <4>1, <4>2, <4>3 DEF Distinct
    <3> QED
      BY <3>1
  <2>4. IsFiniteSet(K) /\ Cardinality(K) <= Cardinality(R)
    <3>1. PICK f : f = [e \in R |-> [e EXCEPT !.active = FALSE]]
      OBVIOUS
    <3>2. f \in [R -> K] /\ \A d \in K : \E e \in R : f[e] = d
      BY <2>1, <3>1
    <3> QED
      BY <3>2, Covers
  <2>5. RowsOk(K \cup {n}, k)
    BY <1>3, <1>4, <2>2, <2>3, <2>4
  <2> QED
    BY <1>1, <1>4, <2>1, <2>5 DEF D!insert
<1>5. CASE ~active
  <2>1. RowsOk(R \cup {n}, k)
    <3>1. Cardinality(R) <= Cardinality(R)
      BY FS_CardinalityType
    <3> QED
      BY <1>3, <1>5, <3>1 DEF Distinct, IsRow
  <2> QED
    BY <1>1, <1>5, <2>1 DEF D!insert
<1> QED
  BY <1>4, <1>5

(* Rows without saying which is in use; the rows when it is said.          *)
LooseRows(R, t) ==
  /\ IsFiniteSet(R) /\ Cardinality(R) <= MaxDecks
  /\ \A d \in R : IsRow(d, t) /\ ~D!blockingProblem(d.cards)
  /\ Distinct(R) /\ \A d, e \in R : d.stamp = e.stamp => d = e
SameBut(d, e) == DOMAIN d = DOMAIN e /\ d.id = e.id /\ d.stamp = e.stamp /\ d.cards = e.cards
Switched(R, On) == {[c EXCEPT !.active = On[c]] : c \in R}
LEMMA SwitchKeeps ==
  ASSUME NEW R, NEW t \in Nat, LooseRows(R, t), NEW On \in [R -> BOOLEAN],
         NEW one \in R, On[one], D!isValid(one.cards), \A d \in R : On[d] => d = one
  PROVE  /\ RowsOk(Switched(R, On), t)
         /\ \A d \in R : \E e \in Switched(R, On) : SameBut(d, e)
         /\ \A e \in Switched(R, On) : \E d \in R : SameBut(d, e)
<1>1. PICK K : K = Switched(R, On) /\ K = {[c EXCEPT !.active = On[c]] : c \in R}
  BY DEF Switched
<1>2. ASSUME NEW d \in R PROVE [d EXCEPT !.active = On[d]] \in K /\ SameBut(d, [d EXCEPT !.active = On[d]])
                               /\ ([d EXCEPT !.active = On[d]].active <=> On[d]) /\ [d EXCEPT !.active = On[d]].active \in BOOLEAN
  BY <1>1 DEF LooseRows, IsRow, SameBut
<1>3. ASSUME NEW e \in K PROVE \E d \in R : e = [d EXCEPT !.active = On[d]] /\ SameBut(d, e) /\ (e.active <=> On[d]) /\ e.active \in BOOLEAN
  <2>1. PICK d \in R : e = [d EXCEPT !.active = On[d]]
    BY <1>1, <1>3
  <2> QED
    BY <1>2, <2>1
<1>4. \A e \in K : IsRow(e, t) /\ ~D!blockingProblem(e.cards) /\ (e.active => D!isValid(e.cards))
  <2>1. ASSUME NEW e \in K PROVE IsRow(e, t) /\ ~D!blockingProblem(e.cards) /\ (e.active => D!isValid(e.cards))
    <3>1. PICK d \in R : SameBut(d, e) /\ (e.active <=> On[d]) /\ e.active \in BOOLEAN
      BY <1>3
    <3>2. IsRow(d, t) /\ ~D!blockingProblem(d.cards) /\ (On[d] => d = one)
      BY DEF LooseRows
    <3> QED
      BY <3>1, <3>2 DEF SameBut, IsRow
  <2> QED
    BY <2>1
<1>5. ASSUME NEW d \in K, NEW e \in K PROVE (d.id = e.id => d = e) /\ (d.stamp = e.stamp => d = e) /\ (d.active /\ e.active => d = e)
  <2>1. PICK a \in R : d = [a EXCEPT !.active = On[a]] /\ SameBut(a, d) /\ (d.active <=> On[a])
    BY <1>3
  <2>2. PICK b \in R : e = [b EXCEPT !.active = On[b]] /\ SameBut(b, e) /\ (e.active <=> On[b])
    BY <1>3
  <2>3. (a.id = b.id => a = b) /\ (a.stamp = b.stamp => a = b)
    BY DEF LooseRows, Distinct
  <2> QED
    BY <2>1, <2>2, <2>3 DEF SameBut
<1>6. \E e \in K : e.active
  BY <1>2
<1>7. IsFiniteSet(K) /\ Cardinality(K) <= MaxDecks
  <2>1. PICK f : f = [c \in R |-> [c EXCEPT !.active = On[c]]]
    OBVIOUS
  <2>2. f \in [R -> K] /\ \A d \in K : \E e \in R : f[e] = d
    BY <1>1, <2>1
  <2>3. IsFiniteSet(K) /\ Cardinality(K) <= Cardinality(R)
    <3>1. IsFiniteSet(R)
      BY DEF LooseRows
    <3> QED
      BY <2>2, <3>1, Covers
  <2>4. Cardinality(K) \in Nat /\ Cardinality(R) \in Nat /\ Cardinality(R) <= MaxDecks
    BY <2>3, FS_CardinalityType DEF LooseRows
  <2> QED
    BY <2>3, <2>4, PartsAssumption
<1>8. RowsOk(K, t)
  BY <1>4, <1>5, <1>6, <1>7 DEF RowsOk, Distinct
<1>9. \A d \in R : \E e \in K : SameBut(d, e)
  BY <1>2
<1>10. \A e \in K : \E d \in R : SameBut(d, e)
  BY <1>3
<1> QED
  BY <1>1, <1>8, <1>9, <1>10

(* From R to M by one write at time k: what is gone was removed, what has  *)
(* another date was written over, what is new has its date for its id.     *)
Evolves(R, M, r, k) ==
  /\ \A x \in R : x.id \notin D!Ids(M) => r.op = "remove" /\ r.id = x.id
  /\ \A x \in R, y \in M : x.id = y.id =>
        \/ x.stamp = y.stamp /\ x.cards = y.cards
        \/ r.op = "update" /\ r.id = x.id /\ y.cards = r.cards /\ y.stamp = k
  /\ \A y \in M : y.id \in D!Ids(R) \/ (y.id = k /\ y.stamp = k)
(* The deck of the answer, and the list with it in the place of its last.  *)
KeyOf(r, k) == IF r.op = "create" THEN k ELSE r.id
Follows(R, M, r, k) ==
  r.op \in {"create", "update"} =>
     KeyOf(r, k) \in D!Ids(M) /\ M = {e \in R : e.id # KeyOf(r, k)} \cup {D!The(M, KeyOf(r, k))}
LEMMA CardinalityOfDecks == ASSUME NEW X PROVE D!Cardinality(X) = Cardinality(X)
BY DEF D!Cardinality, Cardinality
LEMMA LaterRows == ASSUME NEW R, NEW t \in Nat, NEW k \in Nat, t <= k, RowsOk(R, t) PROVE RowsOk(R, k) /\ LooseRows(R, k)
BY DEF RowsOk, IsRow, LooseRows
LEMMA CreateKeeps ==
  ASSUME NEW R, NEW t \in Nat, NEW k \in Nat, t < k, RowsOk(R, t), NEW r, r.op = "create",
         NEW o, o = D!create(R, r.cards, k)
  PROVE  \/ ~o.ok /\ o.rows = R
         \/ o.ok /\ RowsOk(o.rows, k) /\ Evolves(R, o.rows, r, k) /\ Follows(R, o.rows, r, k)
<1>1. CASE D!blockingProblem(r.cards) \/ D!Cardinality(R) >= MaxDecks
  BY <1>1 DEF D!create, D!Refused
<1>2. CASE ~(D!blockingProblem(r.cards) \/ D!Cardinality(R) >= MaxDecks)
  <2>1. PICK n, M : n = D!row(k, r.cards, FALSE, k) /\ M = R \cup {n}
    OBVIOUS
  <2>2. n.id = k /\ n.stamp = k /\ n.cards = r.cards
    BY <2>1 DEF D!row
  <2>3. o.ok /\ o.rows = D!insert(R, r.cards, FALSE, k) /\ o.rows = M
    BY <1>2, <2>1 DEF D!create, D!Done, D!insert
  <2>4. Cardinality(R) < MaxDecks
    <3>1. Cardinality(R) \in Nat /\ D!Cardinality(R) = Cardinality(R)
      BY CardinalityOfDecks, FS_CardinalityType DEF RowsOk
    <3> QED
      BY <1>2, <3>1, PartsAssumption
  <2>5. RowsOk(M, k)
    <3>1. /\ IsFiniteSet(R) /\ \A d \in R : IsRow(d, t) /\ ~D!blockingProblem(d.cards) /\ (d.active => D!isValid(d.cards))
          /\ Distinct(R) /\ \A d, e \in R : d.stamp = e.stamp => d = e
      BY DEF RowsOk
    <3>2. (\A d, e \in R : d.active /\ e.active => d = e) /\ \E d \in R : d.active
      BY DEF RowsOk
    <3>3. FALSE \in BOOLEAN /\ ~D!blockingProblem(r.cards)
      BY <1>2
    <3>4. RowsOk(D!insert(R, r.cards, FALSE, k), k)
      BY <2>4, <3>1, <3>2, <3>3, InsertKeeps
    <3> QED
      BY <2>3, <3>4
  <2>6. \A e \in R : e.id < k
    BY DEF RowsOk, IsRow
  <2>7. Evolves(R, M, r, k)
    <3>1. Distinct(R) /\ \A e \in R : e.id < k /\ e.id \in Nat
      BY <2>6 DEF RowsOk, IsRow
    <3>2. ASSUME NEW x \in R, NEW y \in M, x.id = y.id PROVE x = y
      <4>1. y \in R \/ y.id = k
        BY <2>1, <2>2
      <4>2. x.id # k
        BY <3>1
      <4> QED
        BY <3>1, <3>2, <4>1, <4>2 DEF Distinct
    <3>3. \A x \in R : x.id \in D!Ids(M)
      BY <2>1 DEF D!Ids
    <3>4. \A y \in M : y.id \in D!Ids(R) \/ (y.id = k /\ y.stamp = k)
      BY <2>1, <2>2 DEF D!Ids
    <3> QED
      BY <3>2, <3>3, <3>4 DEF Evolves
  <2>8. Follows(R, M, r, k)
    <3>1. KeyOf(r, k) = k /\ k \in D!Ids(M)
      BY <2>1, <2>2 DEF KeyOf, D!Ids
    <3>2. D!The(M, k) = n
      <4>1. Distinct(M) /\ n \in M
        BY <2>1, <2>5 DEF RowsOk
      <4> QED
        BY <2>2, <3>1, <4>1, TheOf
    <3>3. {e \in R : e.id # k} = R
      BY <2>6
    <3> QED
      BY <2>1, <3>1, <3>2, <3>3 DEF Follows
  <2> QED
    BY <2>3, <2>5, <2>7, <2>8
<1> QED
  BY <1>1, <1>2
LEMMA UpdateKeeps ==
  ASSUME NEW R, NEW t \in Nat, NEW k \in Nat, t < k, RowsOk(R, t), NEW r, r.op = "update", r.id \in D!Ids(R),
         NEW o, o = D!update(R, D!The(R, r.id), r.cards, k)
  PROVE  \/ ~o.ok /\ o.rows = R
         \/ o.ok /\ RowsOk(o.rows, k) /\ Evolves(R, o.rows, r, k) /\ Follows(R, o.rows, r, k)
<1>1. PICK d \in R : d = D!The(R, r.id) /\ d.id = r.id /\ \A e \in R : e.id = r.id => e = d
  BY TheOf DEF RowsOk
<1>2. CASE D!blockingProblem(r.cards) \/ (d.active /\ ~D!isValid(r.cards))
  BY <1>1, <1>2 DEF D!update, D!Refused
<1>3. CASE ~(D!blockingProblem(r.cards) \/ (d.active /\ ~D!isValid(r.cards)))
  <2>1. PICK n, K, M : n = [d EXCEPT !.cards = r.cards, !.stamp = k] /\ K = R \ {d} /\ M = K \cup {n}
    OBVIOUS
  <2>2. /\ DOMAIN n = DOMAIN d /\ n.id = d.id /\ n.stamp = k /\ n.cards = r.cards /\ n.active = d.active
        /\ IsRow(d, t) /\ IsRow(n, k)
    BY <2>1 DEF RowsOk, IsRow
  <2>3. o.ok /\ o.rows = M
    BY <1>1, <1>3, <2>1 DEF D!update, D!Done
  <2>4. \A e \in K : e \in R /\ e # d /\ e.id # n.id /\ e.stamp < k /\ IsRow(e, k)
    BY <1>1, <2>1, <2>2 DEF RowsOk, IsRow
  <2>5. IsFiniteSet(M) /\ Cardinality(M) <= MaxDecks
    <3>1. IsFiniteSet(K) /\ Cardinality(K) = Cardinality(R) - 1
      BY <2>1, FS_RemoveElement DEF RowsOk
    <3>2. n \notin K
      BY <2>4
    <3>3. IsFiniteSet(M) /\ Cardinality(M) = Cardinality(K) + 1
      BY <2>1, <3>1, <3>2, FS_AddElement
    <3>4. Cardinality(R) \in Nat
      BY FS_CardinalityType DEF RowsOk
    <3> QED
      BY <3>1, <3>3, <3>4 DEF RowsOk
  <2>6. \A e \in M : IsRow(e, k) /\ ~D!blockingProblem(e.cards) /\ (e.active => D!isValid(e.cards))
    BY <1>3, <2>1, <2>2, <2>4 DEF RowsOk
  <2>7. Distinct(M) /\ \A a, b \in M : a.stamp = b.stamp => a = b
    <3>1. \A a, b \in R : (a.id = b.id => a = b) /\ (a.stamp = b.stamp => a = b)
      BY DEF RowsOk, Distinct
    <3>2. \A a \in M : a = n \/ (a \in R /\ a.id # n.id /\ a.stamp # n.stamp)
      BY <2>1, <2>2, <2>4 DEF IsRow
    <3> QED
      BY <3>1, <3>2 DEF Distinct
  <2>8. (\E e \in M : e.active) /\ \A a, b \in M : a.active /\ b.active => a = b
    BY <2>1, <2>2, <2>4 DEF RowsOk
  <2>9. RowsOk(M, k)
    BY <2>1, <2>5, <2>6, <2>7, <2>8 DEF RowsOk
  <2>10. Evolves(R, M, r, k)
    <3>1. \A x \in R : x.id \in D!Ids(M)
      <4>1. ASSUME NEW x \in R PROVE \E y \in M : y.id = x.id
        BY <2>1, <2>2
      <4> QED
        BY <4>1 DEF D!Ids
    <3>2. ASSUME NEW x \in R, NEW y \in M, x.id = y.id
          PROVE  (x.stamp = y.stamp /\ x.cards = y.cards) \/ (y.id = r.id /\ y.cards = r.cards /\ y.stamp = k)
      <4>1. CASE y = n
        BY <1>1, <2>2, <4>1
      <4>2. CASE y # n
        BY <2>1, <2>4, <3>2, <4>2 DEF RowsOk, Distinct
      <4> QED
        BY <4>1, <4>2
    <3>3. \A y \in M : y.id \in D!Ids(R)
      <4>1. ASSUME NEW y \in M PROVE \E x \in R : y.id = x.id
        BY <2>1, <2>2, <2>4
      <4> QED
        BY <4>1 DEF D!Ids
    <3> QED
      BY <3>1, <3>2, <3>3 DEF Evolves
  <2>11. Follows(R, M, r, k)
    <3>1. KeyOf(r, k) = n.id /\ n.id \in D!Ids(M)
      BY <1>1, <2>1, <2>2 DEF KeyOf, D!Ids
    <3>2. D!The(M, n.id) = n
      <4>1. n \in M /\ Distinct(M)
        BY <2>1, <2>7
      <4> QED
        BY <3>1, <4>1, TheOf
    <3>3. {e \in R : e.id # n.id} = K
      BY <1>1, <2>1, <2>2
    <3> QED
      BY <2>1, <3>1, <3>2, <3>3 DEF Follows
  <2> QED
    BY <2>3, <2>9, <2>10, <2>11
<1> QED
  BY <1>2, <1>3
LEMMA RestEvolves ==
  ASSUME NEW R, NEW t \in Nat, NEW k \in Nat, t < k, RowsOk(R, t), NEW rest, rest \subseteq R, NEW K, NEW r,
         \A d \in rest : \E e \in K : SameBut(d, e),
         \A e \in K : (\E d \in rest : SameBut(d, e)) \/ (e.id = k /\ e.stamp = k),
         \A x \in R : x \in rest \/ (r.op = "remove" /\ r.id = x.id)
  PROVE  Evolves(R, K, r, k)
<1>1. \A x \in R : x.id \notin D!Ids(K) => r.op = "remove" /\ r.id = x.id
  BY DEF D!Ids, SameBut
<1>2. ASSUME NEW x \in R, NEW y \in K, x.id = y.id PROVE x.stamp = y.stamp /\ x.cards = y.cards
  <2>1. x.id # k
    BY DEF RowsOk, IsRow
  <2>2. PICK d \in rest : SameBut(d, y)
    BY <1>2, <2>1
  <2>3. d = x
    BY <1>2, <2>2 DEF SameBut, RowsOk, Distinct
  <2> QED
    BY <2>2, <2>3 DEF SameBut
<1>3. \A y \in K : y.id \in D!Ids(R) \/ (y.id = k /\ y.stamp = k)
  BY DEF D!Ids, SameBut
<1> QED
  BY <1>1, <1>2, <1>3 DEF Evolves
(* The outcome of a write.                                                 *)
Writes(R, o, r, k) ==
  \/ ~o.ok /\ o.rows = R
  \/ o.ok /\ RowsOk(o.rows, k) /\ Evolves(R, o.rows, r, k) /\ Follows(R, o.rows, r, k)
LEMMA ActivateKeeps ==
  ASSUME NEW R, NEW t \in Nat, NEW k \in Nat, t < k, RowsOk(R, t), NEW r, r.op = "activate", r.id \in D!Ids(R)
  PROVE  Writes(R, D!activate(R, D!The(R, r.id)), r, k)
<1>1. PICK d \in R : d = D!The(R, r.id) /\ d.id = r.id /\ \A e \in R : e.id = r.id => e = d
  BY TheOf DEF RowsOk
<1>2. CASE ~D!isValid(d.cards)
  BY <1>1, <1>2 DEF D!activate, D!Refused, Writes
<1>3. CASE D!isValid(d.cards)
  <2>1. PICK On : On = [e \in R |-> e.id = d.id]
    OBVIOUS
  <2>2. PICK K : K = Switched(R, On) /\ K = {[e EXCEPT !.active = On[e]] : e \in R}
    BY DEF Switched
  <2>3. On \in [R -> BOOLEAN] /\ On[d] /\ \A e \in R : On[e] => e = d
    BY <1>1, <2>1
  <2>4. K = D!Only(R, d.id)
    <3>1. \A e \in R : [e EXCEPT !.active = On[e]] = [e EXCEPT !.active = (e.id = d.id)]
      BY <2>1
    <3>2. PICK M : M = {[e EXCEPT !.active = (e.id = d.id)] : e \in R}
      OBVIOUS
    <3>3. \A x : x \in K <=> x \in M
      <4>1. \A x : x \in K <=> \E e \in R : x = [e EXCEPT !.active = On[e]]
        BY <2>2
      <4>2. \A x : x \in M <=> \E e \in R : x = [e EXCEPT !.active = (e.id = d.id)]
        BY <3>2
      <4>3. ASSUME NEW x \in K PROVE x \in M
        <5>1. PICK e \in R : x = [e EXCEPT !.active = On[e]]
          BY <4>1
        <5> QED
          BY <3>1, <4>2, <5>1
      <4>4. ASSUME NEW x \in M PROVE x \in K
        <5>1. PICK e \in R : x = [e EXCEPT !.active = (e.id = d.id)]
          BY <4>2
        <5> QED
          BY <3>1, <4>1, <5>1
      <4> QED
        BY <4>3, <4>4
    <3> QED
      BY <3>2, <3>3 DEF D!Only
  <2>5. LooseRows(R, k)
    BY LaterRows
  <2>6. RowsOk(K, k) /\ (\A e \in R : \E c \in K : SameBut(e, c)) /\ \A c \in K : \E e \in R : SameBut(e, c)
    <3>1. RowsOk(Switched(R, On), k) /\ (\A e \in R : \E c \in Switched(R, On) : SameBut(e, c)) /\ \A c \in Switched(R, On) : \E e \in R : SameBut(e, c)
      BY <1>3, <2>3, <2>5, SwitchKeeps
    <3> QED
      BY <2>2, <3>1
  <2>7. Evolves(R, K, r, k)
    BY <2>6, RestEvolves
  <2> QED
    BY <1>1, <1>3, <2>4, <2>6, <2>7 DEF D!activate, D!Done, Writes, Follows
<1> QED
  BY <1>2, <1>3
LEMMA RemoveKeeps ==
  ASSUME NEW R, NEW t \in Nat, NEW k \in Nat, t < k, RowsOk(R, t), NEW r, r.op = "remove", r.id \in D!Ids(R)
  PROVE  Writes(R, D!remove(R, D!The(R, r.id), k), r, k)
<1>1. PICK d \in R : d = D!The(R, r.id) /\ d.id = r.id /\ \A e \in R : e.id = r.id => e = d
  BY TheOf DEF RowsOk
<1>2. PICK rest, next, o : rest = R \ {d} /\ next = D!mostRecentValid(rest) /\ o = D!remove(R, d, k)
  OBVIOUS
<1>3. IsFiniteSet(rest) /\ Cardinality(rest) < MaxDecks /\ Cardinality(rest) <= MaxDecks
  <2>1. IsFiniteSet(rest) /\ Cardinality(rest) = Cardinality(R) - 1
    BY <1>2, FS_RemoveElement DEF RowsOk
  <2>2. Cardinality(R) \in Nat /\ Cardinality(R) <= MaxDecks
    BY FS_CardinalityType DEF RowsOk
  <2> QED
    BY <2>1, <2>2, PartsAssumption
<1>4. /\ \A e \in rest : e \in R /\ e # d
      /\ \A x \in R : x \in rest \/ (r.op = "remove" /\ r.id = x.id)
  BY <1>1, <1>2
<1>5. \A e \in rest : IsRow(e, t) /\ IsRow(e, k) /\ ~D!blockingProblem(e.cards) /\ (e.active => D!isValid(e.cards))
  BY <1>4 DEF RowsOk, IsRow
<1>6. Distinct(rest) /\ (\A a, b \in rest : a.stamp = b.stamp => a = b) /\ \A a, b \in rest : a.active /\ b.active => a = b
  BY <1>4 DEF RowsOk, Distinct
<1>7. CASE rest = {}
  BY <1>1, <1>2, <1>7 DEF D!remove, D!Refused, Writes
<1>8. CASE rest # {} /\ ~d.active
  <2>1. o = [ok |-> TRUE, rows |-> rest]
    BY <1>2, <1>8 DEF D!remove, D!Done
  <2>2. \E e \in rest : e.active
    BY <1>2, <1>8 DEF RowsOk
  <2>3. RowsOk(rest, k)
    BY <1>3, <1>5, <1>6, <1>8, <2>2 DEF RowsOk
  <2>4. Evolves(R, rest, r, k)
    <3>1. \A e \in rest : SameBut(e, e)
      BY DEF SameBut
    <3> QED
      BY <1>4, <3>1, RestEvolves
  <2> QED
    BY <1>1, <1>2, <2>1, <2>3, <2>4 DEF Writes, Follows
<1>9. CASE rest # {} /\ d.active /\ next # {}
  <2>1. PICK one \in next : TRUE
    BY <1>9
  <2>2. one \in rest /\ D!isValid(one.cards) /\ \A e \in next : e \in rest /\ e.stamp <= one.stamp /\ one.stamp <= e.stamp
    BY <1>2, <2>1 DEF D!mostRecentValid
  <2>3. \A e \in next : e = one
    BY <1>5, <1>6, <2>2 DEF IsRow
  <2>4. PICK On : On = [e \in rest |-> e \in next]
    OBVIOUS
  <2>5. PICK K : K = Switched(rest, On) /\ K = {[e EXCEPT !.active = On[e]] : e \in rest}
    BY DEF Switched
  <2>6. On \in [rest -> BOOLEAN] /\ On[one] /\ \A e \in rest : On[e] => e = one
    <3>1. \A e \in rest : (e \in next) \in BOOLEAN
      OBVIOUS
    <3>2. On \in [rest -> BOOLEAN]
      BY <2>4, <3>1
    <3>3. \A e \in rest : On[e] = (e \in next)
      BY <2>4
    <3>4. \A e \in rest : On[e] => e = one
      BY <2>3, <3>3
    <3>5. On[one]
      BY <2>1, <2>2, <3>3
    <3> QED
      BY <3>2, <3>4, <3>5
  <2>7. o = [ok |-> TRUE, rows |-> K]
    <3>1. \A e \in rest : [e EXCEPT !.active = On[e]] = [e EXCEPT !.active = e \in next]
      BY <2>4
    <3>2. K = {[e EXCEPT !.active = e \in next] : e \in rest}
      BY <2>5, <3>1
    <3> QED
      BY <1>2, <1>9, <3>2 DEF D!remove, D!Done
  <2>8. LooseRows(rest, k)
    BY <1>3, <1>5, <1>6 DEF LooseRows
  <2>9. RowsOk(K, k) /\ (\A e \in rest : \E c \in K : SameBut(e, c)) /\ \A c \in K : \E e \in rest : SameBut(e, c)
    <3>1. RowsOk(Switched(rest, On), k) /\ (\A e \in rest : \E c \in Switched(rest, On) : SameBut(e, c)) /\ \A c \in Switched(rest, On) : \E e \in rest : SameBut(e, c)
      BY <2>2, <2>6, <2>8, SwitchKeeps
    <3> QED
      BY <2>5, <3>1
  <2>10. Evolves(R, K, r, k)
    BY <1>4, <2>9, RestEvolves
  <2> QED
    BY <1>1, <1>2, <2>7, <2>9, <2>10 DEF Writes, Follows
<1>10. CASE rest # {} /\ d.active /\ next = {}
  <2>1. PICK K : K = D!insert(rest, D!starterDeck, TRUE, k)
    OBVIOUS
  <2>2. o = [ok |-> TRUE, rows |-> K]
    BY <1>2, <1>10, <2>1 DEF D!remove, D!Done
  <2>3. D!isValid(D!starterDeck) /\ ~D!blockingProblem(D!starterDeck) /\ TRUE \in BOOLEAN
    BY ValidIsSaved, StarterAssumption
  <2>4. RowsOk(K, k)
    BY <1>3, <1>5, <1>6, <2>1, <2>3, InsertKeeps
  <2>5. K = {[e EXCEPT !.active = FALSE] : e \in rest} \cup {D!row(k, D!starterDeck, TRUE, k)}
    BY <2>1 DEF D!insert
  <2>6. \A e \in rest : [e EXCEPT !.active = FALSE] \in K /\ SameBut(e, [e EXCEPT !.active = FALSE])
    BY <1>5, <2>5 DEF SameBut, IsRow
  <2>7. \A e \in K : (\E c \in rest : SameBut(c, e)) \/ (e.id = k /\ e.stamp = k)
    <3>1. ASSUME NEW e \in K PROVE (\E c \in rest : e = [c EXCEPT !.active = FALSE]) \/ (e.id = k /\ e.stamp = k)
      BY <2>5 DEF D!row
    <3> QED
      BY <2>6, <3>1
  <2>8. Evolves(R, K, r, k)
    BY <1>4, <2>6, <2>7, RestEvolves
  <2> QED
    BY <1>1, <1>2, <2>2, <2>4, <2>8 DEF Writes, Follows
<1> QED
  BY <1>7, <1>8, <1>9, <1>10
(* What a request makes of the rows, when there are some, and the first,   *)
(* which finds none.                                                       *)
Operations == {"list", "create", "update", "remove", "activate"}
LEMMA OutcomeKeeps ==
  ASSUME stamp \in Nat, decks # {}, RowsOk(decks, stamp), NEW r, r.op \in Operations
  PROVE  Writes(decks, D!Outcome(r), r, stamp + 1)
<1>1. PICK k \in Nat : k = stamp + 1 /\ stamp < k
  OBVIOUS
<1>2. D!userDecks = decks
  BY DEF D!userDecks
<1>3. CASE r.op \in {"update", "remove", "activate"} /\ r.id \notin D!Ids(decks)
  BY <1>2, <1>3 DEF D!Outcome, D!Refused, Writes
<1>4. CASE r.op = "list"
  <2>1. RowsOk(decks, k)
    BY <1>1, LaterRows
  <2>2. Evolves(decks, decks, r, k)
    BY DEF Evolves, D!Ids, RowsOk, Distinct
  <2> QED
    BY <1>1, <1>2, <1>4, <2>1, <2>2 DEF D!Outcome, D!Done, Writes, Follows
<1>5. CASE r.op = "create"
  <2>1. D!Outcome(r) = D!create(decks, r.cards, k)
    BY <1>1, <1>2, <1>5 DEF D!Outcome
  <2> QED
    BY <1>1, <1>5, <2>1, CreateKeeps DEF Writes
<1>6. CASE r.op = "update" /\ r.id \in D!Ids(decks)
  <2>1. D!Outcome(r) = D!update(decks, D!The(decks, r.id), r.cards, k)
    BY <1>1, <1>2, <1>6 DEF D!Outcome
  <2> QED
    BY <1>1, <1>6, <2>1, UpdateKeeps DEF Writes
<1>7. CASE r.op = "remove" /\ r.id \in D!Ids(decks)
  <2>1. D!Outcome(r) = D!remove(decks, D!The(decks, r.id), k)
    BY <1>1, <1>2, <1>7 DEF D!Outcome
  <2> QED
    BY <1>1, <1>7, <2>1, RemoveKeeps
<1>8. CASE r.op = "activate" /\ r.id \in D!Ids(decks)
  <2>1. D!Outcome(r) = D!activate(decks, D!The(decks, r.id))
    BY <1>1, <1>2, <1>8 DEF D!Outcome
  <2> QED
    BY <1>1, <1>8, <2>1, ActivateKeeps
<1> QED
  BY <1>3, <1>4, <1>5, <1>6, <1>7, <1>8 DEF Operations
LEMMA FirstOutcome ==
  ASSUME decks = {}, NEW r, r.op = "list"
  PROVE  D!Outcome(r).ok /\ RowsOk(D!Outcome(r).rows, 2)
<1>1. PICK R : R = D!insert({}, D!starterDeck, TRUE, 1)
  OBVIOUS
<1>2. D!isValid(D!starterDeck) = TRUE /\ ~D!blockingProblem(D!starterDeck)
  BY ValidIsSaved, StarterAssumption DEF D!isValid
<1>3. Cardinality({}) < MaxDecks /\ IsFiniteSet({})
  BY FS_EmptySet, PartsAssumption
<1>4. RowsOk(R, 1)
  <2>1. Distinct({})
    BY DEF Distinct
  <2>2. 0 \in Nat /\ 1 \in Nat /\ 0 < 1 /\ TRUE \in BOOLEAN
    OBVIOUS
  <2> QED
    BY <1>1, <1>2, <1>3, <2>1, <2>2, InsertKeeps
<1>5. D!userDecks = R
  BY <1>1, <1>2 DEF D!userDecks
<1>6. RowsOk(R, 2)
  BY <1>4, LaterRows
<1> QED
  BY <1>5, <1>6 DEF D!Outcome, D!Done

(* The answers still to be read.  L of them, each of a time of its own.    *)
LiveOf(Q) == {q \in Q : q.at = "back" /\ q.ok}
LiveOk(L, t) ==
  /\ \A q \in L : /\ q.served \in Nat /\ 0 < q.served /\ q.served <= t /\ RowsOk(q.rows, q.served)
                  /\ q.op \in {"create", "update"} => KeyOf(q, q.served) \in D!Ids(q.rows)
  /\ \A p, q \in L : p.served = q.served => p = q
(* A date says what the cards of a deck are.                               *)
DatesTell(R, K) == \A x \in R, y \in K : x.id = y.id /\ x.stamp = y.stamp => x.cards = y.cards
AllAgree(list, rows, L) ==
  /\ DatesTell(list, rows)
  /\ \A q \in L : DatesTell(q.rows, rows) /\ DatesTell(list, q.rows)
  /\ \A p, q \in L : DatesTell(p.rows, q.rows)
(* What K has other than R is in an answer to come, of later than t.       *)
Told(L, R, t, K) ==
  /\ \A x \in R : x.id \notin D!Ids(K) => \E q \in L : q.op = "remove" /\ q.id = x.id /\ q.served > t
  /\ \A x \in R, y \in K : x.id = y.id /\ x.stamp # y.stamp =>
        \E q \in L : q.op = "update" /\ q.id = x.id /\ q.cards = y.cards /\ q.served > t
AllTold(list, rows, L, read) ==
  /\ Told(L, list, 0, rows)
  /\ \A q \in L : q.served >= read => Told(L, list, 0, q.rows) /\ Told(L, q.rows, q.served, rows)
  /\ \A p, q \in L : read <= p.served /\ p.served < q.served => Told(L, p.rows, p.served, q.rows)
(* Read in their order, the answers lead from the list to the rows.        *)
AllLead(list, rows, L) ==
  /\ L = {} => list = rows
  /\ \A q \in L : (\A p \in L : p.served <= q.served) => q.rows = rows
  /\ \A q \in L : (\A p \in L : q.served <= p.served) => Follows(list, q.rows, q, q.served)
  /\ \A p, q \in L :
       p.served < q.served /\ (\A s \in L : s.served <= p.served \/ q.served <= s.served) => Follows(p.rows, q.rows, q, q.served)

(* One answer more, n, of a write that went through.                       *)
Older(R, k) == \A x \in R : x.id \in Nat /\ x.id < k /\ x.stamp \in Nat /\ x.stamp < k
LEMMA AgreesOn ==
  ASSUME NEW k \in Nat, NEW X, Older(X, k), NEW R, NEW K, NEW r, Older(R, k), Evolves(R, K, r, k), DatesTell(X, R)
  PROVE  DatesTell(X, K)
<1>1. ASSUME NEW x \in X, NEW y \in K, x.id = y.id, x.stamp = y.stamp PROVE x.cards = y.cards
  <2>1. y.stamp # k
    BY <1>1 DEF Older
  <2>2. PICK z \in R : z.id = y.id
    BY <2>1 DEF Evolves, D!Ids
  <2>3. z.stamp = y.stamp /\ z.cards = y.cards
    BY <2>1, <2>2 DEF Evolves
  <2> QED
    BY <1>1, <2>2, <2>3 DEF DatesTell
<1> QED
  BY <1>1 DEF DatesTell
LEMMA IsToldOn ==
  ASSUME NEW k \in Nat, NEW X, Older(X, k), NEW R, NEW K, NEW r, Older(R, k), Evolves(R, K, r, k), DatesTell(X, R),
         NEW L, NEW t \in Nat, t < k, Told(L, X, t, R), NEW n, n.op = r.op, n.id = r.id, n.cards = r.cards, n.served = k
  PROVE  Told(L \cup {n}, X, t, K)
<1>1. ASSUME NEW x \in X, x.id \notin D!Ids(K)
      PROVE  \E q \in L \cup {n} : q.op = "remove" /\ q.id = x.id /\ q.served > t
  <2>1. CASE x.id \in D!Ids(R)
    BY <1>1, <2>1 DEF Evolves, D!Ids
  <2>2. CASE x.id \notin D!Ids(R)
    BY <2>2 DEF Told
  <2> QED
    BY <2>1, <2>2
<1>2. ASSUME NEW x \in X, NEW y \in K, x.id = y.id, x.stamp # y.stamp
      PROVE  \E q \in L \cup {n} : q.op = "update" /\ q.id = x.id /\ q.cards = y.cards /\ q.served > t
  <2>1. y.id # k
    BY <1>2 DEF Older
  <2>2. PICK z \in R : z.id = y.id
    BY <2>1 DEF Evolves, D!Ids
  <2>3. CASE r.op = "update" /\ r.id = z.id /\ y.cards = r.cards
    BY <1>2, <2>2, <2>3
  <2>4. CASE z.stamp = y.stamp /\ z.cards = y.cards
    <3>1. PICK q \in L : q.op = "update" /\ q.id = x.id /\ q.cards = z.cards /\ q.served > t
      BY <1>2, <2>2, <2>4 DEF Told
    <3> QED
      BY <2>4, <3>1
  <2> QED
    BY <2>2, <2>3, <2>4 DEF Evolves
<1> QED
  BY <1>1, <1>2 DEF Told
LEMMA MoreAgree ==
  ASSUME NEW t \in Nat, NEW k \in Nat, t < k, NEW list, Older(list, k), NEW rows, RowsOk(rows, t), NEW L, LiveOk(L, t),
         NEW n, n.served = k, RowsOk(n.rows, k), Evolves(rows, n.rows, n, k), AllAgree(list, rows, L)
  PROVE  AllAgree(list, n.rows, L \cup {n})
<1>1. Older(rows, k)
  BY DEF Older, RowsOk, IsRow
<1>2. \A q \in L : Older(q.rows, k)
  BY DEF LiveOk, Older, RowsOk, IsRow
<1>3. DatesTell(list, n.rows) /\ \A q \in L : DatesTell(q.rows, n.rows)
  BY <1>1, <1>2, AgreesOn DEF AllAgree
<1>4. DatesTell(n.rows, n.rows)
  BY DEF RowsOk, Distinct, DatesTell
<1>5. \A q \in L : DatesTell(n.rows, q.rows)
  BY <1>3 DEF DatesTell
<1> QED
  BY <1>3, <1>4, <1>5 DEF AllAgree
LEMMA MoreTold ==
  ASSUME NEW t \in Nat, NEW k \in Nat, t < k, NEW list, Older(list, k), NEW rows, RowsOk(rows, t), NEW L, LiveOk(L, t),
         NEW n, n.served = k, RowsOk(n.rows, k), Evolves(rows, n.rows, n, k), AllAgree(list, rows, L),
         NEW read, AllTold(list, rows, L, read)
  PROVE  AllTold(list, n.rows, L \cup {n}, read)
<1>1. Older(rows, k)
  BY DEF Older, RowsOk, IsRow
<1>2. \A q \in L : Older(q.rows, k) /\ q.served \in Nat /\ q.served < k
  BY DEF LiveOk, Older, RowsOk, IsRow
<1>3. Told(L \cup {n}, list, 0, n.rows)
  BY <1>1, IsToldOn DEF AllTold, AllAgree
<1>4. \A q \in L : q.served >= read => Told(L \cup {n}, q.rows, q.served, n.rows)
  BY <1>1, <1>2, IsToldOn DEF AllTold, AllAgree
<1>5. Told(L \cup {n}, n.rows, k, n.rows)
  BY DEF Told, RowsOk, Distinct, D!Ids
<1>6. \A X, s, K : Told(L, X, s, K) => Told(L \cup {n}, X, s, K)
  BY DEF Told
<1>7. \A q \in L : q.served >= read => Told(L \cup {n}, list, 0, q.rows)
  BY <1>6 DEF AllTold
<1>8. \A p, q \in L \cup {n} : read <= p.served /\ p.served < q.served => Told(L \cup {n}, p.rows, p.served, q.rows)
  <2>1. ASSUME NEW p \in L \cup {n}, NEW q \in L \cup {n}, read <= p.served, p.served < q.served
        PROVE  Told(L \cup {n}, p.rows, p.served, q.rows)
    <3>1. p \in L
      BY <1>2, <2>1
    <3>2. CASE q \in L
      BY <1>6, <2>1, <3>1, <3>2 DEF AllTold
    <3>3. CASE q = n
      BY <1>4, <2>1, <3>1, <3>3
    <3> QED
      BY <3>2, <3>3
  <2> QED
    BY <2>1
<1> QED
  BY <1>3, <1>4, <1>5, <1>7, <1>8 DEF AllTold
LEMMA MoreLead ==
  ASSUME NEW t \in Nat, NEW k \in Nat, t < k, NEW list, NEW rows, NEW L, LiveOk(L, t),
         NEW n, n.served = k, Follows(rows, n.rows, n, k), AllLead(list, rows, L)
  PROVE  AllLead(list, n.rows, L \cup {n})
<1>1. \A q \in L : q.served \in Nat /\ q.served < k
  BY DEF LiveOk
<1>2. \A q \in L \cup {n} : (\A p \in L \cup {n} : p.served <= q.served) => q = n
  BY <1>1
<1>3. ASSUME NEW q \in L \cup {n}, \A p \in L \cup {n} : q.served <= p.served PROVE Follows(list, q.rows, q, q.served)
  <2>1. CASE q = n
    <3>1. L = {}
      BY <1>1, <1>3, <2>1
    <3> QED
      BY <2>1, <3>1 DEF AllLead
  <2>2. CASE q \in L
    BY <1>3, <2>2 DEF AllLead
  <2> QED
    BY <2>1, <2>2
<1>4. ASSUME NEW p \in L \cup {n}, NEW q \in L \cup {n}, p.served < q.served,
             \A s \in L \cup {n} : s.served <= p.served \/ q.served <= s.served
      PROVE  Follows(p.rows, q.rows, q, q.served)
  <2>1. p \in L
    BY <1>1, <1>4
  <2>2. CASE q = n
    <3>1. \A s \in L : s.served <= p.served
      BY <1>1, <1>4, <2>2
    <3> QED
      BY <2>1, <2>2, <3>1 DEF AllLead
  <2>3. CASE q \in L
    BY <1>4, <2>1, <2>3 DEF AllLead
  <2> QED
    BY <2>2, <2>3
<1> QED
  BY <1>2, <1>3, <1>4 DEF AllLead
LEMMA MoreLive ==
  ASSUME NEW t \in Nat, NEW k \in Nat, t < k, NEW L, LiveOk(L, t), NEW n, n.served = k, RowsOk(n.rows, k),
         n.op \in {"create", "update"} => KeyOf(n, k) \in D!Ids(n.rows)
  PROVE  LiveOk(L \cup {n}, k)
<1>1. \A q \in L : q.served \in Nat /\ q.served < k /\ q.served <= k
  BY DEF LiveOk
<1> QED
  BY <1>1 DEF LiveOk

(* One answer less, m, which is read into the list.                        *)
ListWith(list, m) ==
  IF m.op \in {"create", "update"}
  THEN {e \in list : e.id # KeyOf(m, m.served)} \cup {D!The(m.rows, KeyOf(m, m.served))} ELSE m.rows
LEMMA RowsOfList ==
  ASSUME NEW t, NEW L, LiveOk(L, t), NEW m \in L, NEW list, NEW x \in ListWith(list, m)
  PROVE  x \in m.rows \/ (x \in list /\ m.op \in {"create", "update"} /\ x.id # KeyOf(m, m.served))
<1>1. CASE m.op \in {"create", "update"}
  <2>1. D!The(m.rows, KeyOf(m, m.served)) \in m.rows
    BY <1>1, TheOf DEF LiveOk
  <2> QED
    BY <1>1, <2>1 DEF ListWith
<1>2. CASE m.op \notin {"create", "update"}
  BY <1>2 DEF ListWith
<1> QED
  BY <1>1, <1>2
LEMMA LessAgree ==
  ASSUME NEW t, NEW L, LiveOk(L, t), NEW m \in L, NEW list, NEW rows, AllAgree(list, rows, L)
  PROVE  AllAgree(ListWith(list, m), rows, L \ {m})
<1>1. \A x \in ListWith(list, m) : x \in m.rows \/ x \in list
  BY RowsOfList
<1>2. \A K : DatesTell(list, K) /\ DatesTell(m.rows, K) => DatesTell(ListWith(list, m), K)
  BY <1>1 DEF DatesTell
<1> QED
  BY <1>2 DEF AllAgree
LEMMA LessTold ==
  ASSUME NEW t, NEW L, LiveOk(L, t), NEW m \in L, NEW list, NEW rows, NEW read \in Nat, read <= m.served,
         AllTold(list, rows, L, read)
  PROVE  AllTold(ListWith(list, m), rows, L \ {m}, m.served)
<1>1. m.served \in Nat /\ \A q \in L \ {m} : q.served \in Nat /\ q.served # m.served
  BY DEF LiveOk
<1>2. \A X, s, K : s \in Nat /\ m.served < s /\ Told(L, X, s, K) => Told(L \ {m}, X, s, K)
  BY <1>1 DEF Told
<1>3. ASSUME NEW K, Told(L, list, 0, K), Told(L, m.rows, m.served, K) PROVE Told(L \ {m}, ListWith(list, m), 0, K)
  <2>1. ASSUME NEW x \in ListWith(list, m), x.id \notin D!Ids(K)
        PROVE  \E q \in L \ {m} : q.op = "remove" /\ q.id = x.id /\ q.served > 0
    <3>1. CASE x \in m.rows
      <4>1. PICK q \in L : q.op = "remove" /\ q.id = x.id /\ q.served > m.served
        BY <1>3, <2>1, <3>1 DEF Told
      <4>2. q # m /\ q.served > 0
        BY <1>1, <4>1
      <4> QED
        BY <4>1, <4>2
    <3>2. CASE x \in list /\ m.op \in {"create", "update"}
      <4>1. PICK q \in L : q.op = "remove" /\ q.id = x.id /\ q.served > 0
        BY <1>3, <2>1, <3>2 DEF Told
      <4> QED
        BY <3>2, <4>1
    <3> QED
      BY <3>1, <3>2, RowsOfList
  <2>2. ASSUME NEW x \in ListWith(list, m), NEW y \in K, x.id = y.id, x.stamp # y.stamp
        PROVE  \E q \in L \ {m} : q.op = "update" /\ q.id = x.id /\ q.cards = y.cards /\ q.served > 0
    <3>1. CASE x \in m.rows
      <4>1. PICK q \in L : q.op = "update" /\ q.id = x.id /\ q.cards = y.cards /\ q.served > m.served
        BY <1>3, <2>2, <3>1 DEF Told
      <4>2. q # m /\ q.served > 0
        BY <1>1, <4>1
      <4> QED
        BY <4>1, <4>2
    <3>2. CASE x \in list /\ x.id # KeyOf(m, m.served)
      <4>1. PICK q \in L : q.op = "update" /\ q.id = x.id /\ q.cards = y.cards /\ q.served > 0
        BY <1>3, <2>2, <3>2 DEF Told
      <4>2. q # m
        BY <3>2, <4>1 DEF KeyOf
      <4> QED
        BY <4>1, <4>2
    <3> QED
      BY <3>1, <3>2, RowsOfList
  <2> QED
    BY <2>1, <2>2 DEF Told
<1>4. Told(L \ {m}, ListWith(list, m), 0, rows)
  BY <1>1, <1>3 DEF AllTold
<1>5. \A q \in L \ {m} : q.served >= m.served =>
        Told(L \ {m}, ListWith(list, m), 0, q.rows) /\ Told(L \ {m}, q.rows, q.served, rows)
  <2>1. ASSUME NEW q \in L \ {m}, q.served >= m.served
        PROVE  Told(L \ {m}, ListWith(list, m), 0, q.rows) /\ Told(L \ {m}, q.rows, q.served, rows)
    <3>1. q \in L /\ m.served < q.served /\ read <= q.served /\ q.served >= read /\ q.served \in Nat
      BY <1>1, <2>1
    <3>2. Told(L, list, 0, q.rows) /\ Told(L, m.rows, m.served, q.rows) /\ Told(L, q.rows, q.served, rows)
      BY <3>1 DEF AllTold
    <3> QED
      BY <1>2, <1>3, <3>1, <3>2
  <2> QED
    BY <2>1
<1>6. ASSUME NEW p \in L \ {m}, NEW q \in L \ {m}, m.served <= p.served, p.served < q.served
      PROVE  Told(L \ {m}, p.rows, p.served, q.rows)
  <2>1. p.served \in Nat /\ m.served < p.served /\ read <= p.served
    BY <1>1, <1>6
  <2>2. Told(L, p.rows, p.served, q.rows)
    BY <1>6, <2>1 DEF AllTold
  <2> QED
    BY <1>2, <2>1, <2>2
<1> QED
  BY <1>4, <1>5, <1>6 DEF AllTold
LEMMA LessLead ==
  ASSUME NEW t, NEW L, LiveOk(L, t), NEW m \in L, NEW list, NEW rows, AllLead(list, rows, L),
         \A q \in L \ {m} : q.served >= m.served
  PROVE  AllLead(ListWith(list, m), rows, L \ {m})
<1>1. m.served \in Nat /\ \A q \in L \ {m} : q.served \in Nat /\ m.served < q.served
  BY DEF LiveOk
<1>2. ListWith(list, m) = m.rows
  <2>1. \A p \in L : m.served <= p.served
    BY <1>1
  <2>2. Follows(list, m.rows, m, m.served)
    BY <2>1 DEF AllLead
  <2> QED
    BY <2>2 DEF ListWith, Follows
<1>3. L \ {m} = {} => m.rows = rows
  BY <1>1 DEF AllLead
<1>4. ASSUME NEW q \in L \ {m}, \A p \in L \ {m} : p.served <= q.served PROVE q.rows = rows
  <2>1. \A p \in L : p.served <= q.served
    BY <1>1, <1>4
  <2> QED
    BY <2>1 DEF AllLead
<1>5. ASSUME NEW q \in L \ {m}, \A p \in L \ {m} : q.served <= p.served PROVE Follows(m.rows, q.rows, q, q.served)
  <2>1. m.served < q.served /\ \A s \in L : s.served <= m.served \/ q.served <= s.served
    BY <1>1, <1>5
  <2> QED
    BY <2>1 DEF AllLead
<1>6. ASSUME NEW p \in L \ {m}, NEW q \in L \ {m}, p.served < q.served,
             \A s \in L \ {m} : s.served <= p.served \/ q.served <= s.served
      PROVE  Follows(p.rows, q.rows, q, q.served)
  <2>1. \A s \in L : s.served <= p.served \/ q.served <= s.served
    BY <1>1, <1>6
  <2> QED
    BY <1>6, <2>1 DEF AllLead
<1> QED
  BY <1>2, <1>3, <1>4, <1>5, <1>6 DEF AllLead

(* Requests, list and editor.                                              *)
RequestFields == {"op", "id", "cards", "at", "ok", "rows", "served", "number"}
RequestShape(q) ==
  /\ DOMAIN q = RequestFields /\ q.op \in Operations /\ q.at \in {"out", "back"}
  /\ q.at = "out" => ~q.ok
EditorShape(e) == DOMAIN e = {"deck", "cards", "stamp", "busy"}
EditorOk(list, e) == EditorShape(e) /\ e.deck \in D!Ids(list) /\ e.stamp = D!The(list, e.deck).stamp
Clean(list, e) == e.cards = D!The(list, e.deck).cards
StoreKept ==
  /\ stamp \in Nat /\ latest \in Nat /\ (decks = {} => stamp = 0)
  /\ decks # {} => RowsOk(decks, stamp)
RequestsKept == (\A q \in requests : RequestShape(q)) /\ LiveOk(LiveOf(requests), stamp)
(* Before the first list there is one request, for it.                     *)
AwaitsList ==
  state.kind # "ready" =>
    /\ state.list = {} /\ editor.deck = 0 /\ \A q \in requests : q.op = "list"
    /\ \A p, q \in requests : p = q
    /\ \A q \in LiveOf(requests) : q.rows = decks
HasList ==
  state.kind = "ready" =>
    decks # {} /\ state.list # {} /\ EditorOk(state.list, editor) /\ \A q \in requests : q.op # "list"
ListKept == Distinct(state.list) /\ \A x \in state.list : IsRow(x, stamp)
AnswersKept ==
  /\ AllAgree(state.list, decks, LiveOf(requests))
  /\ ~stale => AllTold(state.list, decks, LiveOf(requests), latest)
  /\ state.kind = "ready" /\ ~stale /\ (\A q \in LiveOf(requests) : q.served >= latest) =>
        AllLead(state.list, decks, LiveOf(requests))
(* The draft of a deck being saved is what is being saved.                 *)
DraftKept ==
  /\ EditorShape(editor)
  /\ ~lateEdit /\ D!isDirty => \A q \in requests : q.op = "update" /\ q.id = editor.deck => q.cards = editor.cards
LossIsTold == lost => lateEdit \/ stale
DecksKept == StoreKept /\ RequestsKept /\ AwaitsList /\ HasList /\ ListKept /\ AnswersKept /\ DraftKept /\ LossIsTold

(* The deck chosen, and the editor mounted on a list.                      *)
LEMMA OnDeckOk ==
  ASSUME NEW list, Distinct(list), NEW d \in list
  PROVE  /\ EditorOk(list, D!OnDeck(d)) /\ Clean(list, D!OnDeck(d)) /\ D!OnDeck(d).deck = d.id /\ D!OnDeck(d).cards = d.cards
         /\ D!The(list, d.id) = d
<1>1. d.id \in D!Ids(list)
  BY DEF D!Ids
<1>2. D!The(list, d.id) = d
  BY <1>1, TheOf
<1> QED
  BY <1>1, <1>2 DEF D!OnDeck, EditorOk, EditorShape, Clean
LEMMA ChosenOk == ASSUME NEW list, list # {} PROVE D!Chosen(list) \in list
<1>1. PICK active : active = {d \in list : d.active}
  OBVIOUS
<1>2. D!Chosen(list) = IF active # {} THEN CHOOSE d \in active : TRUE ELSE CHOOSE d \in list : TRUE
  BY <1>1 DEF D!Chosen
<1> QED
  BY <1>1, <1>2
LEMMA MountedOk ==
  ASSUME NEW list, list # {}, Distinct(list), NEW e, EditorShape(e)
  PROVE  /\ EditorOk(list, D!Mounted(list, e))
         /\ \/ D!Mounted(list, e) = e /\ e.deck \in D!Ids(list) /\ D!The(list, e.deck).stamp = e.stamp
            \/ Clean(list, D!Mounted(list, e))
         /\ e.deck \in D!Ids(list) /\ D!The(list, e.deck).stamp # e.stamp =>
               D!Mounted(list, e) = D!OnDeck(D!The(list, e.deck))
<1>1. CASE e.deck \notin D!Ids(list)
  BY <1>1, ChosenOk, OnDeckOk DEF D!Mounted
<1>2. CASE e.deck \in D!Ids(list) /\ D!The(list, e.deck).stamp # e.stamp
  <2>1. D!The(list, e.deck) \in list
    BY <1>2, TheOf
  <2>2. D!Mounted(list, e) = D!OnDeck(D!The(list, e.deck))
    BY <1>2 DEF D!Mounted
  <2> QED
    BY <2>1, <2>2, OnDeckOk
<1>3. CASE e.deck \in D!Ids(list) /\ D!The(list, e.deck).stamp = e.stamp
  BY <1>3 DEF D!Mounted, EditorOk
<1> QED
  BY <1>1, <1>2, <1>3

(* What keeps the rows, the list and the answers to read.                  *)
LEMMA AnswersStay ==
  ASSUME StoreKept, ListKept, AnswersKept, UNCHANGED <<decks, stamp, latest, stale>>, state'.list = state.list,
         state'.kind = "ready" => state.kind = "ready", LiveOf(requests') = LiveOf(requests)
  PROVE  StoreKept' /\ ListKept' /\ AnswersKept' /\ (LiveOk(LiveOf(requests), stamp) => LiveOk(LiveOf(requests), stamp)')
<1>1. PICK L : L = LiveOf(requests) /\ L = LiveOf(requests)' /\ L = LiveOf(requests')
  BY DEF LiveOf
<1> QED
  BY <1>1 DEF StoreKept, ListKept, AnswersKept
LEMMA OnlyLive ==
  ASSUME NEW Q, NEW q
  PROVE  /\ ~(q.at = "back" /\ q.ok) => LiveOf(Q \ {q}) = LiveOf(Q) /\ LiveOf(Q \cup {q}) = LiveOf(Q)
         /\ q.at = "back" /\ q.ok => LiveOf(Q \ {q}) = LiveOf(Q) \ {q} /\ LiveOf(Q \cup {q}) = LiveOf(Q) \cup {q}
BY DEF LiveOf
LEMMA EditorIsReady == ASSUME AwaitsList PROVE editor.deck # 0 \/ state.list # {} => state.kind = "ready"
BY DEF AwaitsList

(* What the user does: the answers, the list and the rows stay.            *)
LEMMA SendDeckKeeps ==
  ASSUME DecksKept, NEW op \in Operations \ {"list"}, NEW id, NEW cards, D!Send(op, id, cards), state.kind = "ready",
         op = "update" => id = editor.deck /\ cards = editor.cards,
         editor' = editor \/ editor' = D!Busy(editor)
  PROVE  DecksKept'
<1>1. PICK q : q = D!call(op, id, cards)
  OBVIOUS
<1>2. RequestShape(q) /\ q.op = op /\ q.id = id /\ q.cards = cards /\ q.at = "out"
  BY <1>1 DEF D!call, RequestShape, RequestFields
<1>3. requests' = requests \cup {q} /\ UNCHANGED <<decks, stamp, state, latest, stale, lateEdit, lost>>
  BY <1>1 DEF D!Send
<1>4. editor'.deck = editor.deck /\ editor'.cards = editor.cards /\ editor'.stamp = editor.stamp /\ EditorShape(editor')
  BY DEF DecksKept, DraftKept, EditorShape, D!Busy
<1>5. LiveOf(requests') = LiveOf(requests)
  BY <1>2, <1>3, OnlyLive
<1>6. StoreKept' /\ ListKept' /\ AnswersKept' /\ LiveOk(LiveOf(requests), stamp)'
  BY <1>3, <1>5, AnswersStay DEF DecksKept, RequestsKept
<1>7. RequestsKept'
  BY <1>2, <1>3, <1>6 DEF DecksKept, RequestsKept
<1>8. AwaitsList' /\ HasList'
  BY <1>2, <1>3, <1>4 DEF DecksKept, AwaitsList, HasList, EditorOk
<1>9. D!isDirty' = D!isDirty
  BY <1>3, <1>4 DEF D!isDirty, D!Edited, D!Shown
<1>10. DraftKept'
  BY <1>2, <1>3, <1>4, <1>9 DEF DecksKept, DraftKept
<1> QED
  BY <1>3, <1>6, <1>7, <1>8, <1>10 DEF DecksKept, LossIsTold
LEMMA SelectDeckKeeps == ASSUME DecksKept, NEW d \in state.list, D!select(d) PROVE DecksKept'
<1>1. UNCHANGED <<decks, stamp, state, latest, requests, stale, lateEdit, lost>> /\ editor' = D!OnDeck(d)
  BY DEF D!select
<1>2. state.kind = "ready"
  BY EditorIsReady DEF DecksKept
<1>3. /\ EditorOk(state.list, editor') /\ Clean(state.list, editor')
  BY <1>1, OnDeckOk DEF DecksKept, ListKept
<1>4. StoreKept' /\ ListKept' /\ AnswersKept' /\ LiveOk(LiveOf(requests), stamp)'
  BY <1>1, AnswersStay DEF DecksKept, RequestsKept
<1>5. RequestsKept' /\ AwaitsList' /\ HasList'
  BY <1>1, <1>2, <1>3, <1>4 DEF DecksKept, RequestsKept, AwaitsList, HasList
<1>6. ~D!isDirty'
  BY <1>1, <1>3 DEF D!isDirty, D!Edited, D!Shown, Clean
<1>7. DraftKept'
  BY <1>3, <1>6 DEF DraftKept, EditorOk
<1> QED
  BY <1>1, <1>4, <1>5, <1>7 DEF DecksKept, LossIsTold
LEMMA EditDeckKeeps == ASSUME DecksKept, NEW cards, D!Edit(cards) PROVE DecksKept'
<1>1. /\ UNCHANGED <<decks, stamp, state, latest, requests, stale, lost>> /\ editor' = [editor EXCEPT !.cards = cards]
      /\ lateEdit' = (lateEdit \/ \E r \in requests : r.op = "update" /\ r.id = editor.deck) /\ editor.deck # 0
  BY DEF D!Edit
<1>2. state.kind = "ready"
  BY <1>1, EditorIsReady DEF DecksKept
<1>3. editor'.deck = editor.deck /\ editor'.stamp = editor.stamp /\ EditorShape(editor')
  BY <1>1 DEF DecksKept, DraftKept, EditorShape
<1>4. StoreKept' /\ ListKept' /\ AnswersKept' /\ LiveOk(LiveOf(requests), stamp)'
  BY <1>1, AnswersStay DEF DecksKept, RequestsKept
<1>5. RequestsKept' /\ AwaitsList' /\ HasList'
  BY <1>1, <1>2, <1>3, <1>4 DEF DecksKept, RequestsKept, AwaitsList, HasList, EditorOk
<1>6. DraftKept'
  BY <1>1, <1>3 DEF DraftKept
<1> QED
  BY <1>1, <1>4, <1>5, <1>6 DEF DecksKept, LossIsTold
LEMMA RetryDecksKeeps == ASSUME DecksKept, D!retry PROVE DecksKept'
<1>1. PICK q : q = D!call("list", 0, D!NoCards)
  OBVIOUS
<1>2. RequestShape(q) /\ q.op = "list" /\ q.at = "out"
  BY <1>1 DEF D!call, RequestShape, RequestFields, Operations
<1>3. /\ state.kind = "error" /\ state' = [kind |-> "loading", list |-> {}] /\ requests' = requests \cup {q}
      /\ UNCHANGED <<decks, stamp, latest, editor, stale, lateEdit, lost>> /\ \A r \in requests : r.op # "list"
  BY <1>1 DEF D!retry
<1>4. requests = {} /\ state.list = {} /\ editor.deck = 0
  BY <1>3 DEF DecksKept, AwaitsList
<1>5. LiveOf(requests') = LiveOf(requests) /\ LiveOf(requests') = {} /\ requests' = {q}
  BY <1>2, <1>3, <1>4 DEF LiveOf
<1>6. StoreKept' /\ ListKept' /\ AnswersKept' /\ LiveOk(LiveOf(requests), stamp)'
  BY <1>3, <1>4, <1>5, AnswersStay DEF DecksKept, RequestsKept
<1>7. RequestsKept' /\ HasList'
  BY <1>2, <1>3, <1>5, <1>6 DEF RequestsKept, HasList
<1>8. AwaitsList'
  <2>1. LiveOf(requests)' = {}
    BY <1>5 DEF LiveOf
  <2> QED
    BY <1>2, <1>3, <1>4, <1>5, <2>1 DEF AwaitsList
<1>9. DraftKept'
  BY <1>2, <1>3, <1>4, <1>5 DEF DecksKept, DraftKept, D!isDirty
<1> QED
  BY <1>3, <1>6, <1>7, <1>8, <1>9 DEF DecksKept, LossIsTold
LEMMA UserOfDecksKeeps ==
  ASSUME DecksKept, D!newDeck \/ D!save \/ D!use \/ D!destroy \/ (\E d \in state.list : D!select(d)) \/ \E cards : D!Edit(cards)
  PROVE  DecksKept'
<1>1. CASE D!newDeck
  <2>1. "create" \in Operations \ {"list"} /\ state.kind = "ready" /\ D!Send("create", 0, D!NoCards) /\ editor' = editor
    BY <1>1 DEF D!newDeck, Operations
  <2> QED
    BY <2>1, SendDeckKeeps
<1>2. CASE D!save
  <2>1. "update" \in Operations \ {"list"} /\ editor.deck # 0 /\ D!Send("update", editor.deck, editor.cards) /\ editor' = D!Busy(editor)
    BY <1>2 DEF D!save, Operations
  <2> QED
    BY <2>1, SendDeckKeeps, EditorIsReady DEF DecksKept
<1>3. CASE D!use
  <2>1. "activate" \in Operations \ {"list"} /\ editor.deck # 0 /\ D!Send("activate", editor.deck, D!NoCards) /\ editor' = D!Busy(editor)
    BY <1>3 DEF D!use, Operations
  <2> QED
    BY <2>1, SendDeckKeeps, EditorIsReady DEF DecksKept
<1>4. CASE D!destroy
  <2>1. "remove" \in Operations \ {"list"} /\ editor.deck # 0 /\ D!Send("remove", editor.deck, D!NoCards) /\ editor' = D!Busy(editor)
    BY <1>4 DEF D!destroy, Operations
  <2> QED
    BY <2>1, SendDeckKeeps, EditorIsReady DEF DecksKept
<1> QED
  BY <1>1, <1>2, <1>3, <1>4, SelectDeckKeeps, EditDeckKeeps

(* A request is lost, or served.                                           *)
LEMMA LoseDeckKeeps == ASSUME DecksKept, NEW r \in requests, D!Lose(r) PROVE DecksKept'
<1>1. PICK n : n = [r EXCEPT !.at = "back", !.ok = FALSE]
  OBVIOUS
<1>2. /\ requests' = (requests \ {r}) \cup {n} /\ stale' = (stale \/ r.at = "back")
      /\ UNCHANGED <<decks, stamp, state, latest, editor, lateEdit, lost>>
  BY <1>1 DEF D!Lose
<1>3. RequestShape(r) /\ RequestShape(n) /\ n.op = r.op /\ n.id = r.id /\ n.cards = r.cards /\ ~n.ok
  BY <1>1 DEF DecksKept, RequestsKept, RequestShape, RequestFields
<1>4. PICK L : L = LiveOf(requests)
  OBVIOUS
<1>5. LiveOf(requests') = IF r.at = "back" /\ r.ok THEN L \ {r} ELSE L
  <2>1. LiveOf(requests') = LiveOf(requests \ {r})
    BY <1>2, <1>3, OnlyLive
  <2> QED
    BY <1>4, <2>1, OnlyLive
<1>6. LiveOf(requests)' = LiveOf(requests') /\ LiveOf(requests') \subseteq L
  BY <1>5 DEF LiveOf
<1>7. RequestsKept'
  <2>1. LiveOk(L, stamp)
    BY <1>4 DEF DecksKept, RequestsKept
  <2>2. LiveOk(LiveOf(requests'), stamp)
    BY <1>6, <2>1 DEF LiveOk
  <2> QED
    BY <1>2, <1>3, <1>6, <2>2 DEF DecksKept, RequestsKept
<1>8. StoreKept' /\ ListKept' /\ LossIsTold'
  BY <1>2 DEF DecksKept, StoreKept, ListKept, LossIsTold
<1>9. AwaitsList' /\ HasList'
  BY <1>2, <1>3, <1>4, <1>6 DEF DecksKept, AwaitsList, HasList
<1>10. AnswersKept'
  <2>1. CASE r.at = "back"
    <3>1. AllAgree(state.list, decks, LiveOf(requests'))
      BY <1>4, <1>6 DEF DecksKept, AnswersKept, AllAgree
    <3> QED
      BY <1>2, <1>6, <2>1, <3>1 DEF AnswersKept
  <2>2. CASE r.at # "back"
    <3>1. LiveOf(requests') = LiveOf(requests) /\ (~stale' => ~stale)
      BY <1>2, <1>4, <1>5, <2>2
    <3> QED
      BY <1>2, <1>6, <3>1 DEF DecksKept, AnswersKept
  <2> QED
    BY <2>1, <2>2
<1>11. DraftKept'
  <2>1. D!isDirty' = D!isDirty
    BY <1>2 DEF D!isDirty, D!Edited, D!Shown
  <2> QED
    BY <1>2, <1>3, <2>1 DEF DecksKept, DraftKept
<1> QED
  BY <1>7, <1>8, <1>9, <1>10, <1>11 DEF DecksKept
LEMMA ServeDeckKeeps == ASSUME DecksKept, NEW r \in requests, D!Serve(r) PROVE DecksKept'
<1>1. PICK o, k : o = D!Outcome(r) /\ k = stamp + (IF decks = {} THEN 2 ELSE 1)
  OBVIOUS
<1>2. PICK n : n = [r EXCEPT !.at = "back", !.ok = o.ok, !.rows = o.rows, !.served = k]
  OBVIOUS
<1>3. /\ r.at = "out" /\ decks' = o.rows /\ stamp' = k /\ requests' = (requests \ {r}) \cup {n}
      /\ UNCHANGED <<state, latest, editor, stale, lateEdit, lost>>
  BY <1>1, <1>2 DEF D!Serve
<1>4. stamp \in Nat /\ k \in Nat /\ stamp < k /\ latest \in Nat
  BY <1>1 DEF DecksKept, StoreKept
<1>5. RequestShape(r) /\ RequestShape(n) /\ n.op = r.op /\ n.id = r.id /\ n.cards = r.cards /\ n.at = "back" /\ n.served = k
      /\ n.rows = o.rows /\ n.ok = o.ok /\ ~r.ok
  BY <1>2, <1>3 DEF DecksKept, RequestsKept, RequestShape, RequestFields
<1>6. PICK L : L = LiveOf(requests)
  OBVIOUS
<1>7. LiveOf(requests)' = LiveOf(requests') /\ LiveOf(requests') = IF o.ok THEN L \cup {n} ELSE L
  <2>1. LiveOf(requests \ {r}) = L
    BY <1>5, <1>6, OnlyLive
  <2>2. LiveOf(requests') = IF o.ok THEN LiveOf(requests \ {r}) \cup {n} ELSE LiveOf(requests \ {r})
    BY <1>3, <1>5, OnlyLive
  <2> QED
    BY <2>1, <2>2 DEF LiveOf
<1>8. LiveOk(L, stamp) /\ \A q \in requests : RequestShape(q)
  BY <1>6 DEF DecksKept, RequestsKept
<1>9. D!isDirty' = D!isDirty
  BY <1>3 DEF D!isDirty, D!Edited, D!Shown
<1>10. DraftKept' /\ LossIsTold'
  BY <1>3, <1>5, <1>9 DEF DecksKept, DraftKept, LossIsTold
<1>11. ListKept'
  BY <1>3, <1>4 DEF DecksKept, ListKept, IsRow
<1>12. CASE decks = {}
  <2>1. stamp = 0 /\ k = 2 /\ state.kind # "ready"
    BY <1>1, <1>12 DEF DecksKept, StoreKept, HasList
  <2>2. /\ state.list = {} /\ editor.deck = 0 /\ requests = {r} /\ r.op = "list"
    BY <2>1 DEF DecksKept, AwaitsList
  <2>3. o.ok /\ RowsOk(o.rows, 2)
    BY <1>1, <1>12, <2>2, FirstOutcome
  <2>4. L = {} /\ LiveOf(requests') = {n} /\ requests' = {n}
    BY <1>3, <1>5, <1>6, <1>7, <2>2, <2>3 DEF LiveOf
  <2>5. LiveOk({n}, k)
    BY <1>4, <1>5, <2>1, <2>2, <2>3 DEF LiveOk
  <2>6. StoreKept' /\ RequestsKept'
    BY <1>3, <1>4, <1>5, <1>7, <2>1, <2>3, <2>4, <2>5 DEF StoreKept, RequestsKept, RowsOk
  <2>7. AwaitsList' /\ HasList'
    BY <1>3, <1>5, <1>7, <2>1, <2>2, <2>4 DEF AwaitsList, HasList
  <2>8. AllAgree({}, o.rows, {n}) /\ AllTold({}, o.rows, {n}, latest)
    <3>1. DatesTell(o.rows, o.rows) /\ Told({n}, o.rows, n.served, o.rows)
      BY <2>3 DEF DatesTell, Told, RowsOk, Distinct, D!Ids
    <3>2. DatesTell({}, o.rows) /\ Told({n}, {}, 0, o.rows)
      BY DEF DatesTell, Told
    <3> QED
      BY <1>4, <1>5, <3>1, <3>2 DEF AllAgree, AllTold
  <2>9. AnswersKept'
    BY <1>3, <1>7, <2>1, <2>2, <2>4, <2>8 DEF AnswersKept
  <2> QED
    BY <1>10, <1>11, <2>6, <2>7, <2>9 DEF DecksKept
<1>13. CASE decks # {}
  <2>1. k = stamp + 1 /\ RowsOk(decks, stamp)
    BY <1>1, <1>4, <1>13 DEF DecksKept, StoreKept
  <2>2. Writes(decks, o, r, k)
    BY <1>1, <1>4, <1>5, <1>13, <2>1, OutcomeKeeps DEF RequestShape
  <2>3. CASE ~o.ok
    <3>1. decks' = decks /\ LiveOf(requests') = L
      BY <1>3, <1>7, <2>2, <2>3 DEF Writes
    <3>2. RowsOk(decks, k) /\ LiveOk(L, k)
      <4>1. RowsOk(decks, k)
        BY <1>4, <2>1, LaterRows
      <4> QED
        BY <1>4, <1>8, <4>1 DEF LiveOk
    <3>3. StoreKept' /\ RequestsKept'
      BY <1>3, <1>4, <1>5, <1>7, <1>8, <1>13, <3>1, <3>2 DEF StoreKept, RequestsKept
    <3>4. AwaitsList' /\ HasList'
      BY <1>3, <1>5, <1>6, <1>7, <3>1 DEF DecksKept, AwaitsList, HasList
    <3>5. AnswersKept'
      BY <1>3, <1>6, <1>7, <3>1 DEF DecksKept, AnswersKept
    <3> QED
      BY <1>10, <1>11, <3>3, <3>4, <3>5 DEF DecksKept
  <2>4. CASE o.ok
    <3>1. /\ RowsOk(n.rows, k) /\ Evolves(decks, n.rows, n, k) /\ Follows(decks, n.rows, n, k) /\ decks' = n.rows
          /\ LiveOf(requests') = L \cup {n}
      BY <1>3, <1>5, <1>7, <2>2, <2>4 DEF Writes, Evolves, Follows, KeyOf
    <3>2. LiveOk(L \cup {n}, k)
      <4>1. n.op \in {"create", "update"} => KeyOf(n, k) \in D!Ids(n.rows)
        BY <3>1 DEF Follows
      <4> QED
        BY <1>4, <1>5, <1>8, <3>1, <4>1, MoreLive
    <3>3. StoreKept' /\ RequestsKept'
      BY <1>3, <1>4, <1>5, <1>7, <1>8, <3>1, <3>2 DEF StoreKept, RequestsKept, RowsOk
    <3>4. HasList'
      BY <1>3, <1>5, <3>1 DEF DecksKept, HasList, RowsOk
    <3>5. AwaitsList'
      <4>1. ASSUME state.kind # "ready"
            PROVE  /\ state.list = {} /\ editor.deck = 0 /\ \A q \in requests' : q.op = "list"
                   /\ \A p, q \in requests' : p = q
                   /\ \A q \in LiveOf(requests') : q.rows = n.rows
        <5>1. requests = {r} /\ r.op = "list" /\ state.list = {} /\ editor.deck = 0
          BY <4>1 DEF DecksKept, AwaitsList
        <5>2. L = {} /\ requests' = {n}
          BY <1>3, <1>5, <1>6, <5>1 DEF LiveOf
        <5> QED
          BY <1>5, <3>1, <5>1, <5>2
      <4> QED
        BY <1>3, <1>7, <3>1, <4>1 DEF AwaitsList
    <3>6. Older(state.list, k)
      BY <1>4 DEF DecksKept, ListKept, IsRow, Older
    <3>7. AllAgree(state.list, decks, L)
      BY <1>6 DEF DecksKept, AnswersKept
    <3>8. AllAgree(state.list, n.rows, L \cup {n})
      BY <1>4, <1>5, <1>8, <2>1, <3>1, <3>6, <3>7, MoreAgree
    <3>9. ~stale => AllTold(state.list, n.rows, L \cup {n}, latest)
      <4>1. ~stale => AllTold(state.list, decks, L, latest)
        BY <1>6 DEF DecksKept, AnswersKept
      <4> QED
        BY <1>4, <1>5, <1>8, <2>1, <3>1, <3>6, <3>7, <4>1, MoreTold
    <3>10. state.kind = "ready" /\ ~stale /\ (\A q \in L \cup {n} : q.served >= latest) => AllLead(state.list, n.rows, L \cup {n})
      <4>1. state.kind = "ready" /\ ~stale /\ (\A q \in L : q.served >= latest) => AllLead(state.list, decks, L)
        BY <1>6 DEF DecksKept, AnswersKept
      <4>2. AllLead(state.list, decks, L) => AllLead(state.list, n.rows, L \cup {n})
        BY <1>4, <1>5, <1>8, <3>1, MoreLead
      <4> QED
        BY <4>1, <4>2
    <3>11. AnswersKept'
      BY <1>3, <1>7, <3>1, <3>8, <3>9, <3>10 DEF AnswersKept
    <3> QED
      BY <1>10, <1>11, <3>3, <3>4, <3>5, <3>11 DEF DecksKept
  <2> QED
    BY <2>3, <2>4
<1> QED
  BY <1>12, <1>13

(* An answer is read: what becomes of list and editor.                     *)
LEMMA ListIsWith ==
  ASSUME NEW r, KeyOf(r, r.served) \in D!Ids(r.rows) \/ r.op \notin {"create", "update"}
  PROVE  D!ListAfter(r) = ListWith(state.list, r)
<1>1. CASE r.op \in {"create", "update"}
  <2>1. D!ReplyDeck(r) = D!The(r.rows, KeyOf(r, r.served)) /\ D!The(r.rows, KeyOf(r, r.served)).id = KeyOf(r, r.served)
    BY <1>1, TheOf DEF D!ReplyDeck, KeyOf
  <2> QED
    BY <1>1, <2>1 DEF D!ListAfter, D!putDeck, D!Shown, ListWith
<1>2. CASE r.op \notin {"create", "update"}
  BY <1>2 DEF D!ListAfter, ListWith
<1> QED
  BY <1>1, <1>2
LEMMA ListWithOk ==
  ASSUME NEW t \in Nat, NEW L, LiveOk(L, t), NEW m \in L, NEW list, Distinct(list), \A x \in list : IsRow(x, t)
  PROVE  /\ Distinct(ListWith(list, m)) /\ (\A x \in ListWith(list, m) : IsRow(x, t)) /\ ListWith(list, m) # {}
         /\ m.op = "create" => m.served \in D!Ids(ListWith(list, m))
<1>1. /\ m.served \in Nat /\ m.served <= t /\ m.rows # {} /\ Distinct(m.rows)
      /\ \A x \in m.rows : IsRow(x, t)
  BY DEF LiveOk, RowsOk, IsRow
<1>2. CASE m.op \in {"create", "update"}
  <2>1. PICK d \in m.rows : d = D!The(m.rows, KeyOf(m, m.served)) /\ d.id = KeyOf(m, m.served)
    BY <1>2, TheOf DEF LiveOk
  <2>2. ListWith(list, m) = {e \in list : e.id # d.id} \cup {d}
    BY <1>2, <2>1 DEF ListWith
  <2>3. Distinct(ListWith(list, m)) /\ ListWith(list, m) # {} /\ \A x \in ListWith(list, m) : IsRow(x, t)
    BY <1>1, <2>2 DEF Distinct
  <2>4. d.id \in D!Ids(ListWith(list, m))
    BY <2>2 DEF D!Ids
  <2> QED
    BY <2>1, <2>3, <2>4 DEF KeyOf
<1>3. CASE m.op \notin {"create", "update"}
  BY <1>1, <1>3 DEF ListWith
<1> QED
  BY <1>2, <1>3
LEMMA EditorsOk ==
  ASSUME NEW list, list # {}, Distinct(list), EditorShape(editor), NEW r, r.op = "create" => r.served \in D!Ids(list),
         NEW e \in D!EditorsAfter(r, list)
  PROVE  /\ EditorOk(list, e)
         /\ Clean(list, e) \/ (e = editor /\ editor.deck \in D!Ids(list) /\ D!The(list, editor.deck).stamp = editor.stamp)
<1>1. e = D!Destination(r, list) \/ e = D!Mounted(list, editor)
  BY DEF D!EditorsAfter
<1>2. CASE e = D!Mounted(list, editor)
  BY <1>2, MountedOk
<1>3. CASE e = D!Destination(r, list)
  <2>1. PICK d \in list : e = D!OnDeck(d)
    <3>1. CASE r.op = "create"
      BY <1>3, <3>1, TheOf DEF D!Destination
    <3>2. CASE r.op # "create"
      BY <1>3, <3>2, ChosenOk DEF D!Destination
    <3> QED
      BY <3>1, <3>2
  <2> QED
    BY <2>1, OnDeckOk
<1> QED
  BY <1>1, <1>2, <1>3
(* The draft survives, unless it was given up: the deck is gone only if it *)
(* was removed, and has another date only if it was saved.                 *)
LEMMA DraftSurvives ==
  ASSUME NEW t \in Nat, NEW L, LiveOk(L, t), L \subseteq requests, NEW m \in L,
         Distinct(state.list), Distinct(ListWith(state.list, m)), ListWith(state.list, m) # {},
         EditorOk(state.list, editor), Told(L, state.list, 0, m.rows),
         D!isDirty, DraftKept, ~lateEdit, ~D!GivenUp
  PROVE  D!Keeps(D!Mounted(ListWith(state.list, m), editor))
<1>1. PICK list, next : list = state.list /\ next = ListWith(state.list, m)
  OBVIOUS
<1>2. PICK x \in list : x = D!The(list, editor.deck) /\ x.id = editor.deck /\ x.stamp = editor.stamp
  BY <1>1, TheOf DEF EditorOk
<1>3. editor.deck \in D!Ids(next)
  <2>1. CASE m.op \in {"create", "update"}
    <3>1. D!The(m.rows, KeyOf(m, m.served)).id = KeyOf(m, m.served)
      BY <2>1, TheOf DEF LiveOk
    <3>2. \E e \in next : e.id = x.id
      BY <1>1, <1>2, <2>1, <3>1 DEF ListWith
    <3> QED
      BY <1>2, <3>2 DEF D!Ids
  <2>2. CASE m.op \notin {"create", "update"}
    <3>1. next = m.rows
      BY <1>1, <2>2 DEF ListWith
    <3>2. x.id \in D!Ids(m.rows)
      BY <1>1, <1>2 DEF Told, D!GivenUp
    <3> QED
      BY <1>2, <3>1, <3>2
  <2> QED
    BY <2>1, <2>2
<1>4. PICK y \in next : y = D!The(next, editor.deck) /\ y.id = editor.deck
  BY <1>3, TheOf
<1>5. CASE y.stamp = editor.stamp
  <2>1. D!Mounted(next, editor) = editor
    BY <1>1, <1>3, <1>4, <1>5 DEF D!Mounted
  <2> QED
    BY <1>1, <2>1 DEF D!Keeps
<1>6. CASE y.stamp # editor.stamp
  <2>1. y \in m.rows
    <3>1. y \in m.rows \/ y \in list
      BY <1>1, <1>4, RowsOfList
    <3>2. y \notin list
      BY <1>1, <1>2, <1>4, <1>6 DEF Distinct
    <3> QED
      BY <3>1, <3>2
  <2>2. PICK q \in L : q.op = "update" /\ q.id = editor.deck /\ q.cards = y.cards
    BY <1>1, <1>2, <1>4, <1>6, <2>1 DEF Told
  <2>3. y.cards = editor.cards
    BY <2>2 DEF DraftKept
  <2>4. D!Mounted(next, editor) = D!OnDeck(y)
    BY <1>1, <1>3, <1>4, <1>6 DEF D!Mounted
  <2> QED
    BY <1>1, <1>4, <2>3, <2>4 DEF D!Keeps, D!OnDeck
<1> QED
  BY <1>5, <1>6
LEMMA ReleasedIs ==
  ASSUME NEW e, EditorShape(e), NEW r
  PROVE  /\ D!Released(e, r).deck = e.deck /\ D!Released(e, r).cards = e.cards /\ D!Released(e, r).stamp = e.stamp
         /\ EditorShape(D!Released(e, r))
BY DEF D!Released, EditorShape
LEMMA FailedReadKeeps ==
  ASSUME DecksKept, NEW r \in requests, D!Read(r), ~(r.ok /\ (r.op = "list" \/ state.kind = "ready"))
  PROVE  DecksKept'
<1>1. /\ r.at = "back" /\ requests' = requests \ {r} /\ editor' = D!Released(editor, r)
      /\ state' = (IF r.op = "list" THEN [kind |-> "error", list |-> {}] ELSE state)
      /\ UNCHANGED <<decks, stamp, latest, stale, lateEdit, lost>>
  BY DEF D!Read
<1>2. state'.list = state.list /\ (state'.kind = "ready" <=> state.kind = "ready")
  <2>1. CASE r.op = "list"
    <3>1. state.kind # "ready" /\ state.list = {}
      BY <2>1 DEF DecksKept, HasList, AwaitsList
    <3> QED
      BY <1>1, <2>1, <3>1
  <2>2. CASE r.op # "list"
    BY <1>1, <2>2
  <2> QED
    BY <2>1, <2>2
<1>3. ~r.ok
  BY DEF DecksKept, AwaitsList
<1>4. LiveOf(requests') = LiveOf(requests)
  BY <1>1, <1>3, OnlyLive
<1>5. StoreKept' /\ ListKept' /\ AnswersKept' /\ LiveOk(LiveOf(requests), stamp)'
  BY <1>1, <1>2, <1>4, AnswersStay DEF DecksKept, RequestsKept
<1>6. editor'.deck = editor.deck /\ editor'.cards = editor.cards /\ editor'.stamp = editor.stamp /\ EditorShape(editor')
  BY <1>1, ReleasedIs DEF DecksKept, DraftKept
<1>7. RequestsKept'
  BY <1>1, <1>5 DEF DecksKept, RequestsKept
<1>8. LiveOf(requests)' = LiveOf(requests)
  BY <1>4 DEF LiveOf
<1>9. AwaitsList' /\ HasList'
  BY <1>1, <1>2, <1>6, <1>8 DEF DecksKept, AwaitsList, HasList, EditorOk
<1>10. D!isDirty' = D!isDirty
  BY <1>2, <1>6 DEF D!isDirty, D!Edited, D!Shown
<1>11. DraftKept'
  BY <1>1, <1>6, <1>10 DEF DecksKept, DraftKept
<1> QED
  BY <1>1, <1>5, <1>7, <1>9, <1>11 DEF DecksKept, LossIsTold
LEMMA ReadDeckKeeps ==
  ASSUME DecksKept, NEW r \in requests, D!Read(r), r.ok, r.op = "list" \/ state.kind = "ready"
  PROVE  DecksKept'
<1>1. PICK L, list, next : L = LiveOf(requests) /\ list = state.list /\ next = D!ListAfter(r)
  OBVIOUS
<1>2. /\ r.at = "back" /\ requests' = requests \ {r} /\ state' = [kind |-> "ready", list |-> next]
      /\ lost' = (lost \/ (D!isDirty /\ ~D!GivenUp /\ ~D!Keeps(D!Mounted(next, editor))))
      /\ stale' = (stale \/ r.served < latest)
      /\ latest' = (IF r.served > latest THEN r.served ELSE latest)
      /\ UNCHANGED <<decks, stamp, lateEdit>>
  BY <1>1 DEF D!Read
<1>3. PICK e \in D!EditorsAfter(r, next) : editor' = D!Released(e, r)
  BY <1>1 DEF D!Read
<1>4. r \in L /\ LiveOf(requests') = L \ {r} /\ LiveOf(requests)' = LiveOf(requests') /\ L \subseteq requests
  <2>1. r \in L /\ L \subseteq requests
    BY <1>1, <1>2 DEF LiveOf
  <2>2. LiveOf(requests') = L \ {r}
    BY <1>1, <1>2, OnlyLive
  <2> QED
    BY <2>1, <2>2 DEF LiveOf
<1>5. LiveOk(L, stamp) /\ stamp \in Nat /\ latest \in Nat /\ \A q \in requests : RequestShape(q)
  BY <1>1 DEF DecksKept, RequestsKept, StoreKept
<1>6. next = ListWith(list, r)
  BY <1>1, <1>4, <1>5, ListIsWith DEF LiveOk
<1>7. r.served \in Nat /\ decks # {}
  <2>1. r.served \in Nat /\ 0 < r.served /\ r.served <= stamp
    BY <1>4, <1>5 DEF LiveOk
  <2> QED
    BY <1>5, <2>1 DEF DecksKept, StoreKept
<1>8. /\ Distinct(list) /\ \A x \in list : IsRow(x, stamp)
      /\ Distinct(next) /\ (\A x \in next : IsRow(x, stamp)) /\ next # {} /\ (r.op = "create" => r.served \in D!Ids(next))
  <2>1. Distinct(list) /\ \A x \in list : IsRow(x, stamp)
    BY <1>1 DEF DecksKept, ListKept
  <2> QED
    BY <1>4, <1>5, <1>6, <2>1, ListWithOk
<1>9. EditorShape(editor) /\ (state.kind = "ready" => EditorOk(list, editor))
  BY <1>1 DEF DecksKept, DraftKept, HasList
<1>10. /\ EditorOk(next, e)
       /\ Clean(next, e) \/ (e = editor /\ editor.deck \in D!Ids(next) /\ D!The(next, editor.deck).stamp = editor.stamp)
  BY <1>3, <1>8, <1>9, EditorsOk
<1>11. editor'.deck = e.deck /\ editor'.cards = e.cards /\ editor'.stamp = e.stamp /\ EditorShape(editor') /\ EditorOk(next, editor')
  <2>1. editor'.deck = e.deck /\ editor'.cards = e.cards /\ editor'.stamp = e.stamp /\ EditorShape(editor')
    BY <1>3, <1>10, ReleasedIs DEF EditorOk
  <2> QED
    BY <1>10, <2>1 DEF EditorOk
<1>12. StoreKept' /\ ListKept'
  BY <1>2, <1>5, <1>7, <1>8 DEF DecksKept, StoreKept, ListKept
<1>13. RequestsKept'
  <2>1. LiveOk(L \ {r}, stamp)
    BY <1>5 DEF LiveOk
  <2> QED
    BY <1>2, <1>4, <1>5, <2>1 DEF RequestsKept
<1>14. AwaitsList'
  BY <1>2 DEF AwaitsList
<1>15. HasList'
  <2>1. \A q \in requests \ {r} : q.op # "list"
    BY DEF DecksKept, AwaitsList, HasList
  <2> QED
    BY <1>2, <1>7, <1>8, <1>11, <2>1 DEF HasList
<1>16. AllAgree(list, decks, L)
  BY <1>1 DEF DecksKept, AnswersKept
<1>17. ~stale' => ~stale /\ latest <= r.served /\ latest' = r.served
  <2>1. ASSUME ~stale' PROVE ~stale /\ ~(r.served < latest)
    BY <1>2, <2>1
  <2>2. ~(r.served < latest) => latest <= r.served /\ (r.served > latest \/ latest = r.served)
    BY <1>5, <1>7
  <2> QED
    BY <1>2, <2>1, <2>2
<1>18. AnswersKept'
  <2>1. AllAgree(next, decks, L \ {r})
    BY <1>4, <1>5, <1>6, <1>16, LessAgree
  <2>2. ~stale' => AllTold(next, decks, L \ {r}, r.served)
    <3>1. ~stale => AllTold(list, decks, L, latest)
      BY <1>1 DEF DecksKept, AnswersKept
    <3> QED
      BY <1>4, <1>5, <1>6, <1>17, <3>1, LessTold
  <2>3. ~stale' /\ (\A q \in L \ {r} : q.served >= r.served) => AllLead(next, decks, L \ {r})
    <3>1. CASE state.kind = "ready"
      <4>1. ASSUME ~stale', \A q \in L \ {r} : q.served >= r.served PROVE AllLead(next, decks, L \ {r})
        <5>1. \A q \in L : q.served \in Nat
          BY <1>5 DEF LiveOk
        <5>2. \A q \in L : q.served >= latest
          BY <1>5, <1>7, <1>17, <4>1, <5>1
        <5>3. AllLead(list, decks, L)
          BY <1>1, <1>17, <3>1, <4>1, <5>2 DEF DecksKept, AnswersKept
        <5> QED
          BY <1>4, <1>5, <1>6, <4>1, <5>3, LessLead
      <4> QED
        BY <4>1
    <3>2. CASE state.kind # "ready"
      <4>1. L = {r} /\ r.rows = decks /\ r.op = "list"
        BY <1>1, <1>4, <3>2 DEF DecksKept, AwaitsList
      <4>2. next = decks
        BY <1>6, <4>1 DEF ListWith
      <4> QED
        BY <4>1, <4>2 DEF AllLead
    <3> QED
      BY <3>1, <3>2
  <2> QED
    BY <1>2, <1>4, <1>17, <2>1, <2>2, <2>3 DEF AnswersKept
<1>19. DraftKept'
  <2>1. CASE Clean(next, e)
    <3>1. ~D!isDirty'
      BY <1>2, <1>11, <2>1 DEF D!isDirty, D!Edited, D!Shown, Clean
    <3> QED
      BY <1>11, <3>1 DEF DraftKept
  <2>2. CASE e = editor /\ editor.deck \in D!Ids(next) /\ D!The(next, editor.deck).stamp = editor.stamp
    <3>1. PICK y \in next : y = D!The(next, editor.deck) /\ y.id = editor.deck /\ y.stamp = editor.stamp
      BY <2>2, TheOf
    <3>2. state.kind = "ready"
      BY <1>8, <3>1, EditorIsReady DEF DecksKept, IsRow
    <3>3. PICK x \in list : x = D!The(list, editor.deck) /\ x.id = editor.deck /\ x.stamp = editor.stamp
      BY <1>9, <3>2, TheOf DEF EditorOk
    <3>4. x.cards = y.cards
      <4>1. y \in r.rows \/ y \in list
        BY <1>4, <1>5, <1>6, <3>1, RowsOfList
      <4>2. DatesTell(list, r.rows)
        BY <1>4, <1>16 DEF AllAgree
      <4> QED
        BY <1>8, <3>1, <3>3, <4>1, <4>2 DEF DatesTell, Distinct
    <3>5. D!isDirty' => D!isDirty
      BY <1>1, <1>2, <1>11, <2>2, <3>1, <3>3, <3>4 DEF D!isDirty, D!Edited, D!Shown
    <3> QED
      BY <1>2, <1>11, <2>2, <3>5 DEF DecksKept, DraftKept
  <2> QED
    BY <1>10, <2>1, <2>2
<1>20. LossIsTold'
  <2>1. ASSUME ~lateEdit, ~stale', D!isDirty, ~D!GivenUp PROVE D!Keeps(D!Mounted(next, editor))
    <3>1. state.kind = "ready" /\ EditorOk(list, editor)
      BY <1>9, <2>1, EditorIsReady DEF DecksKept, D!isDirty
    <3>2. Told(L, list, 0, r.rows)
      <4>1. AllTold(list, decks, L, latest)
        BY <1>1, <1>17, <2>1 DEF DecksKept, AnswersKept
      <4> QED
        BY <1>4, <1>5, <1>7, <1>17, <2>1, <4>1 DEF AllTold
    <3> QED
      BY <1>1, <1>4, <1>5, <1>6, <1>8, <2>1, <3>1, <3>2, DraftSurvives DEF DecksKept
  <2> QED
    BY <1>2, <2>1 DEF DecksKept, LossIsTold
<1> QED
  BY <1>12, <1>13, <1>14, <1>15, <1>18, <1>19, <1>20 DEF DecksKept

LEMMA DecksSteps == DecksKept /\ [D!Next]_(D!vars) => DecksKept'
<1> SUFFICES ASSUME DecksKept, [D!Next]_(D!vars) PROVE DecksKept'
  OBVIOUS
<1>1. CASE D!DeckListPage
  BY <1>1, UserOfDecksKeeps DEF D!DeckListPage, D!Shown
<1>2. CASE D!PoolGrid \/ D!DeckRows \/ D!autofill \/ D!clear
  BY <1>2, UserOfDecksKeeps DEF D!PoolGrid, D!DeckRows, D!autofill, D!clear, D!addCard, D!removeCard
<1>3. CASE D!DesktopEditor
  BY <1>1, <1>2, <1>3, UserOfDecksKeeps DEF D!DesktopEditor
<1>4. CASE D!MobileEditor
  BY <1>2, <1>4, UserOfDecksKeeps DEF D!MobileEditor, D!DeckMenu
<1>5. CASE D!retry
  BY <1>5, RetryDecksKeeps
<1>6. CASE \E r \in requests : D!Serve(r) \/ D!Lose(r) \/ D!Read(r)
  <2>1. PICK r \in requests : D!Serve(r) \/ D!Lose(r) \/ D!Read(r)
    BY <1>6
  <2>2. CASE D!Read(r)
    BY <2>2, FailedReadKeeps, ReadDeckKeeps
  <2> QED
    BY <2>1, <2>2, ServeDeckKeeps, LoseDeckKeeps
<1>7. CASE UNCHANGED D!vars
  <2>1. UNCHANGED <<decks, stamp, state, requests, editor, latest, stale, lateEdit, lost>>
    BY <1>7 DEF D!vars
  <2>2. D!isDirty' = D!isDirty /\ LiveOf(requests)' = LiveOf(requests)
    BY <2>1 DEF D!isDirty, D!Edited, D!Shown, LiveOf
  <2> QED
    BY <2>1, <2>2 DEF DecksKept, StoreKept, RequestsKept, AwaitsList, HasList, ListKept, AnswersKept, DraftKept, LossIsTold
<1> QED
  BY <1>1, <1>3, <1>4, <1>5, <1>6, <1>7 DEF D!Next
LEMMA DecksStart == Init /\ part = "decks" => DecksKept
<1> SUFFICES ASSUME D!Init PROVE DecksKept
  BY DEF Init
<1>1. /\ decks = {} /\ stamp = 0 /\ latest = 0 /\ state.kind = "loading" /\ state.list = {} /\ stale = FALSE /\ lost = FALSE
      /\ editor.deck = 0 /\ EditorShape(editor)
  BY DEF D!Init, D!NoEditor, EditorShape
<1>2. PICK q : requests = {q} /\ q.op = "list" /\ q.at = "out" /\ RequestShape(q)
  <2>1. PICK q : q = [op |-> "list", id |-> 0, cards |-> D!NoCards, at |-> "out", ok |-> FALSE, rows |-> {}, served |-> 0, number |-> 0]
    OBVIOUS
  <2>2. requests = {q}
    BY <2>1 DEF D!Init
  <2>3. q.op = "list" /\ q.at = "out" /\ RequestShape(q)
    BY <2>1 DEF RequestShape, RequestFields, Operations
  <2> QED
    BY <2>2, <2>3
<1>3. LiveOf(requests) = {}
  BY <1>2 DEF LiveOf
<1>4. StoreKept /\ RequestsKept /\ AwaitsList /\ HasList /\ ListKept
  BY <1>1, <1>2, <1>3 DEF StoreKept, RequestsKept, AwaitsList, HasList, ListKept, LiveOk, Distinct
<1>5. AnswersKept
  BY <1>1, <1>3 DEF AnswersKept, AllAgree, AllTold, DatesTell, Told
<1>6. DraftKept /\ LossIsTold
  BY <1>1 DEF DraftKept, LossIsTold, D!isDirty
<1> QED
  BY <1>4, <1>5, <1>6 DEF DecksKept
LEMMA DecksKeptIsSound == ASSUME DecksKept PROVE D!AlwaysADeckToPlay /\ D!EditorIsFaithful
<1>1. ASSUME decks # {} PROVE D!AlwaysADeckToPlay
  <2>1. RowsOk(decks, stamp)
    BY <1>1 DEF DecksKept, StoreKept
  <2>2. PICK d \in decks : d.active /\ {c \in decks : c.active} = {d}
    BY <2>1 DEF RowsOk
  <2>3. D!Cardinality({c \in decks : c.active}) = 1
    BY <2>2, CardinalityOfDecks, FS_Singleton
  <2>4. D!Cardinality(D!Ids(decks)) = D!Cardinality(decks)
    <3>1. PICK Names, f, g : Names = D!Ids(decks) /\ f = [c \in decks |-> c.id] /\ g = [i \in Names |-> D!The(decks, i)]
      OBVIOUS
    <3>2. IsFiniteSet(decks) /\ Distinct(decks)
      BY <2>1 DEF RowsOk
    <3>3. f \in [decks -> Names] /\ \A i \in Names : \E c \in decks : f[c] = i
      BY <3>1 DEF D!Ids
    <3>4. IsFiniteSet(Names) /\ Cardinality(Names) <= Cardinality(decks)
      BY <3>2, <3>3, Covers
    <3>5. g \in [Names -> decks] /\ \A c \in decks : \E i \in Names : g[i] = c
      <4>1. \A i \in Names : D!The(decks, i) \in decks
        BY <3>1, TheOf
      <4>2. ASSUME NEW c \in decks PROVE c.id \in Names /\ g[c.id] = c
        <5>1. c.id \in Names
          BY <3>1 DEF D!Ids
        <5>2. D!The(decks, c.id) = c
          BY <3>1, <3>2, <5>1, TheOf
        <5> QED
          BY <3>1, <5>1, <5>2
      <4> QED
        BY <3>1, <4>1, <4>2
    <3>6. Cardinality(decks) <= Cardinality(Names)
      BY <3>4, <3>5, Covers
    <3>7. Cardinality(Names) \in Nat /\ Cardinality(decks) \in Nat
      BY <3>2, <3>4, FS_CardinalityType
    <3>8. Cardinality(Names) = Cardinality(decks)
      BY <3>4, <3>6, <3>7
    <3> QED
      BY <3>1, <3>8, CardinalityOfDecks
  <2>5. /\ D!Cardinality(decks) <= MaxDecks
        /\ \A c \in decks : ~D!blockingProblem(c.cards) /\ (c.active => D!isValid(c.cards))
    BY <2>1, CardinalityOfDecks DEF RowsOk
  <2> QED
    BY <2>3, <2>4, <2>5 DEF D!AlwaysADeckToPlay
<1>2. D!EditorIsFaithful
  <2>1. LiveOf({}) = {}
    BY DEF LiveOf
  <2> QED
    BY <2>1 DEF DecksKept, AnswersKept, AllLead, LossIsTold, D!EditorIsFaithful
<1> QED
  BY <1>1, <1>2 DEF D!AlwaysADeckToPlay
(* DecksAreSound: whatever the user deletes, empties or puts in use, in    *)
(* any order, there is one deck in use and it can be played; and the       *)
(* screen ends up with the decks of the server without losing an edit,     *)
(* unless an answer was overtaken or lost, or the edit was made while its  *)
(* deck was being saved (store/decks.ts, useDecks.ts, DeckEditor.tsx).     *)
THEOREM DecksHold == Spec => []DecksAreSound
<1> DEFINE Inv == part = "decks" => DecksKept
<1>1. Init => Inv
  BY DecksStart
<1>2. Inv /\ [Next]_vars => Inv'
  BY StepsOfDecks, DecksSteps
<1>3. Inv => DecksAreSound
  BY DecksKeptIsSound DEF DecksAreSound
<1> QED
  BY <1>1, <1>2, <1>3, PTL DEF Spec
=============================================================================

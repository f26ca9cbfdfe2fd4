-------------------------------- MODULE Screen --------------------------------
(***************************************************************************)
(* The screen of a match: the piece held, by two taps or by dragging       *)
(* (Board.tsx, selection.ts), the promotion asked for (MatchBoard.tsx),    *)
(* the spell being aimed (useCasting.ts, targeting.ts) and the notice      *)
(* shown (useNotice.ts).  The match goes on under them: frames arrive at   *)
(* any time, phases run out, the game ends.                                *)
(*                                                                         *)
(* The state of the match is what these components look at: the position,  *)
(* the phase, whether a second move is under way, whether the match is     *)
(* over.  A render follows every change and drops what it finds old.  The  *)
(* end is not one of the changes it looks at: what was held or aimed       *)
(* before it can still be sent after it.                                   *)
(***************************************************************************)
EXTENDS Naturals, FiniteSets

CONSTANTS MaxPositions,  \* bound: positions of the match
          MaxNotices,    \* bound: notices of the server
          MaxRefusals    \* bound: refusals of the client that are shown

VARIABLES game,      \* [board, phase, second, over]: the position, "main1", "move", "main2" or "theirs", whether
                     \* the move to make is the second of the turn, and whether the match is over
          open,      \* the socket is open
          castSent,  \* pendingCast
          selection, \* the position a piece was selected on, or None
          dragging,  \* the position a drag started on, or None
          promotion, \* the position of the move that waits for a piece, or None
          targeting, \* [kind, board, phase, steps]: of the card picked
          notices,   \* [seq, server, local, expired]: the count of events, the seq of the latest server
                     \* notice, the local one and the key that has run out
          dropped,   \* ghost: the piece selected was dropped there by a drag
          newest,    \* ghost: the number of the latest notice, whoever it is of
          shownOnce, \* ghost: numbers of the notices that ran out or were dismissed
          last       \* ghost: the latest message sent, and what it was chosen on
held == <<selection, dragging, promotion, dropped>>
vars == <<game, open, castSent, held, targeting, notices, newest, shownOnce, last>>

None == 0
IDLE == [kind |-> "idle", board |-> None, phase |-> "none", steps |-> 0]
(* A message chosen on a position and in a phase, against those shown.     *)
Sent(what, by, board, phase) ==
  [what |-> what, by |-> by, sameBoard |-> board = game.board, samePhase |-> phase = game.phase, alone |-> ~castSent]

(***************************************************************************)
(* A render: a selection is of the position shown and ends where the       *)
(* aiming of a spell begins or ends; an aim is of the position and of the  *)
(* phase.                                                                  *)
(***************************************************************************)
Signature(g) == [board |-> g.board, phase |-> g.phase]
Aim(t, g) == IF Signature(g) = Signature(game) THEN t ELSE IDLE
Collecting(t) == t.kind = "collecting"
Rendered(s, g, t) == IF g.board = game.board /\ Collecting(t) = Collecting(targeting) THEN s ELSE None

(***************************************************************************)
(* Notices: the most recent is shown, until it runs out.  One of the       *)
(* client comes right after all that have arrived.                         *)
(***************************************************************************)
NoNotice == [order |-> 0, key |-> <<"none", 0>>, number |-> 0]
ServerNotice == [order |-> 2 * notices.server.seq, key |-> <<"server", notices.server.seq>>, number |-> notices.server.number]
Latest == IF notices.local.order > ServerNotice.order THEN notices.local ELSE IF notices.server.seq > 0 THEN ServerNotice ELSE NoNotice
Current == IF Latest = NoNotice \/ Latest.key = notices.expired THEN NoNotice ELSE Latest
(* Mutant of LocalKey: two refusals in a row are the same notice. *)
LocalKeyOfText(n) == <<"local", 0>>
LocalKey(n) == <<"local", n>>
Show ==
  /\ notices.refusals < MaxRefusals
  /\ newest' = newest + 1
  /\ notices' = [notices EXCEPT !.refusals = @ + 1,
                   !.local = [order |-> 2 * notices.seq + 1, key |-> LocalKey(notices.refusals), number |-> newest']]
  /\ UNCHANGED shownOnce
Arrives(isNotice) ==
  /\ notices.seq < MaxNotices
  /\ newest' = IF isNotice THEN newest + 1 ELSE newest
  /\ notices' = [notices EXCEPT !.seq = @ + 1, !.server = IF isNotice THEN [seq |-> notices.seq + 1, number |-> newest'] ELSE @]
  /\ UNCHANGED shownOnce
Expires ==
  /\ notices' = [notices EXCEPT !.expired = IF Current = NoNotice THEN @ ELSE Current.key]
  /\ shownOnce' = IF Current = NoNotice THEN shownOnce ELSE shownOnce \cup {Current.number}
  /\ UNCHANGED newest
Quiet == UNCHANGED <<notices, newest, shownOnce>>

(***************************************************************************)
(* The match goes on.                                                      *)
(***************************************************************************)
Becomes(g) ==
  /\ game' = g
  /\ targeting' = Aim(targeting, g)
  /\ selection' = Rendered(selection, g, targeting')
  /\ UNCHANGED <<dragging, promotion, dropped, last>>
NextPhases(p) ==
  CASE p = "main1" -> {"move"} [] p = "move" -> {"main2", "theirs"} [] p = "main2" -> {"theirs"} [] p = "theirs" -> {"main1", "move"}
(* A phase ends; the position stays, but for a turn that begins after a    *)
(* move.  A second move given up sends no position.                        *)
PhaseChanged ==
  /\ ~game.over
  /\ \E p \in NextPhases(game.phase) :
       /\ game.phase = "move" => game.second
       /\ Becomes([game EXCEPT !.board = IF game.phase = "theirs" THEN @ + 1 ELSE @, !.phase = p, !.second = FALSE])
  /\ game'.board <= MaxPositions
  /\ UNCHANGED <<open, castSent>> /\ Quiet
(* A position after a move, a spell, or the reconnection; one that ends    *)
(* the match has the end right behind it, and no other phase.              *)
NewPosition ==
  /\ ~game.over /\ game.board < MaxPositions
  /\ \E second, ends \in BOOLEAN, p \in {game.phase} \cup IF game.phase = "move" THEN {"main2", "theirs"} ELSE {} :
       /\ second => game.phase = "move" /\ p = "move" /\ ~game.second /\ ~ends
       /\ p = "move" /\ game.phase = "move" => second \/ ends
       /\ ends => p = game.phase
       /\ Becomes([board |-> game.board + 1, phase |-> p, second |-> second, over |-> ends])
  /\ castSent' = FALSE
  /\ Arrives(FALSE) /\ UNCHANGED open
(* The match is over: of what comes later only the refusals are read.      *)
GameOver == ~game.over /\ Becomes([game EXCEPT !.over = TRUE]) /\ UNCHANGED <<open, castSent>> /\ Quiet
(* The answer to the cast, or a refusal; a rune, a trigger, an offer.      *)
Answer == castSent /\ castSent' = FALSE /\ Arrives(TRUE) /\ UNCHANGED <<game, open, held, targeting, last>>
Notice == Arrives(TRUE) /\ UNCHANGED <<game, open, castSent, held, targeting, last>>
Connection == open' = ~open /\ Quiet /\ UNCHANGED <<game, castSent, held, targeting, last>>
NoticeTimer == Current # NoNotice /\ Expires /\ UNCHANGED <<game, open, castSent, held, targeting, last>>

(***************************************************************************)
(* The pieces.                                                             *)
(***************************************************************************)
pickupRefusal == IF ~open \/ game.over THEN "not_connected" ELSE IF game.phase # "move" THEN "wrong_phase" ELSE "none"
pickup == /\ ~Collecting(targeting) /\ promotion = None
          /\ IF pickupRefusal = "none" THEN selection' = game.board /\ dropped' = FALSE /\ Quiet
             ELSE UNCHANGED <<selection, dropped>> /\ IF selection = None THEN Show ELSE Quiet
          /\ UNCHANGED <<game, open, castSent, dragging, promotion, targeting, last>>
startDrag == /\ ~Collecting(targeting) /\ promotion = None /\ dragging = None /\ pickupRefusal = "none"
             /\ dragging' = game.board
             /\ UNCHANGED <<game, open, castSent, selection, promotion, dropped, targeting, last>> /\ Quiet
Goes(by, on) ==
  IF open THEN last' = Sent("move", by, on, "move") /\ Quiet ELSE UNCHANGED last /\ Show
sendMove(by, on) ==
  /\ selection' = None
  /\ \/ Goes(by, on) /\ UNCHANGED promotion
     \/ promotion' = on /\ UNCHANGED last /\ Quiet
tapTarget == /\ selection # None /\ ~Collecting(targeting) /\ promotion = None
             /\ sendMove(IF dropped THEN "drag" ELSE "tap", selection)
             /\ UNCHANGED <<game, open, castSent, dragging, dropped, targeting>>
drop == /\ dragging # None /\ dragging' = None
        /\ \/ sendMove("drag", dragging) /\ UNCHANGED dropped
           \/ selection' = dragging /\ dropped' = TRUE /\ UNCHANGED <<promotion, last>> /\ Quiet
        /\ UNCHANGED <<game, open, castSent, targeting>>
choosePromotion == /\ promotion # None /\ promotion' = None
                   /\ Goes("promotion", promotion) \/ (UNCHANGED last /\ Quiet)
                   /\ UNCHANGED <<game, open, castSent, selection, dragging, dropped, targeting>>

(***************************************************************************)
(* The spells.  To pick a card takes away the notice shown; one without    *)
(* targets goes at once.                                                   *)
(***************************************************************************)
cardRefusal ==
  IF ~open THEN "not_connected" ELSE IF game.phase \notin {"main1", "main2"} THEN "wrong_phase"
  ELSE IF castSent THEN "cast_pending" ELSE "none"
Settles(t) == targeting' = t /\ selection' = Rendered(selection, game, t) /\ UNCHANGED <<game, open, dragging, promotion, dropped>>
Picked == [IDLE EXCEPT !.board = game.board, !.phase = game.phase]
sendCast(t) ==
  /\ Settles(IDLE)
  /\ IF open THEN castSent' = TRUE /\ last' = Sent("cast", "card", t.board, t.phase) /\ Quiet
     ELSE UNCHANGED <<castSent, last>> /\ Show
beginTargeting ==
  /\ promotion = None /\ cardRefusal = "none"
  /\ \E kind \in {"collecting", "choosing"} : Settles([Picked EXCEPT !.kind = kind])
  /\ UNCHANGED <<castSent, last>> /\ Expires
castAtOnce == /\ promotion = None /\ cardRefusal = "none"
              /\ Settles(IDLE) /\ castSent' = TRUE /\ last' = Sent("cast", "card", game.board, game.phase) /\ Expires
refuseCard == /\ cardRefusal # "none" /\ Show
              /\ UNCHANGED <<game, open, castSent, held, targeting, last>>
pickTarget ==
  /\ Collecting(targeting)
  /\ \/ /\ \E kind \in {"collecting", "choosing"} :
             targeting.steps = 0 /\ Settles([targeting EXCEPT !.kind = kind, !.steps = 1])
        /\ UNCHANGED <<castSent, last>> /\ Quiet
     \/ sendCast(targeting)
pickChoice == targeting.kind = "choosing" /\ sendCast(targeting)
cancel == targeting # IDLE /\ Settles(IDLE) /\ UNCHANGED <<castSent, last>> /\ Quiet

(* What each part of the screen lets do; Esc gives the aim up.  At the end *)
(* the hand leaves the screen, the board and the dialogs stay.             *)
Hand == ~game.over /\ (beginTargeting \/ castAtOnce \/ refuseCard)
Board == pickup \/ startDrag \/ tapTarget \/ drop \/ pickTarget
PieceChoiceDialog == pickChoice
PromotionDialog == choosePromotion
MatchBoard == Board \/ PieceChoiceDialog \/ PromotionDialog
MatchScreen == Hand \/ MatchBoard \/ cancel

Init ==
  /\ game = [board |-> 1, phase |-> "main1", second |-> FALSE, over |-> FALSE] /\ open = TRUE /\ castSent = FALSE
  /\ selection = None /\ dragging = None /\ promotion = None /\ dropped = FALSE /\ targeting = IDLE
  /\ notices = [seq |-> 0, server |-> [seq |-> 0, number |-> 0], local |-> NoNotice, expired |-> <<"none", 0>>, refusals |-> 0]
  /\ newest = 0 /\ shownOnce = {}
  /\ last = [what |-> "none", by |-> "none", sameBoard |-> TRUE, samePhase |-> TRUE, alone |-> TRUE]
Next == MatchScreen \/ PhaseChanged \/ NewPosition \/ GameOver \/ Answer \/ Notice \/ Connection \/ NoticeTimer
Spec == Init /\ [][Next]_vars
-----------------------------------------------------------------------------
(* A spell is sent in the phase, and on the position, it was picked and    *)
(* aimed on, and never with another waiting for its answer; a move made by *)
(* two taps is of the position shown when the second is given.             *)
SendsWhatIsShown ==
  /\ last.what = "cast" => last.sameBoard /\ last.samePhase /\ last.alone
  /\ last.what = "move" /\ last.by = "tap" => last.sameBoard

(* The notice shown is the latest, the client's or the server's; it is     *)
(* missing only once it has run out, and none comes back.                  *)
NoticesMoveOn ==
  IF Current = NoNotice THEN newest = 0 \/ newest \in shownOnce
  ELSE Current.number = newest /\ newest \notin shownOnce
=============================================================================

---------------------------- MODULE ClientSession ----------------------------
(***************************************************************************)
(* The client's side of a match: the connection (connection.ts), the       *)
(* session that joins it to the sign-in and to the saved match             *)
(* (matchSession.ts), the store its frames feed (MatchStore), what the     *)
(* match screen sends, and the server as far as its answers go.            *)
(*                                                                         *)
(* JavaScript runs each callback to its end.  What comes in any order are  *)
(* tickets, handshakes, frames, closures, timers, and the user.  Every     *)
(* opening and closing is a new generation, and what a former one waited   *)
(* for is dropped when it comes: a ticket, a frame, the end of a socket.   *)
(* Only the server still sees a socket that is being closed (old).         *)
(***************************************************************************)
EXTENDS MatchStore, Sequences

CONSTANTS MaxMoves, MaxHand  \* bounds: moves of a match, cards of a hand

VARIABLES
  c,        \* the connection
  match,    \* the store of the match
  pending,  \* what is waited for: "none", "wait" (the queue or a challenge), "bot"
  saved,    \* a match in course is noted in the storage of the device
  signedIn, \* somebody is signed in
  resuming, \* the match screen waits for a saved match
  srv       \* the server: the match or the wait of this user
vars == <<c, match, pending, saved, signedIn, resuming, srv>>

NoSocket == [st |-> "none", live |-> FALSE, seat |-> FALSE, up |-> <<>>, dn |-> <<>>]
Idle ==
  [kind |-> "idle", ticket |-> FALSE, retry |-> FALSE, silence |-> FALSE, held |-> <<>>,
   params |-> "wait", sock |-> NoSocket, old |-> FALSE]
Stopped == {"idle", "closed", "unauthorized", "replaced", "deck_invalid", "challenge_closed", "bot_unavailable"}
Kinds == Stopped \cup {"connecting", "open", "reconnecting"}
StatusOf(code) ==
  CASE code = "4001" -> "replaced" [] code = "4002" -> "deck_invalid" [] code = "4003" -> "challenge_closed"
    [] code = "4004" -> "bot_unavailable" [] OTHER -> "reconnecting"

-----------------------------------------------------------------------------
(* connection.ts, each function as a function of the connection.           *)

dropSocket(k) ==
  [k EXCEPT !.sock = NoSocket, !.silence = FALSE, !.held = <<>>, !.old = @ \/ k.sock.seat]
armSilence(k, life) == [k EXCEPT !.silence = k.kind = "open" /\ life = "playing"]
(* A new generation: what it waited for does not count any more.           *)
NewGeneration(k) == [k EXCEPT !.ticket = FALSE]
connect(k) == [NewGeneration(k) EXCEPT !.kind = "connecting", !.ticket = TRUE]
scheduleRetry(k) == [k EXCEPT !.kind = "reconnecting", !.retry = TRUE]
open(k, params) ==
  IF k.kind \notin Stopped THEN k ELSE connect([k EXCEPT !.params = IF params = "same" THEN @ ELSE params])
(* As close, if the timer of the next attempt were left running.           *)
closeKeepsRetry(k) ==
  [dropSocket(NewGeneration(k)) EXCEPT !.kind = IF @ \in {"idle", "closed"} THEN @ ELSE "closed"]

close(k) ==
  [dropSocket(NewGeneration(k)) EXCEPT !.retry = FALSE, !.kind = IF @ \in {"idle", "closed"} THEN @ ELSE "closed"]
nudge(k) == IF k.kind # "reconnecting" THEN k ELSE connect([k EXCEPT !.retry = FALSE])
wake(k) == IF k.kind \in Stopped THEN k ELSE connect(dropSocket([k EXCEPT !.retry = FALSE]))
(* As onOpen, if silence were listened for from the first frame on.        *)
onOpenUnarmed(k, life) == [k EXCEPT !.kind = "open", !.sock.st = "open"]
onOpen(k, life) == armSilence([k EXCEPT !.kind = "open", !.sock.st = "open"], life)
onClose(k, code) ==
  LET gone == [k EXCEPT !.sock = NoSocket, !.silence = FALSE, !.held = <<>>] IN
  IF StatusOf(code) = "reconnecting" THEN scheduleRetry(gone) ELSE [gone EXCEPT !.kind = StatusOf(code)]
(* Bound: one socket being closed at a time, and what was sent over it has *)
(* been read, or will never be.                                            *)
CanDrop == ~(c.old /\ c.sock.seat) /\ (c.sock.up = <<>> \/ ~c.sock.live)

-----------------------------------------------------------------------------
(* The server.  seat: the socket it holds for the connection of the user.  *)

NotPlaying == [at |-> "none", turn |-> "me", phase |-> "main", moves |-> 0, hand |-> 0, frozen |-> FALSE, offer |-> "none", gone |-> FALSE, topic |-> "cards"]
Stated(s) == [type |-> "game_state", turn |-> s.turn, phase |-> s.phase, moves |-> s.moves, frozen |-> s.frozen]
HandOf(s) == [type |-> "hand", cards |-> s.hand]
Ev(type) == [type |-> type]
PhaseOf(s) == [type |-> "phase_changed", turn |-> s.turn, phase |-> s.phase]
Closes(code) == [type |-> "close", code |-> code]
Seated == c.sock.seat \/ c.old
(* Frames go to the connection at the seat, if it still is there; a socket *)
(* that is being closed delivers none.                                     *)
Sent(k, frames) == IF k.sock.seat THEN [k EXCEPT !.sock.dn = @ \o frames] ELSE k
(* Bound: the server waits for its frames to be read.                      *)
Read == c.sock.dn = <<>>
Left(s) == IF s.at = "match" THEN [s EXCEPT !.gone = TRUE] ELSE NotPlaying
LeftBy(seated) == IF seated THEN Left(srv) ELSE srv

ClientIdle == UNCHANGED <<match, pending, saved, signedIn, resuming>>
Serve(k, s) == c' = k /\ srv' = s /\ ClientIdle
(* Bounds: the user begins against the bot, and only there; a match is one *)
(* of cards, of effects or of draw offers.                                 *)
NewMatches(turn) ==
  {[NotPlaying EXCEPT !.at = "match", !.turn = turn, !.hand = 1, !.topic = topic] : topic \in {"cards", "effects", "offers"}}

(* The upgrade: back to the match in course, or to what was asked for.     *)
Accepted(k) == [k EXCEPT !.old = FALSE, !.sock.st = "accepted", !.sock.seat = TRUE]
ServerAccepts ==
  /\ c.sock.st = "handshake"
  /\ IF srv.at = "match"
     THEN Serve(Sent(Accepted(c), <<Stated(srv), HandOf(srv)>>), [srv EXCEPT !.gone = FALSE])
     ELSE \/ /\ c.params = "wait"
             /\ Serve(Accepted(c), [NotPlaying EXCEPT !.at = "waiting"])
          \/ /\ c.params = "bot"
             /\ \E s \in NewMatches("me") : Serve(Sent(Accepted(c), <<Stated(s), HandOf(s)>>), s)
          \/ \E code \in {"4002"} \cup (IF c.params = "bot" THEN {"4004"} ELSE {"4003"}) :
               Serve([c EXCEPT !.sock.st = "accepted", !.sock.dn = <<Closes(code)>>], srv)
MatchStarts ==
  /\ srv.at = "waiting" /\ Read
  /\ \E s \in NewMatches("opp") : Serve(Sent(c, <<Stated(s), HandOf(s)>>), s)
(* The other player declines the challenge, or lets it expire.             *)
ChallengeCloses ==
  /\ srv.at = "waiting" /\ c.sock.seat
  /\ Serve([Sent(c, <<Closes("4003")>>) EXCEPT !.sock.seat = FALSE], NotPlaying)
(* The user connects from another tab, and may leave it again.             *)
OtherTab ==
  /\ srv.at # "none" /\ c.sock.seat
  /\ Serve([Sent(c, <<Closes("4001")>>) EXCEPT !.sock.seat = FALSE], IF srv.at = "match" THEN srv ELSE NotPlaying)
OtherTabLeaves ==
  /\ srv.at = "match" /\ ~srv.gone /\ ~Seated
  /\ Serve(c, Left(srv))
Over == Serve(Sent(c, <<Ev("game_over")>>), NotPlaying)
AbandonTimer == srv.gone /\ Serve(c, NotPlaying)

(* The turn goes on: an effect that has lasted its time is announced, and  *)
(* the active player draws a card.                                         *)
Rolled(s, turn) ==
  [s EXCEPT !.turn = turn, !.phase = "main", !.moves = @ + 1, !.frozen = FALSE,
            !.hand = IF turn = "me" /\ s.topic = "cards" /\ @ < MaxHand THEN @ + 1 ELSE @, !.offer = IF @ = s.turn THEN @ ELSE "none"]
RollFrames(s, turn) ==
  (IF s.offer = "me" /\ s.turn = "opp" THEN <<Ev("draw_declined")>> ELSE <<>>)
    \o <<Stated([Rolled(s, turn) EXCEPT !.frozen = s.frozen])>>
    \o (IF s.frozen THEN <<Ev("effect_expired")>> ELSE <<>>)
    \o (IF Rolled(s, turn).hand > s.hand THEN <<Ev("card_drawn")>> ELSE <<>>)
Passed(s) == [s EXCEPT !.phase = "move"]
(* Bound: the other player waits for one who is away.                      *)
Opponent ==
  /\ srv.at = "match" /\ Read /\ c.sock.seat
  /\ \/ /\ srv.turn = "opp" /\ srv.phase = "main"
        /\ \/ Serve(Sent(c, <<PhaseOf(Passed(srv))>>), Passed(srv))
           \/ /\ srv.topic = "effects" /\ ~srv.frozen
              /\ Serve(Sent(c, <<[type |-> "spell_cast", player |-> "opp", freezes |-> TRUE]>>), [srv EXCEPT !.frozen = TRUE])
     \/ /\ srv.turn = "opp" /\ srv.phase = "move" /\ srv.moves < MaxMoves
        /\ Serve(Sent(c, RollFrames(srv, "me")), Rolled(srv, "me"))
     \/ srv.topic = "offers" /\ srv.offer = "none" /\ Serve(Sent(c, <<Ev("draw_offer")>>), [srv EXCEPT !.offer = "opp"])
     \/ srv.offer = "me" /\ Serve(Sent(c, <<Ev("draw_declined")>>), [srv EXCEPT !.offer = "none"])
     \/ Over
(* The clock passes a main phase of the user.                              *)
PhaseTimer ==
  /\ srv.at = "match" /\ srv.turn = "me" /\ srv.phase = "main" /\ Read
  /\ Serve(Sent(c, <<PhaseOf(Passed(srv))>>), Passed(srv))

(* A message of the user, from the socket k was, after it is taken from it.*)
Accepts(intent) ==
  /\ srv.at = "match"
  /\ CASE intent = "move" -> srv.turn = "me" /\ srv.phase = "move" /\ srv.moves < MaxMoves
       [] intent = "cast" -> srv.turn = "me" /\ srv.phase = "main" /\ srv.hand > 0
       [] intent = "pass" -> srv.turn = "me" /\ srv.phase = "main"
       [] intent = "offer" -> srv.offer = "none"
       [] intent \in {"accept", "decline"} -> srv.offer = "opp"
       [] OTHER -> TRUE
Answer(k, intent) ==
  CASE intent = "move" -> Serve(Sent(k, RollFrames(srv, "opp")), Rolled(srv, "opp"))
    [] intent = "cast" -> Serve(Sent(k, <<[type |-> "spell_cast", player |-> "me", freezes |-> FALSE]>>), [srv EXCEPT !.hand = @ - 1])
    [] intent = "pass" -> Serve(Sent(k, <<PhaseOf(Passed(srv))>>), Passed(srv))
    [] intent = "offer" -> Serve(Sent(k, <<Ev("draw_offer_sent")>>), [srv EXCEPT !.offer = "me"])
    [] intent = "decline" -> Serve(k, [srv EXCEPT !.offer = "none"])
    [] intent \in {"accept", "resign"} -> Serve(Sent(k, <<Ev("game_over")>>), NotPlaying)
ServerReads ==
  /\ Read /\ c.sock.up # <<>> /\ c.sock.live
  /\ LET k == [c EXCEPT !.sock.up = Tail(@)] IN
     IF Accepts(Head(c.sock.up)) THEN Answer(k, Head(c.sock.up)) ELSE Serve([k EXCEPT !.sock.dn = <<Ev("error")>>], srv)
Server == ServerAccepts \/ MatchStarts \/ ChallengeCloses \/ OtherTab \/ OtherTabLeaves \/ AbandonTimer \/ Opponent \/ PhaseTimer \/ ServerReads

-----------------------------------------------------------------------------
(* matchSession.ts: what follows a change of the store.                    *)

ServerIdle == UNCHANGED <<srv, signedIn>>
(* As Becomes, if a match that begins did not end the wait.                *)
BecomesStillWaiting(k, m, p) ==
  /\ resuming' = (resuming /\ m.life = "idle" /\ k.kind # "closed")
  /\ c' = IF m.life = match.life THEN k ELSE armSilence(k, m.life)
  /\ match' = m
  /\ pending' = IF m.life # match.life /\ m.life = "idle" THEN "none" ELSE p
  /\ saved' = (IF m.life = match.life THEN saved ELSE (saved \/ m.life = "playing") /\ m.life # "over")
(* The connection k with the store m and what is waited for p.             *)
Becomes(k, m, p) ==
  /\ resuming' = (resuming /\ m.life = "idle" /\ k.kind # "closed")
  /\ c' = IF m.life = match.life THEN k ELSE armSilence(k, m.life)
  /\ match' = m
  /\ pending' = IF m.life # match.life /\ m.life \in {"playing", "idle"} THEN "none" ELSE p
  /\ saved' = (IF m.life = match.life THEN saved ELSE (saved \/ m.life = "playing") /\ m.life # "over")
Stays(k) == Becomes(k, match, pending)
Enters(what) ==
  /\ signedIn /\ match.life # "playing" /\ CanDrop
  /\ Becomes(open(close(c), what), enterQueue(match), what)
  /\ ServerIdle
findMatch == Enters("wait")
joinChallenge == Enters("wait")
playBot == Enters("bot")
(* Out of the queue; or out of a match that is over, which is forgotten.   *)
cancel ==
  /\ match.life = "queued" /\ CanDrop
  /\ Becomes(close(c), initialMatchState, pending)
  /\ ServerIdle
Forgets ==
  /\ c' = close(c) /\ match' = initialMatchState /\ pending' = "none" /\ saved' = FALSE /\ resuming' = FALSE
leave == match.life = "over" /\ CanDrop /\ Forgets /\ ServerIdle
(* Match.tsx: a saved match is taken up again, for a while; the banner of  *)
(* a replaced connection does the same.                                    *)
resumeSaved ==
  /\ signedIn /\ saved /\ match.life = "idle" /\ ~resuming
  /\ c' = open(c, "same") /\ resuming' = TRUE
  /\ UNCHANGED <<match, pending, saved>> /\ ServerIdle
resumeHere == c.kind = "replaced" /\ Stays(open(c, "same")) /\ ServerIdle
ResumeTimeout == resuming /\ match.life = "idle" /\ c.kind = "open" /\ CanDrop /\ Forgets /\ ServerIdle
(* Signed out, or the session expired: the note of the match stays.        *)
SignOut ==
  /\ signedIn /\ CanDrop
  /\ signedIn' = FALSE
  /\ Becomes(close(c), initialMatchState, pending)
  /\ UNCHANGED srv
SignIn == ~signedIn /\ signedIn' = TRUE /\ UNCHANGED <<c, match, pending, saved, resuming, srv>>
(* The page is loaded anew: of the client only the note is left.           *)
Reload ==
  /\ c # Idle
  /\ c' = Idle /\ match' = initialMatchState /\ pending' = "none" /\ resuming' = FALSE
  /\ srv' = IF Seated THEN Left(srv) ELSE srv
  /\ UNCHANGED <<saved, signedIn>>
Online == c.kind = "reconnecting" /\ Stays(nudge(c)) /\ ServerIdle
AppResumed == c.kind \notin Stopped /\ CanDrop /\ Stays(wake(c)) /\ ServerIdle
User == findMatch \/ joinChallenge \/ playBot \/ cancel \/ leave \/ resumeSaved \/ ResumeTimeout \/ resumeHere \/ SignOut \/ SignIn \/ Reload \/ Online \/ AppResumed

-----------------------------------------------------------------------------
(* The events of the network and the timers of the connection.             *)

Ticket(k) ==
  \/ Stays([k EXCEPT !.ticket = FALSE, !.sock = [NoSocket EXCEPT !.st = "handshake", !.live = TRUE]])
  \/ Stays([k EXCEPT !.ticket = FALSE, !.kind = "unauthorized"])
  \/ Stays(scheduleRetry([k EXCEPT !.ticket = FALSE]))
TicketReply == c.ticket /\ Ticket(c) /\ ServerIdle
HandshakeFails == c.sock.st = "handshake" /\ Stays(onClose(c, "1006")) /\ ServerIdle
HandshakeEnds == c.sock.st = "accepted" /\ Stays(onOpen(c, match.life)) /\ ServerIdle

OnFrame(k, e) ==
  IF e.type = "close" THEN Stays(onClose(k, e.code))
  ELSE Becomes(armSilence(k, match.life), applyServerEvent(match, e), pending)
Deliver ==
  /\ c.sock.st = "open" /\ c.sock.live /\ c.sock.dn # <<>>
  /\ OnFrame([c EXCEPT !.sock.dn = Tail(@)], Head(c.sock.dn))
  /\ ServerIdle
(* The connection drops: both sides see it, or the client does not.        *)
NetworkClose ==
  /\ c.sock.st \in {"accepted", "open"}
  /\ Stays(onClose(c, "1006"))
  /\ srv' = LeftBy(c.sock.seat) /\ UNCHANGED signedIn
Cut ==
  /\ c.sock.st = "open" /\ c.sock.live
  /\ Stays([c EXCEPT !.sock = [NoSocket EXCEPT !.st = "open"]])
  /\ srv' = LeftBy(c.sock.seat) /\ UNCHANGED signedIn
OldCloses ==
  /\ c.old /\ Stays([c EXCEPT !.old = FALSE])
  /\ srv' = LeftBy(c.old) /\ UNCHANGED signedIn
RetryTimer == c.retry /\ Stays(connect([c EXCEPT !.retry = FALSE])) /\ ServerIdle
(* A match sends a timer_update every second: silence is a dead socket, or *)
(* a server that has no match to tell of.                                  *)
Silent == c.sock.dn = <<>> /\ (~c.sock.live \/ srv.at # "match" \/ ~c.sock.seat)
SilenceTimer == c.silence /\ Silent /\ CanDrop /\ Stays(scheduleRetry(dropSocket(NewGeneration(c)))) /\ ServerIdle
TimerUpdates ==
  /\ srv.at = "match" /\ c.sock.st = "open" /\ c.sock.seat /\ c.sock.dn = <<>>
  /\ Becomes(c, applyServerEvent(match, [type |-> "timer_update", turn |-> srv.turn]), pending) /\ ServerIdle
Network == TicketReply \/ HandshakeFails \/ HandshakeEnds \/ Deliver \/ NetworkClose \/ Cut \/ OldCloses
             \/ RetryTimer \/ SilenceTimer \/ TimerUpdates

-----------------------------------------------------------------------------
(* What the match screen sends.  Two messages are kept apart by a timer:   *)
(* the second waits for it, and is lost with its generation.               *)

CanAct == match.life = "playing" /\ c.kind = "open"
MyTurn == match.turn = "me"
Allowed(intent) ==
  CASE intent = "move" -> MyTurn /\ match.phase = "move"
    [] intent = "cast" -> MyTurn /\ match.phase = "main" /\ match.hand > 0 /\ ~match.cast
    [] intent = "pass" -> MyTurn /\ match.phase = "main"
    [] intent = "offer" -> ~match.incoming /\ ~match.outgoing
    [] intent \in {"accept", "decline"} -> match.incoming
    [] intent = "resign" -> ~match.incoming
Shown(intent) == CASE intent = "move" -> previewMove(match) [] intent = "cast" -> beginCast(match) [] OTHER -> match
send(intent) ==
  /\ CanAct /\ Allowed(intent) /\ c.held = <<>>
  /\ \/ c.sock.up = <<>> /\ Becomes(IF c.sock.live THEN [c EXCEPT !.sock.up = <<intent>>] ELSE c, Shown(intent), pending)
     \/ c.sock.up # <<>> /\ Becomes([c EXCEPT !.held = <<intent>>], Shown(intent), pending)
  /\ ServerIdle
SpacingTimer ==
  /\ c.held # <<>> /\ (c.sock.up = <<>>)
  /\ Stays([c EXCEPT !.held = <<>>, !.sock.up = IF c.sock.live THEN c.held ELSE @])
  /\ ServerIdle
Intents ==
  CASE srv.topic = "cards" -> {"move", "cast"} [] srv.topic = "effects" -> {"move", "pass"} [] OTHER -> {"move", "offer", "accept", "decline", "resign"}
Screen == SpacingTimer \/ \E intent \in Intents : send(intent)

Init ==
  /\ c = Idle /\ match = initialMatchState /\ pending = "none" /\ saved = FALSE
  /\ signedIn = TRUE /\ resuming = FALSE /\ srv = NotPlaying
Next == Server \/ User \/ Network \/ Screen
(* Timers fire; a request and a handshake end, one way or the other.       *)
Fairness ==
  /\ WF_vars(RetryTimer) /\ WF_vars(TicketReply) /\ WF_vars(SilenceTimer)
  /\ WF_vars(ServerAccepts \/ HandshakeFails) /\ WF_vars(HandshakeEnds) /\ WF_vars(OldCloses)
Spec == Init /\ [][Next]_vars
FairSpec == Spec /\ Fairness

-----------------------------------------------------------------------------
(* What goes on never depends on nothing: a connection that is not stopped *)
(* has exactly one thing that will move it, the request for a ticket, a    *)
(* socket or the timer of the next attempt, and a stopped one has none     *)
(* that could revive it; the silence timer runs while a match is played    *)
(* over an open socket, and only then.                                     *)
Driven ==
  /\ c.kind \in Kinds
  /\ c.ticket <=> c.kind = "connecting" /\ c.sock.st = "none"
  /\ c.sock.st \in {"handshake", "accepted"} => c.kind = "connecting"
  /\ c.sock.st = "open" <=> c.kind = "open"
  /\ c.retry <=> c.kind = "reconnecting"
  /\ c.silence <=> c.kind = "open" /\ match.life = "playing"

(* The session, the store and the note on the device agree: something is   *)
(* waited for just while the store is queued, a match played is noted and  *)
(* one that is over is not, and nothing is left of a user signed out but   *)
(* the note.                                                               *)
SessionAgrees ==
  /\ pending # "none" <=> match.life = "queued"
  /\ match.life = "playing" => saved
  /\ match.life = "over" => ~saved
  /\ ~signedIn => match = initialMatchState /\ c.kind \in {"idle", "closed"}

(* Whatever was lost, dropped or delivered late: once the frames of the    *)
(* server are read, the client shows the match as the server has it.       *)
Quiet == c.kind = "open" /\ c.sock.live /\ c.sock.seat /\ c.sock.dn = <<>>
Shows(s) == /\ match.turn = s.turn /\ match.phase = s.phase /\ match.moves = s.moves
            /\ match.hand = s.hand /\ match.frozen = s.frozen
InSync == Quiet /\ srv.at = "match" /\ match.life # "over" => match.life = "playing" /\ Shows(srv)

(* The hand is blocked by a cast, and the board shows a move in advance,   *)
(* only while an answer is to come: not over an open socket with nothing   *)
(* sent, held back or received.                                            *)
AnswerToCome ==
  match.life = "playing" /\ (match.cast \/ match.optimistic) /\ Quiet /\ srv.at = "match" => c.sock.up # <<>> \/ c.held # <<>>

(* A client that lost the server tries again or is told to stop, and while *)
(* a match is played a socket that died unnoticed does not stay.           *)
KeepsTrying ==
  /\ (c.kind = "reconnecting") ~> (c.kind # "reconnecting")
  /\ (CanAct /\ ~c.sock.live) ~> ~(CanAct /\ ~c.sock.live)

(* HintBox.tsx: "Un'offerta di patta aspetta una risposta" while the store *)
(* has one incoming.  An offer shown is one the server still holds, once   *)
(* all frames are read and none is on its way.                             *)
OfferAwaitsAnswer ==
  Quiet /\ c.sock.up = <<>> /\ c.held = <<>> /\ srv.at = "match" /\ match.life = "playing" /\ match.incoming => srv.offer = "opp"
=============================================================================

------------------------ MODULE ClientSession_proofs ------------------------
(***************************************************************************)
(* Proofs about module ClientSession, for any number of moves and cards.   *)
(* That the connection is always driven needs no more than its own state.  *)
(* That session, store and note agree needs the frames on their way too: a *)
(* store that still waits in the queue must hear of the match before it    *)
(* hears of its end.  That the store follows the server needs where the    *)
(* frames on their way lead.                                               *)
(***************************************************************************)
EXTENDS ClientSession, SequenceTheorems, TLAPS

(* What the frames of the server look like. *)
Side == {"me", "opp"}
Code == {"4001", "4002", "4003", "4004"}
Bare == {"card_drawn", "effect_expired", "draw_offer", "draw_offer_sent", "draw_declined", "game_over", "error"}
Frames ==
  [type : {"game_state"}, turn : Side, phase : {"main", "move"}, moves : Nat, frozen : BOOLEAN]
    \cup [type : {"hand"}, cards : Nat] \cup [type : Bare]
    \cup [type : {"phase_changed"}, turn : Side, phase : {"main", "move"}]
    \cup [type : {"spell_cast"}, player : Side, freezes : BOOLEAN]
    \cup [type : {"close"}, code : Code]
Intent == {"move", "cast", "pass", "offer", "accept", "decline", "resign"}

Sockets ==
  [st : {"none", "handshake", "accepted", "open"}, live : BOOLEAN, seat : BOOLEAN, up : Seq(Intent), dn : Seq(Frames)]
Connections ==
  [kind : Kinds, ticket : BOOLEAN, retry : BOOLEAN, silence : BOOLEAN, held : Seq(Intent),
   params : {"wait", "bot"}, sock : Sockets, old : BOOLEAN]
Stores ==
  [life : {"idle", "queued", "playing", "over"}, turn : Side, phase : {"main", "move"}, moves : Nat, hand : Nat,
   frozen : BOOLEAN, clock : Side \cup {"none", "stopped"}, optimistic : BOOLEAN, cast : BOOLEAN, incoming : BOOLEAN,
   outgoing : BOOLEAN]
Servers ==
  [at : {"none", "waiting", "match"}, turn : Side, phase : {"main", "move"}, moves : Nat, hand : Nat, frozen : BOOLEAN,
   offer : Side \cup {"none"}, gone : BOOLEAN, topic : {"cards", "effects", "offers"}]

Typed ==
  /\ c \in Connections /\ match \in Stores /\ srv \in Servers
  /\ pending \in {"none", "wait", "bot"} /\ saved \in BOOLEAN /\ signedIn \in BOOLEAN /\ resuming \in BOOLEAN

(* Driven, of a connection and the life of a store. *)
DrivenBy(k, life) ==
  /\ k.ticket <=> k.kind = "connecting" /\ k.sock.st = "none"
  /\ k.sock.st \in {"handshake", "accepted"} => k.kind = "connecting"
  /\ k.sock.st = "open" <=> k.kind = "open"
  /\ k.retry <=> k.kind = "reconnecting"
  /\ k.silence <=> k.kind = "open" /\ life = "playing"

(* A socket is silent before the server accepts it. *)
SilentAtFirst == c.sock.st \in {"none", "handshake"} => ~c.sock.seat /\ c.sock.dn = <<>> /\ c.sock.up = <<>>
(* Only an open connection has something held back. *)
HeldIfOpen == c.held # <<>> => c.kind = "open"
(* While the store is still queued, a match at the seat is told of by the  *)
(* first frame that is not read, and no end of one is on its way.          *)
Told == c.sock.dn # <<>> /\ Head(c.sock.dn).type = "game_state"
NoEnd == \A i \in 1 .. Len(c.sock.dn) : c.sock.dn[i].type # "game_over"
BeginsFirst == match.life = "queued" => (c.sock.seat /\ srv.at = "match" => Told) /\ NoEnd
Announced == SilentAtFirst /\ HeldIfOpen /\ BeginsFirst

IInv == Typed /\ DrivenBy(c, match.life) /\ Announced /\ SessionAgrees
-----------------------------------------------------------------------------
(* What the server sends is made of frames. *)
LEMMA FramesOfServer ==
  ASSUME NEW s \in Servers
  PROVE  /\ Stated(s) \in Frames /\ HandOf(s) \in Frames /\ PhaseOf(s) \in Frames
         /\ \A type \in Bare : Ev(type) \in Frames
         /\ \A code \in Code : Closes(code) \in Frames
         /\ <<Stated(s), HandOf(s)>> \in Seq(Frames)
         /\ Head(<<Stated(s), HandOf(s)>>).type = "game_state"
         /\ \A i \in 1 .. 2 : <<Stated(s), HandOf(s)>>[i].type # "game_over"
<1>1. /\ Stated(s) \in Frames /\ HandOf(s) \in Frames /\ PhaseOf(s) \in Frames
      /\ Stated(s).type = "game_state" /\ HandOf(s).type = "hand"
  BY DEF Servers, Frames, Stated, HandOf, PhaseOf, Side
<1>2. \A type \in Bare : Ev(type) \in Frames
  BY DEF Ev, Frames
<1>3. \A code \in Code : Closes(code) \in Frames
  BY DEF Closes, Frames
<1> QED
  BY <1>1, <1>2, <1>3

(* The end of a turn keeps the server in its type, and is told in frames. *)
LEMMA TurnRolls ==
  ASSUME NEW s \in Servers, NEW turn \in Side
  PROVE  Rolled(s, turn) \in Servers /\ RollFrames(s, turn) \in Seq(Frames)
<1>1. Rolled(s, turn) \in Servers
  <2> DEFINE hand == IF turn = "me" /\ s.topic = "cards" /\ s.hand < MaxHand THEN s.hand + 1 ELSE s.hand
             offer == IF s.offer = s.turn THEN s.offer ELSE "none"
  <2>1. hand \in Nat /\ offer \in Side \cup {"none"} /\ s.moves + 1 \in Nat
    BY DEF Servers
  <2>2. Rolled(s, turn) = [s EXCEPT !.turn = turn, !.phase = "main", !.moves = s.moves + 1, !.frozen = FALSE,
                                    !.hand = hand, !.offer = offer]
    BY DEF Rolled
  <2> HIDE DEF hand, offer
  <2> QED
    BY <2>1, <2>2 DEF Servers
<1>2. [Rolled(s, turn) EXCEPT !.frozen = s.frozen] \in Servers
  BY <1>1 DEF Servers
<1>3. Stated([Rolled(s, turn) EXCEPT !.frozen = s.frozen]) \in Frames
  BY <1>2, FramesOfServer
<1>4. Ev("draw_declined") \in Frames /\ Ev("effect_expired") \in Frames /\ Ev("card_drawn") \in Frames
  BY FramesOfServer DEF Bare
<1>5. \A q \in Seq(Frames), r \in Seq(Frames) : q \o r \in Seq(Frames)
  OBVIOUS
<1>6. \A f \in Frames : <<f>> \in Seq(Frames)
  OBVIOUS
<1>7. <<>> \in Seq(Frames)
  OBVIOUS
<1> DEFINE a == IF s.offer = "me" /\ s.turn = "opp" THEN <<Ev("draw_declined")>> ELSE <<>>
           b == <<Stated([Rolled(s, turn) EXCEPT !.frozen = s.frozen])>>
           d == IF s.frozen THEN <<Ev("effect_expired")>> ELSE <<>>
           e == IF Rolled(s, turn).hand > s.hand THEN <<Ev("card_drawn")>> ELSE <<>>
<1>8. a \in Seq(Frames) /\ b \in Seq(Frames) /\ d \in Seq(Frames) /\ e \in Seq(Frames)
  BY <1>3, <1>4, <1>6, <1>7
<1>9. RollFrames(s, turn) = a \o b \o d \o e
  BY DEF RollFrames
<1> HIDE DEF a, b, d, e
<1>10. a \o b \o d \o e \in Seq(Frames)
  BY <1>5, <1>8
<1> QED
  BY <1>1, <1>9, <1>10

(* A sequence with one more at its end. *)
LEMMA OneMore ==
  ASSUME NEW S, NEW q \in Seq(S), NEW x \in S
  PROVE  /\ Len(q \o <<x>>) = Len(q) + 1
         /\ \A i \in 1 .. Len(q \o <<x>>) : (q \o <<x>>)[i] = IF i <= Len(q) THEN q[i] ELSE x
OBVIOUS

(* Frames sent reach the connection at the seat, and change nothing else of *)
(* it.                                                                      *)
LEMMA FramesSent ==
  ASSUME NEW k \in Connections, NEW frames \in Seq(Frames)
  PROVE  /\ Sent(k, frames) \in Connections
         /\ Sent(k, frames).kind = k.kind /\ Sent(k, frames).ticket = k.ticket
         /\ Sent(k, frames).retry = k.retry /\ Sent(k, frames).silence = k.silence
         /\ Sent(k, frames).sock.st = k.sock.st /\ Sent(k, frames).sock.seat = k.sock.seat
         /\ Sent(k, frames).sock.live = k.sock.live /\ Sent(k, frames).sock.up = k.sock.up
         /\ Sent(k, frames).sock.dn = IF k.sock.seat THEN k.sock.dn \o frames ELSE k.sock.dn
         /\ Sent(k, frames).held = k.held /\ Sent(k, frames).old = k.old /\ Sent(k, frames).params = k.params
<1>1. k.sock.dn \o frames \in Seq(Frames)
  BY DEF Connections, Sockets
<1> QED
  BY <1>1 DEF Sent, Connections, Sockets
-----------------------------------------------------------------------------
(* Steps of the server change the socket of the connection only. *)
OnlySocket ==
  /\ c'.kind = c.kind /\ c'.ticket = c.ticket /\ c'.retry = c.retry /\ c'.silence = c.silence /\ c'.held = c.held
  /\ c'.sock.st = c.sock.st \/ (c.sock.st = "handshake" /\ c'.sock.st = "accepted")
ServerGoal == c' \in Connections /\ srv' \in Servers /\ OnlySocket /\ Announced'

(* Nothing is to be told where nobody sits and nothing is on its way. *)
LEMMA NobodyAtTheSeat ==
  ASSUME ~c'.sock.seat, Len(c'.sock.dn) = 0
  PROVE  BeginsFirst'
BY DEF BeginsFirst, NoEnd

(* Frames about a match that is running, sent when all others are read:    *)
(* a store still queued has no connection at the seat.                     *)
LEMMA MatchTells ==
  ASSUME IInv, srv.at = "match", c.sock.dn = <<>>, match' = match, srv' \in Servers,
         NEW up \in Seq(Intent), c.sock.up = <<>> => up = <<>>, NEW frames \in Seq(Frames),
         c' = Sent([c EXCEPT !.sock.up = up], frames)
  PROVE  ServerGoal
<1> DEFINE k == [c EXCEPT !.sock.up = up]
<1>1. /\ k \in Connections /\ k.kind = c.kind /\ k.ticket = c.ticket /\ k.retry = c.retry /\ k.silence = c.silence
      /\ k.held = c.held /\ k.sock.st = c.sock.st /\ k.sock.seat = c.sock.seat /\ k.sock.dn = <<>> /\ k.sock.up = up
  BY DEF IInv, Typed, Connections, Sockets
<1> HIDE DEF k
<1>2. /\ c' \in Connections /\ OnlySocket /\ c'.sock.seat = c.sock.seat /\ c'.sock.st = c.sock.st
      /\ c'.sock.up = up
      /\ ~c.sock.seat => c'.sock.dn = <<>>
  BY <1>1, FramesSent DEF OnlySocket, k
<1>3. SilentAtFirst'
  BY <1>2 DEF IInv, Announced, SilentAtFirst, OnlySocket
<1>4. HeldIfOpen'
  BY <1>2 DEF IInv, Announced, HeldIfOpen, OnlySocket
<1>5. match.life = "queued" => ~c.sock.seat
  BY DEF IInv, Announced, BeginsFirst, Told
<1>6. BeginsFirst'
  <2>1. CASE match'.life = "queued"
    <3>1. ~c'.sock.seat /\ Len(c'.sock.dn) = 0
      BY <1>2, <1>5, <2>1
    <3> QED
      BY <3>1, NobodyAtTheSeat
  <2>2. CASE match'.life # "queued"
    BY <2>2 DEF BeginsFirst
  <2> QED
    BY <2>1, <2>2
<1> QED
  BY <1>2, <1>3, <1>4, <1>6 DEF ServerGoal, Announced

(* A connection whose seat is taken away. *)
LEMMA Unseated ==
  ASSUME NEW k \in Connections
  PROVE  LET u == [k EXCEPT !.sock.seat = FALSE]
         IN  /\ u \in Connections /\ u.kind = k.kind /\ u.ticket = k.ticket /\ u.retry = k.retry
             /\ u.silence = k.silence /\ u.held = k.held /\ u.sock.st = k.sock.st /\ u.sock.seat = FALSE /\ u.sock.dn = k.sock.dn
BY DEF Connections, Sockets

(* The server closes the socket at the seat, with its reason. *)
LEMMA ServerCloses ==
  ASSUME IInv, c.sock.seat, match' = match, srv' \in Servers, NEW code \in Code,
         c' = [Sent(c, <<Closes(code)>>) EXCEPT !.sock.seat = FALSE]
  PROVE  ServerGoal
<1>1. c \in Connections /\ srv \in Servers
  BY DEF IInv, Typed
<1>2. Closes(code).type = "close"
  BY DEF Closes
<1> DEFINE frames == <<Closes(code)>>
           sent == Sent(c, frames)
<1>9. frames \in Seq(Frames)
  BY <1>1, FramesOfServer
<1> HIDE DEF frames
<1>3. /\ sent \in Connections /\ sent.kind = c.kind /\ sent.ticket = c.ticket /\ sent.retry = c.retry
      /\ sent.silence = c.silence /\ sent.held = c.held /\ sent.sock.st = c.sock.st /\ sent.sock.dn = c.sock.dn \o frames
  <2>1. /\ sent \in Connections /\ sent.kind = c.kind /\ sent.ticket = c.ticket /\ sent.retry = c.retry
        /\ sent.silence = c.silence /\ sent.held = c.held /\ sent.sock.st = c.sock.st
        /\ sent.sock.dn = IF c.sock.seat THEN c.sock.dn \o frames ELSE c.sock.dn
    BY <1>1, <1>9, FramesSent
  <2> QED
    BY <2>1
<1>4. c' = [sent EXCEPT !.sock.seat = FALSE] /\ frames = <<Closes(code)>>
  BY DEF frames
<1> HIDE DEF sent
<1>5. /\ c' \in Connections /\ OnlySocket /\ c'.sock.st = c.sock.st /\ ~c'.sock.seat
      /\ c'.sock.dn = c.sock.dn \o <<Closes(code)>>
  <2>1. /\ c' \in Connections /\ c'.kind = sent.kind /\ c'.ticket = sent.ticket /\ c'.retry = sent.retry
        /\ c'.silence = sent.silence /\ c'.held = sent.held /\ c'.sock.st = sent.sock.st /\ c'.sock.seat = FALSE /\ c'.sock.dn = sent.sock.dn
    <3> DEFINE u == [sent EXCEPT !.sock.seat = FALSE]
    <3>1. /\ u \in Connections /\ u.kind = sent.kind /\ u.ticket = sent.ticket /\ u.retry = sent.retry
          /\ u.silence = sent.silence /\ u.held = sent.held /\ u.sock.st = sent.sock.st /\ u.sock.seat = FALSE /\ u.sock.dn = sent.sock.dn
      BY <1>3, Unseated
    <3>2. c' = u
      BY <1>4
    <3> HIDE DEF u
    <3> QED
      BY <3>1, <3>2
  <2>2. c'.sock.dn = c.sock.dn \o <<Closes(code)>>
    BY <1>3, <1>4, <2>1
  <2> QED
    BY <1>3, <2>1, <2>2 DEF OnlySocket
<1>6. c.sock.st \notin {"none", "handshake"}
  BY DEF IInv, Announced, SilentAtFirst
<1>7. ASSUME match.life = "queued", NEW i \in 1 .. Len(c'.sock.dn)
      PROVE  c'.sock.dn[i].type # "game_over"
  <2>1. c.sock.dn \in Seq(Frames) /\ Closes(code) \in Frames
    BY <1>1, FramesOfServer DEF Connections, Sockets
  <2>2. /\ Len(c'.sock.dn) = Len(c.sock.dn) + 1
        /\ c'.sock.dn[i] = IF i <= Len(c.sock.dn) THEN c.sock.dn[i] ELSE Closes(code)
    <3>1. /\ Len(c.sock.dn \o <<Closes(code)>>) = Len(c.sock.dn) + 1
          /\ \A j \in 1 .. Len(c.sock.dn \o <<Closes(code)>>) :
                (c.sock.dn \o <<Closes(code)>>)[j] = IF j <= Len(c.sock.dn) THEN c.sock.dn[j] ELSE Closes(code)
      BY <2>1, OneMore
    <3> QED
      BY <1>5, <3>1
  <2>3. CASE i <= Len(c.sock.dn)
    BY <2>1, <2>2, <2>3, <1>7 DEF IInv, Announced, BeginsFirst, NoEnd
  <2>4. CASE ~(i <= Len(c.sock.dn))
    BY <2>2, <2>4, <1>2
  <2> QED
    BY <2>3, <2>4
<1>8. SilentAtFirst' /\ HeldIfOpen'
  BY <1>5, <1>6 DEF SilentAtFirst, HeldIfOpen, IInv, Announced, OnlySocket
<1>10. BeginsFirst'
  BY <1>5, <1>7 DEF BeginsFirst, NoEnd
<1> QED
  BY <1>5, <1>8, <1>10 DEF ServerGoal, Announced

(* Matches begin in their type. *)
LEMMA MatchesBegin ==
  ASSUME NEW turn \in Side
  PROVE  /\ NotPlaying \in Servers
         /\ \A s \in NewMatches(turn) : s \in Servers /\ s.at = "match"
<1>1. NotPlaying \in Servers
  BY DEF NotPlaying, Servers, Side
<1>2. ASSUME NEW topic \in {"cards", "effects", "offers"}
      PROVE  LET s == [NotPlaying EXCEPT !.at = "match", !.turn = turn, !.hand = 1, !.topic = topic]
             IN  s \in Servers /\ s.at = "match"
  BY <1>1 DEF Servers
<1> QED
  BY <1>1, <1>2 DEF NewMatches

(* The upgrade of a connection: at the seat, with nothing sent yet. *)
LEMMA ConnectionAccepted ==
  ASSUME IInv, c.sock.st = "handshake"
  PROVE  LET k == Accepted(c)
         IN  /\ k \in Connections /\ k.kind = c.kind /\ k.ticket = c.ticket /\ k.retry = c.retry
             /\ k.silence = c.silence /\ k.held = c.held /\ k.sock.st = "accepted" /\ k.sock.seat /\ k.sock.dn = <<>>
BY DEF IInv, Typed, Announced, SilentAtFirst, Accepted, Connections, Sockets

(* A match told of from its beginning. *)
LEMMA MatchShown ==
  ASSUME IInv, match' = match, NEW s \in Servers, srv' \in Servers,
         NEW k \in Connections, k.kind = c.kind, k.ticket = c.ticket, k.retry = c.retry, k.silence = c.silence,
         k.held = c.held, k.sock.dn = <<>>,
         \/ k.sock.st = "accepted" /\ c.sock.st = "handshake"
         \/ k.sock.st = c.sock.st /\ k.sock.seat = c.sock.seat /\ k.sock.up = c.sock.up,
         c' = Sent(k, <<Stated(s), HandOf(s)>>)
  PROVE  ServerGoal
<1> DEFINE frames == <<Stated(s), HandOf(s)>>
<1>1. /\ frames \in Seq(Frames) /\ frames # <<>> /\ Len(frames) = 2
      /\ Head(frames).type = "game_state" /\ \A i \in 1 .. 2 : frames[i].type # "game_over"
  <2>1. Len(frames) = 2 /\ frames # <<>>
    OBVIOUS
  <2> QED
    BY <2>1, FramesOfServer
<1> DEFINE sent == Sent(k, frames)
<1>2. c' = sent
  OBVIOUS
<1> HIDE DEF frames
<1>3. /\ sent \in Connections /\ sent.kind = k.kind /\ sent.ticket = k.ticket /\ sent.retry = k.retry
      /\ sent.silence = k.silence /\ sent.held = k.held /\ sent.sock.st = k.sock.st /\ sent.sock.seat = k.sock.seat
      /\ sent.sock.up = k.sock.up /\ sent.sock.dn = IF k.sock.seat THEN k.sock.dn \o frames ELSE k.sock.dn
  BY <1>1, FramesSent
<1> HIDE DEF sent
<1>4. <<>> \o frames = frames
  BY <1>1
<1>5. c'.sock.dn = IF k.sock.seat THEN frames ELSE <<>>
  BY <1>2, <1>3, <1>4
<1>6. OnlySocket
  BY <1>2, <1>3 DEF OnlySocket
<1>7. SilentAtFirst' /\ HeldIfOpen'
  BY <1>2, <1>3, <1>5 DEF SilentAtFirst, HeldIfOpen, IInv, Announced
<1>8. BeginsFirst'
  <2>1. CASE k.sock.seat
    BY <1>1, <1>5, <2>1 DEF BeginsFirst, Told, NoEnd
  <2>2. CASE ~k.sock.seat
    <3>1. ~c'.sock.seat /\ Len(c'.sock.dn) = 0
      BY <1>2, <1>3, <1>5, <2>2
    <3> QED
      BY <3>1, NobodyAtTheSeat
  <2> QED
    BY <2>1, <2>2
<1> QED
  BY <1>2, <1>3, <1>6, <1>7, <1>8 DEF ServerGoal, Announced
(* The same, with what the user sent left where it is. *)
LEMMA MatchTellsAll ==
  ASSUME IInv, srv.at = "match", c.sock.dn = <<>>, match' = match, srv' \in Servers,
         NEW frames \in Seq(Frames), c' = Sent(c, frames)
  PROVE  ServerGoal
<1>1. c.sock.up \in Seq(Intent) /\ c = [c EXCEPT !.sock.up = c.sock.up]
  BY DEF IInv, Typed, Connections, Sockets
<1>2. c' = Sent([c EXCEPT !.sock.up = c.sock.up], frames)
  BY <1>1
<1> QED
  BY <1>1, <1>2, MatchTells

(* The connection is left as it is, and no match begins. *)
LEMMA NothingSent ==
  ASSUME IInv, c' = c, match' = match, srv' \in Servers, srv'.at = "match" => srv.at = "match"
  PROVE  ServerGoal
<1>1. c' \in Connections /\ OnlySocket
  BY DEF IInv, Typed, OnlySocket
<1>2. SilentAtFirst' /\ HeldIfOpen'
  BY DEF IInv, Announced, SilentAtFirst, HeldIfOpen
<1>3. BeginsFirst'
  BY DEF IInv, Announced, BeginsFirst, Told, NoEnd
<1> QED
  BY <1>1, <1>2, <1>3 DEF ServerGoal, Announced

(* What the server holds of a match that goes on. *)
LEMMA MatchGoesOn ==
  ASSUME NEW s \in Servers
  PROVE  /\ Passed(s) \in Servers /\ Passed(s).at = s.at
         /\ Left(s) \in Servers /\ (Left(s).at = "match" => s.at = "match")
         /\ [s EXCEPT !.gone = FALSE] \in Servers /\ [s EXCEPT !.frozen = TRUE] \in Servers
         /\ [s EXCEPT !.offer = "me"] \in Servers /\ [s EXCEPT !.offer = "opp"] \in Servers
         /\ [s EXCEPT !.offer = "none"] \in Servers
         /\ s.hand > 0 => [s EXCEPT !.hand = s.hand - 1] \in Servers
<1>1. NotPlaying \in Servers /\ NotPlaying.at = "none"
  BY MatchesBegin DEF Side, NotPlaying
<1>2. Passed(s) \in Servers /\ Passed(s).at = s.at
  BY DEF Passed, Servers
<1>3. [s EXCEPT !.gone = TRUE] \in Servers /\ [s EXCEPT !.gone = FALSE] \in Servers /\ [s EXCEPT !.frozen = TRUE] \in Servers
  BY DEF Servers
<1>4. /\ [s EXCEPT !.offer = "me"] \in Servers /\ [s EXCEPT !.offer = "opp"] \in Servers
      /\ [s EXCEPT !.offer = "none"] \in Servers
  BY DEF Servers, Side
<1>5. s.hand > 0 => [s EXCEPT !.hand = s.hand - 1] \in Servers
  BY DEF Servers
<1>6. Left(s) \in Servers /\ (Left(s).at = "match" => s.at = "match")
  BY <1>1, <1>3 DEF Left
<1> QED
  BY <1>2, <1>3, <1>4, <1>5, <1>6

(* A frame alone. *)
LEMMA OneFrame ==
  /\ \A type \in Bare : <<Ev(type)>> \in Seq(Frames)
  /\ \A s \in Servers : <<PhaseOf(s)>> \in Seq(Frames)
  /\ \A player \in Side, freezes \in BOOLEAN : <<[type |-> "spell_cast", player |-> player, freezes |-> freezes]>> \in Seq(Frames)
<1>1. \A f \in Frames : <<f>> \in Seq(Frames)
  OBVIOUS
<1>2. \A type \in Bare : Ev(type) \in Frames
  BY DEF Ev, Frames
<1>3. \A player \in Side, freezes \in BOOLEAN : [type |-> "spell_cast", player |-> player, freezes |-> freezes] \in Frames
  BY DEF Frames
<1> QED
  BY <1>1, <1>2, <1>3, FramesOfServer

(* Every step of the server. *)
LEMMA ServerSteps ==
  ASSUME IInv, Server
  PROVE  ServerGoal /\ ClientIdle
<1>1. ClientIdle
  <2>1. \A k, t : Serve(k, t) => ClientIdle
    BY DEF Serve
  <2>2. ServerAccepts \/ MatchStarts \/ ChallengeCloses => ClientIdle
    BY <2>1 DEF ServerAccepts, MatchStarts, ChallengeCloses
  <2>3. OtherTab \/ OtherTabLeaves \/ AbandonTimer \/ PhaseTimer => ClientIdle
    BY <2>1 DEF OtherTab, OtherTabLeaves, AbandonTimer, PhaseTimer
  <2>4. Opponent => ClientIdle
    BY <2>1 DEF Opponent, Over
  <2>5. \A k : \A intent \in Intent : Answer(k, intent) => ClientIdle
    BY <2>1 DEF Answer, Intent
  <2>6. ServerReads => ClientIdle
    <3>1. c.sock.up # <<>> => Head(c.sock.up) \in Intent
      BY DEF IInv, Typed, Connections, Sockets
    <3>2. ASSUME ServerReads, Accepts(Head(c.sock.up)) PROVE ClientIdle
      BY <2>5, <3>1, <3>2 DEF ServerReads
    <3>3. ASSUME ServerReads, ~Accepts(Head(c.sock.up)) PROVE ClientIdle
      BY <2>1, <3>3 DEF ServerReads
    <3> QED
      BY <3>2, <3>3
  <2> QED
    BY <2>2, <2>3, <2>4, <2>6 DEF Server
<1>2. match' = match
  BY <1>1 DEF ClientIdle
<1>3. /\ c \in Connections /\ srv \in Servers /\ c.sock.up \in Seq(Intent) /\ NotPlaying \in Servers
      /\ "me" \in Side /\ "opp" \in Side
  BY MatchesBegin DEF IInv, Typed, Connections, Sockets, Side
<1>4. CASE ServerAccepts
  <2>1. c.sock.st = "handshake"
    BY <1>4 DEF ServerAccepts
  <2> DEFINE k == Accepted(c)
  <2>2. /\ k \in Connections /\ k.kind = c.kind /\ k.ticket = c.ticket /\ k.retry = c.retry
        /\ k.silence = c.silence /\ k.held = c.held /\ k.sock.st = "accepted" /\ k.sock.seat /\ k.sock.dn = <<>>
    BY <2>1, ConnectionAccepted
  <2> HIDE DEF k
  <2>3. CASE c' = Sent(k, <<Stated(srv), HandOf(srv)>>) /\ srv' = [srv EXCEPT !.gone = FALSE]
    <3>1. srv' \in Servers
      BY <1>3, <2>3, MatchGoesOn
    <3>2. c' = Sent(k, <<Stated(srv), HandOf(srv)>>)
      BY <2>3
    <3> QED
      BY <1>1, <1>2, <1>3, <2>1, <2>2, <3>1, <3>2, MatchShown
  <2>4. CASE c' = k /\ srv' = [NotPlaying EXCEPT !.at = "waiting"]
    <3>1. srv' \in Servers /\ srv'.at = "waiting"
      BY <1>3, <2>4 DEF Servers
    <3>2. Len(c'.sock.dn) = 0
      BY <2>2, <2>4
    <3>3. SilentAtFirst' /\ HeldIfOpen'
      BY <2>2, <2>4 DEF SilentAtFirst, HeldIfOpen, IInv, Announced
    <3>4. BeginsFirst'
      BY <3>1, <3>2 DEF BeginsFirst, NoEnd
    <3>5. c' \in Connections /\ OnlySocket
      BY <2>1, <2>2, <2>4 DEF OnlySocket
    <3> QED
      BY <1>1, <3>1, <3>3, <3>4, <3>5 DEF ServerGoal, Announced
  <2>5. ASSUME NEW s \in NewMatches("me"), c' = Sent(k, <<Stated(s), HandOf(s)>>), srv' = s
        PROVE  ServerGoal
    <3>1. s \in Servers
      BY <1>3, <2>5, MatchesBegin
    <3> QED
      BY <1>2, <2>1, <2>2, <2>5, <3>1, MatchShown
  <2>6. ASSUME NEW code \in Code, c' = [c EXCEPT !.sock.st = "accepted", !.sock.dn = <<Closes(code)>>], srv' = srv
        PROVE  ServerGoal
    <3>1. Closes(code) \in Frames /\ Closes(code).type = "close"
      BY <1>3, FramesOfServer DEF Closes
    <3>2. <<Closes(code)>> \in Seq(Frames) /\ Len(<<Closes(code)>>) = 1 /\ <<Closes(code)>>[1] = Closes(code)
      BY <3>1
    <3> DEFINE dn == <<Closes(code)>>
    <3>3. /\ c' = [c EXCEPT !.sock.st = "accepted", !.sock.dn = dn]
          /\ dn \in Seq(Frames) /\ \A i \in 1 .. Len(dn) : dn[i].type # "game_over"
      BY <2>6, <3>1, <3>2
    <3> HIDE DEF dn
    <3>4. ~c.sock.seat
      BY <2>1 DEF IInv, Announced, SilentAtFirst
    <3>5. /\ c' \in Connections /\ c'.kind = c.kind /\ c'.ticket = c.ticket /\ c'.retry = c.retry
          /\ c'.silence = c.silence /\ c'.held = c.held /\ c'.sock.st = "accepted" /\ ~c'.sock.seat /\ c'.sock.dn = dn
      BY <1>3, <3>3, <3>4 DEF Connections, Sockets
    <3>6. SilentAtFirst' /\ HeldIfOpen'
      BY <3>5 DEF SilentAtFirst, HeldIfOpen, IInv, Announced
    <3>7. BeginsFirst'
      BY <3>3, <3>5 DEF BeginsFirst, NoEnd
    <3> QED
      BY <1>3, <2>1, <2>6, <3>5, <3>6, <3>7 DEF ServerGoal, OnlySocket, Announced
  <2>7. \/ c' = Sent(k, <<Stated(srv), HandOf(srv)>>) /\ srv' = [srv EXCEPT !.gone = FALSE]
        \/ c' = k /\ srv' = [NotPlaying EXCEPT !.at = "waiting"]
        \/ \E s \in NewMatches("me") : c' = Sent(k, <<Stated(s), HandOf(s)>>) /\ srv' = s
        \/ \E code \in Code : c' = [c EXCEPT !.sock.st = "accepted", !.sock.dn = <<Closes(code)>>] /\ srv' = srv
    BY <1>4 DEF ServerAccepts, Serve, Code, k
  <2> QED
    BY <1>1, <2>3, <2>4, <2>5, <2>6, <2>7
<1>5. CASE MatchStarts
  <2>1. PICK s \in NewMatches("opp") : c' = Sent(c, <<Stated(s), HandOf(s)>>) /\ srv' = s
    BY <1>5 DEF MatchStarts, Serve
  <2>2. s \in Servers /\ c.sock.dn = <<>>
    BY <1>3, <1>5, MatchesBegin DEF MatchStarts, Read
  <2> QED
    BY <1>1, <1>2, <1>3, <2>1, <2>2, MatchShown
<1>6. CASE ChallengeCloses
  BY <1>1, <1>2, <1>3, <1>6, ServerCloses DEF ChallengeCloses, Serve, Code
<1>7. CASE OtherTab
  <2>1. srv' \in Servers /\ c.sock.seat /\ c' = [Sent(c, <<Closes("4001")>>) EXCEPT !.sock.seat = FALSE]
    BY <1>3, <1>7 DEF OtherTab, Serve
  <2> QED
    BY <1>1, <1>2, <2>1, ServerCloses DEF Code
<1>8. CASE OtherTabLeaves
  BY <1>1, <1>2, <1>3, <1>8, NothingSent, MatchGoesOn DEF OtherTabLeaves, Serve
<1>9. CASE AbandonTimer
  BY <1>1, <1>2, <1>3, <1>9, NothingSent DEF AbandonTimer, Serve, NotPlaying
<1>10. CASE Opponent
  <2>1. srv.at = "match" /\ c.sock.dn = <<>>
    BY <1>10 DEF Opponent, Read
  <2>2. \E frames \in Seq(Frames) : c' = Sent(c, frames) /\ srv' \in Servers
    <3>1. CASE Serve(Sent(c, <<PhaseOf(Passed(srv))>>), Passed(srv))
      BY <1>3, <3>1, OneFrame, MatchGoesOn DEF Serve
    <3>2. CASE Serve(Sent(c, <<[type |-> "spell_cast", player |-> "opp", freezes |-> TRUE]>>), [srv EXCEPT !.frozen = TRUE])
      BY <1>3, <3>2, OneFrame, MatchGoesOn DEF Serve
    <3>3. CASE Serve(Sent(c, RollFrames(srv, "me")), Rolled(srv, "me"))
      BY <1>3, <3>3, TurnRolls DEF Serve
    <3>4. CASE Serve(Sent(c, <<Ev("draw_offer")>>), [srv EXCEPT !.offer = "opp"])
      BY <1>3, <3>4, OneFrame, MatchGoesOn DEF Serve, Bare
    <3>5. CASE Serve(Sent(c, <<Ev("draw_declined")>>), [srv EXCEPT !.offer = "none"])
      BY <1>3, <3>5, OneFrame, MatchGoesOn DEF Serve, Bare
    <3>6. CASE Over
      BY <1>3, <3>6, OneFrame DEF Over, Serve, Bare
    <3> QED
      BY <1>10, <3>1, <3>2, <3>3, <3>4, <3>5, <3>6 DEF Opponent
  <2> QED
    BY <1>1, <1>2, <2>1, <2>2, MatchTellsAll
<1>11. CASE PhaseTimer
  <2>1. srv.at = "match" /\ c.sock.dn = <<>>
    BY <1>11 DEF PhaseTimer, Read
  <2>2. <<PhaseOf(Passed(srv))>> \in Seq(Frames) /\ Passed(srv) \in Servers
    BY <1>3, OneFrame, MatchGoesOn
  <2> QED
    BY <1>1, <1>2, <1>11, <2>1, <2>2, MatchTellsAll DEF PhaseTimer, Serve
<1>12. CASE ServerReads
  <2> DEFINE up == Tail(c.sock.up)
             intent == Head(c.sock.up)
             k == [c EXCEPT !.sock.up = up]
  <2>1. c.sock.dn = <<>> /\ c.sock.up # <<>> /\ up \in Seq(Intent) /\ intent \in Intent
    BY <1>3, <1>12 DEF ServerReads, Read
  <2>2. CASE Accepts(intent)
    <3>1. srv.at = "match"
      BY <2>2 DEF Accepts
    <3>2. Answer(k, intent)
      BY <1>12, <2>2 DEF ServerReads
    <3> HIDE DEF up, intent
    <3>3. CASE intent = "decline"
      <4>1. srv' \in Servers /\ c' = k
        <5>1. c' = k /\ srv' = [srv EXCEPT !.offer = "none"]
          BY <3>2, <3>3 DEF Answer, Serve
        <5> QED
          BY <1>3, <5>1, MatchGoesOn
      <4>2. k = Sent(k, <<>>)
        <5>1. k \in Connections /\ k.sock.dn = <<>>
          BY <1>3, <2>1 DEF Connections, Sockets
        <5> HIDE DEF k
        <5>2. k.sock.dn \o <<>> = k.sock.dn
          BY <5>1
        <5> QED
          BY <5>1, <5>2 DEF Sent, Connections, Sockets
      <4>3. c' = Sent([c EXCEPT !.sock.up = up], <<>>) /\ <<>> \in Seq(Frames)
        BY <4>1, <4>2
      <4> QED
        BY <1>1, <1>2, <2>1, <3>1, <4>1, <4>3, MatchTells
    <3>4. CASE intent # "decline"
      <4>1. \E frames \in Seq(Frames) : c' = Sent(k, frames) /\ srv' \in Servers
        <5> HIDE DEF k
        <5>1. CASE intent = "move"
          BY <1>3, <3>2, <5>1, TurnRolls DEF Answer, Serve
        <5>2. CASE intent = "cast"
          <6>1. srv.hand > 0
            BY <2>2, <5>2 DEF Accepts
          <6> QED
            BY <1>3, <3>2, <5>2, <6>1, OneFrame, MatchGoesOn DEF Answer, Serve
        <5>3. CASE intent = "pass"
          BY <1>3, <3>2, <5>3, OneFrame, MatchGoesOn DEF Answer, Serve
        <5>4. CASE intent = "offer"
          <6>1. c' = Sent(k, <<Ev("draw_offer_sent")>>) /\ srv' = [srv EXCEPT !.offer = "me"]
            BY <3>2, <5>4 DEF Answer, Serve
          <6>2. <<Ev("draw_offer_sent")>> \in Seq(Frames)
            BY OneFrame DEF Bare
          <6> QED
            BY <1>3, <6>1, <6>2, MatchGoesOn
        <5>5. CASE intent \in {"accept", "resign"}
          BY <1>3, <3>2, <5>5, OneFrame DEF Answer, Serve, Bare
        <5> QED
          BY <2>1, <3>4, <5>1, <5>2, <5>3, <5>4, <5>5 DEF Intent
      <4> QED
        BY <1>1, <1>2, <2>1, <3>1, <4>1, MatchTells
    <3> QED
      BY <3>3, <3>4
  <2>3. CASE ~Accepts(intent)
    <3>1. c' = [k EXCEPT !.sock.dn = <<Ev("error")>>] /\ srv' = srv
      BY <1>12, <2>3 DEF ServerReads, Serve
    <3> DEFINE dn == <<Ev("error")>>
    <3>2. dn \in Seq(Frames) /\ Len(dn) = 1 /\ dn[1].type # "game_over"
      <4>1. Ev("error").type = "error"
        BY DEF Ev
      <4> QED
        BY <4>1, OneFrame DEF Bare
    <3>3. c' = [c EXCEPT !.sock.up = up, !.sock.dn = dn]
      BY <1>3, <3>1 DEF Connections, Sockets
    <3> HIDE DEF up, dn, k
    <3>4. /\ c' \in Connections /\ c'.kind = c.kind /\ c'.ticket = c.ticket /\ c'.retry = c.retry
          /\ c'.silence = c.silence /\ c'.held = c.held /\ c'.sock.st = c.sock.st /\ c'.sock.seat = c.sock.seat
          /\ c'.sock.dn = dn
      BY <1>3, <2>1, <3>2, <3>3 DEF Connections, Sockets
    <3>5. c.sock.st \notin {"none", "handshake"}
      BY <2>1 DEF IInv, Announced, SilentAtFirst
    <3>6. SilentAtFirst' /\ HeldIfOpen'
      BY <3>4, <3>5 DEF SilentAtFirst, HeldIfOpen, IInv, Announced
    <3>7. match.life = "queued" => ~(c.sock.seat /\ srv.at = "match")
      BY <2>1 DEF IInv, Announced, BeginsFirst, Told
    <3>8. NoEnd'
      <4>1. c'.sock.dn = dn /\ 1 .. Len(dn) = {1}
        BY <3>2, <3>4
      <4> QED
        BY <3>2, <4>1 DEF NoEnd
    <3>9. BeginsFirst'
      BY <1>2, <3>1, <3>4, <3>7, <3>8 DEF BeginsFirst
    <3> QED
      BY <1>1, <1>3, <3>1, <3>4, <3>6, <3>9 DEF ServerGoal, OnlySocket, Announced
  <2> QED
    BY <2>2, <2>3
<1> QED
  BY <1>4, <1>5, <1>6, <1>7, <1>8, <1>9, <1>10, <1>11, <1>12 DEF Server
-----------------------------------------------------------------------------
(* The same facts, of any connection. *)
Sound(k) ==
  /\ k \in Connections
  /\ k.sock.st \in {"none", "handshake"} => ~k.sock.seat /\ k.sock.dn = <<>> /\ k.sock.up = <<>>
  /\ k.held # <<>> => k.kind = "open"
First(k, s) ==
  /\ k.sock.seat /\ s.at = "match" => k.sock.dn # <<>> /\ Head(k.sock.dn).type = "game_state"
  /\ \A i \in 1 .. Len(k.sock.dn) : k.sock.dn[i].type # "game_over"

(* What the invariant says, in these words. *)
LEMMA SoundNow ==
  ASSUME IInv
  PROVE  /\ Sound(c) /\ DrivenBy(c, match.life)
         /\ match.life = "queued" => First(c, srv)
         /\ match \in Stores /\ srv \in Servers /\ pending \in {"none", "wait", "bot"} /\ saved \in BOOLEAN
         /\ signedIn \in BOOLEAN /\ resuming \in BOOLEAN
         /\ pending # "none" <=> match.life = "queued"
         /\ match.life = "playing" => saved
         /\ match.life = "over" => ~saved
         /\ ~signedIn => match = initialMatchState /\ c.kind \in {"idle", "closed"}
BY DEF IInv, Typed, Announced, SilentAtFirst, HeldIfOpen, BeginsFirst, Told, NoEnd, Sound, First, SessionAgrees

(* What is to be shown of a step of the client. *)
LEMMA SoundNext ==
  ASSUME Sound(c'), DrivenBy(c', match'.life), match'.life = "queued" => First(c', srv'),
         match' \in Stores, srv' \in Servers, pending' \in {"none", "wait", "bot"}, saved' \in BOOLEAN,
         signedIn' \in BOOLEAN, resuming' \in BOOLEAN,
         pending' # "none" <=> match'.life = "queued",
         match'.life = "playing" => saved',
         match'.life = "over" => ~saved',
         ~signedIn' => match' = initialMatchState /\ c'.kind \in {"idle", "closed"}
  PROVE  IInv'
<1>1. Typed'
  BY DEF Typed, Sound
<1>2. DrivenBy(c, match.life)'
  BY DEF DrivenBy
<1>3. SilentAtFirst' /\ HeldIfOpen'
  BY DEF Sound, SilentAtFirst, HeldIfOpen
<1>4. BeginsFirst'
  BY DEF First, BeginsFirst, Told, NoEnd
<1>5. SessionAgrees'
  BY DEF SessionAgrees
<1> QED
  BY <1>1, <1>2, <1>3, <1>4, <1>5 DEF IInv, Announced

(* A change of the store arms the timer of silence, and nothing else. *)
LEMMA Armed ==
  ASSUME NEW k, Sound(k), NEW before, DrivenBy(k, before), NEW life
  PROVE  LET a == armSilence(k, life)
         IN  /\ Sound(a) /\ DrivenBy(a, life) /\ a.kind = k.kind /\ a.sock = k.sock
BY DEF armSilence, Sound, DrivenBy, Connections

(* Where a change of the connection, of the store and of what is waited    *)
(* for is sound, so is what follows from it.                               *)
LEMMA BecomesSound ==
  ASSUME IInv, NEW k, NEW m \in Stores, NEW p \in {"none", "wait", "bot"}, Becomes(k, m, p),
         Sound(k), DrivenBy(k, match.life), srv' \in Servers, signedIn' \in BOOLEAN,
         m.life = "queued" => First(k, srv') /\ p # "none",
         m.life \in {"idle", "playing"} /\ m.life = match.life => p = "none",
         m.life = "over" => p = "none",
         ~signedIn' => m = initialMatchState /\ k.kind \in {"idle", "closed"}
  PROVE  IInv'
<1> USE SoundNow
<1>1. match' = m
  BY DEF Becomes
<1>2. Sound(c') /\ DrivenBy(c', m.life) /\ c'.kind = k.kind /\ c'.sock = k.sock
  <2>1. CASE m.life = match.life
    BY <2>1 DEF Becomes
  <2>2. CASE m.life # match.life
    <3>1. c' = armSilence(k, m.life)
      BY <2>2 DEF Becomes
    <3> QED
      BY <3>1, Armed
  <2> QED
    BY <2>1, <2>2
<1>3. m.life = "queued" => First(c', srv')
  BY <1>2 DEF First
<1>4. pending' \in {"none", "wait", "bot"} /\ resuming' \in BOOLEAN
  BY DEF Becomes
<1>5. m.life \in {"idle", "queued", "playing", "over"}
  BY DEF Stores
<1>6. pending' # "none" <=> m.life = "queued"
  BY <1>5 DEF Becomes
<1>7. saved' \in BOOLEAN /\ (m.life = "playing" => saved') /\ (m.life = "over" => ~saved')
  BY DEF Becomes
<1> QED
  BY <1>1, <1>2, <1>3, <1>4, <1>6, <1>7, SoundNext

(* The same, where neither the store nor what is waited for changes. *)
LEMMA StaysSound ==
  ASSUME IInv, NEW k, Stays(k), Sound(k), DrivenBy(k, match.life), srv' \in Servers, signedIn' = signedIn,
         match.life = "queued" => First(k, srv'),
         ~signedIn => k.kind \in {"idle", "closed"}
  PROVE  IInv'
BY SoundNow, BecomesSound DEF Stays, Stores
-----------------------------------------------------------------------------
(* What the functions of the connection make of one: it is sound and       *)
(* driven again, and they leave its socket alone or drop it.               *)
Fresh(k) == Sound(k) /\ k.sock = NoSocket

(* No socket: nothing sent, received or to be read. *)
LEMMA NoSocketIsASocket ==
  /\ NoSocket \in Sockets /\ NoSocket.st = "none" /\ ~NoSocket.seat /\ ~NoSocket.live
  /\ NoSocket.dn = <<>> /\ NoSocket.up = <<>>
<1>1. <<>> \in Seq(Frames) /\ <<>> \in Seq(Intent)
  OBVIOUS
<1> QED
  BY <1>1 DEF NoSocket, Sockets

(* A connection without frames to be read, and without a seat, has nothing *)
(* to tell first.                                                          *)
LEMMA NothingFirst ==
  ASSUME NEW k, NEW s, ~k.sock.seat, k.sock.dn = <<>>
  PROVE  First(k, s)
<1>1. Len(k.sock.dn) = 0
  OBVIOUS
<1> QED
  BY <1>1 DEF First

(* dropSocket, in a new generation: nothing is waited for over it. *)
LEMMA Dropped ==
  ASSUME NEW k, Sound(k)
  PROVE  LET d == dropSocket(NewGeneration(k))
         IN  Fresh(d) /\ ~d.silence /\ ~d.ticket /\ d.kind = k.kind /\ d.retry = k.retry /\ d.held = <<>>
<1>1. k \in Connections /\ <<>> \in Seq(Intent)
  BY DEF Sound
<1>2. (k.old \/ k.sock.seat) \in BOOLEAN
  OBVIOUS
<1> DEFINE d == dropSocket(NewGeneration(k))
<1>3. d = [k EXCEPT !.ticket = FALSE, !.sock = NoSocket, !.silence = FALSE, !.held = <<>>, !.old = k.old \/ k.sock.seat]
  BY <1>1 DEF dropSocket, NewGeneration, Connections
<1>4. /\ d \in Connections /\ d.sock = NoSocket /\ ~d.silence /\ ~d.ticket /\ d.kind = k.kind /\ d.retry = k.retry
      /\ d.held = <<>>
  BY <1>1, <1>2, <1>3, NoSocketIsASocket DEF Connections
<1> HIDE DEF d
<1>5. Fresh(d)
  BY <1>4, NoSocketIsASocket DEF Fresh, Sound
<1> QED
  BY <1>4, <1>5 DEF d

(* close: the connection is idle or closed, and nothing will move it. *)
LEMMA Closed ==
  ASSUME NEW k, Sound(k)
  PROVE  /\ Fresh(close(k)) /\ close(k).kind \in {"idle", "closed"}
         /\ \A life : DrivenBy(close(k), life)
<1> DEFINE d == dropSocket(NewGeneration(k))
           kind == IF d.kind \in {"idle", "closed"} THEN d.kind ELSE "closed"
<1>1. Fresh(d) /\ ~d.silence /\ ~d.ticket /\ d.held = <<>>
  BY Dropped
<1>2. close(k) = [d EXCEPT !.retry = FALSE, !.kind = kind]
  BY DEF close
<1> HIDE DEF d
<1>3. kind \in {"idle", "closed"} /\ kind \in Kinds
  BY DEF Kinds, Stopped
<1> HIDE DEF kind
<1>4. /\ close(k) \in Connections /\ close(k).kind = kind /\ ~close(k).retry /\ ~close(k).silence /\ ~close(k).ticket
      /\ close(k).held = <<>> /\ close(k).sock = NoSocket
  BY <1>1, <1>2, <1>3 DEF Fresh, Sound, Connections
<1> QED
  BY <1>3, <1>4, NoSocketIsASocket DEF Fresh, Sound, DrivenBy

(* A request for a ticket, where there is no socket and nothing runs. *)
LEMMA Connected ==
  ASSUME NEW k, Sound(k), k.sock.st = "none", ~k.retry, ~k.silence, k.held = <<>>
  PROVE  /\ Sound(connect(k)) /\ connect(k).sock = k.sock /\ connect(k).kind = "connecting"
         /\ \A life : DrivenBy(connect(k), life)
<1> DEFINE n == connect(k)
<1>1. n = [k EXCEPT !.ticket = TRUE, !.kind = "connecting"]
  BY DEF connect, NewGeneration, Sound, Connections
<1>2. "connecting" \in Kinds
  BY DEF Kinds
<1>3. n \in Connections /\ n.kind = "connecting" /\ n.ticket /\ ~n.retry /\ ~n.silence /\ n.held = <<>> /\ n.sock = k.sock
  BY <1>1, <1>2 DEF Sound, Connections
<1> HIDE DEF n
<1> QED
  BY <1>3 DEF Sound, DrivenBy, n

(* open: a stopped connection asks for a ticket, another is left alone. *)
LEMMA Opened ==
  ASSUME NEW k, Sound(k), NEW life, DrivenBy(k, life), NEW params \in {"same", "wait", "bot"}
  PROVE  Sound(open(k, params)) /\ DrivenBy(open(k, params), life) /\ open(k, params).sock = k.sock
<1>1. CASE k.kind \notin Stopped
  BY <1>1 DEF open
<1>2. CASE k.kind \in Stopped
  <2> DEFINE n == [k EXCEPT !.params = IF params = "same" THEN k.params ELSE params]
  <2>1. open(k, params) = connect(n)
    BY <1>2 DEF open
  <2>2. k.sock.st = "none" /\ ~k.retry /\ ~k.silence /\ k.held = <<>>
    <3>1. k.kind \notin {"connecting", "open", "reconnecting"}
      BY <1>2 DEF Stopped
    <3> QED
      BY <3>1 DEF DrivenBy, Sound, Connections, Sockets
  <2>3. /\ n \in Connections /\ n.kind = k.kind /\ n.retry = k.retry /\ n.silence = k.silence /\ n.held = k.held
        /\ n.sock = k.sock
    BY DEF Sound, Connections
  <2> HIDE DEF n
  <2>4. Sound(n)
    BY <2>3 DEF Sound
  <2> QED
    BY <2>1, <2>2, <2>3, <2>4, Connected
<1> QED
  BY <1>1, <1>2

(* The next attempt is waited for, where there is no socket. *)
LEMMA Retries ==
  ASSUME NEW k, Sound(k), k.sock.st = "none", ~k.ticket, ~k.silence, k.held = <<>>
  PROVE  /\ Sound(scheduleRetry(k)) /\ scheduleRetry(k).sock = k.sock
         /\ \A life : DrivenBy(scheduleRetry(k), life)
<1> DEFINE n == scheduleRetry(k)
<1>1. "reconnecting" \in Kinds
  BY DEF Kinds
<1>2. n \in Connections /\ n.kind = "reconnecting" /\ n.retry /\ ~n.ticket /\ ~n.silence /\ n.held = <<>> /\ n.sock = k.sock
  BY <1>1 DEF scheduleRetry, Sound, Connections
<1> HIDE DEF n
<1> QED
  BY <1>2 DEF Sound, DrivenBy, n

(* The timer of the next attempt, the network that comes back: one request *)
(* more, in place of the timer.                                            *)
LEMMA TriesAgain ==
  ASSUME NEW k, Sound(k), NEW life, DrivenBy(k, life), k.kind = "reconnecting"
  PROVE  LET n == connect([k EXCEPT !.retry = FALSE]) IN Sound(n) /\ DrivenBy(n, life) /\ n.sock = k.sock
<1> DEFINE n == [k EXCEPT !.retry = FALSE]
<1>1. k.sock.st = "none" /\ ~k.silence /\ k.held = <<>>
  BY DEF DrivenBy, Sound, Connections, Sockets
<1>2. n \in Connections /\ n.kind = k.kind /\ ~n.retry /\ n.silence = k.silence /\ n.held = k.held /\ n.sock = k.sock
  BY DEF Sound, Connections
<1> HIDE DEF n
<1>3. Sound(n)
  BY <1>2 DEF Sound
<1> QED
  BY <1>1, <1>2, <1>3, Connected DEF n

(* The end of a socket: tried again, or stopped for a reason. *)
LEMMA OnClosed ==
  ASSUME NEW k, Sound(k), NEW life, DrivenBy(k, life), k.sock.st # "none", NEW code \in Code \cup {"1006"}
  PROVE  Fresh(onClose(k, code)) /\ \A after : DrivenBy(onClose(k, code), after)
<1> DEFINE gone == [k EXCEPT !.sock = NoSocket, !.silence = FALSE, !.held = <<>>]
<1>1. ~k.ticket /\ ~k.retry
  BY DEF DrivenBy, Sound, Connections, Sockets
<1>2. <<>> \in Seq(Intent)
  OBVIOUS
<1>3. /\ gone \in Connections /\ gone.sock = NoSocket /\ ~gone.silence /\ gone.held = <<>> /\ gone.kind = k.kind
      /\ ~gone.ticket /\ ~gone.retry
  BY <1>1, <1>2, NoSocketIsASocket DEF Sound, Connections
<1>4. onClose(k, code) = IF StatusOf(code) = "reconnecting" THEN scheduleRetry(gone) ELSE [gone EXCEPT !.kind = StatusOf(code)]
  BY DEF onClose
<1> HIDE DEF gone
<1>5. Sound(gone) /\ gone.sock.st = "none"
  BY <1>3, NoSocketIsASocket DEF Sound
<1>6. CASE StatusOf(code) = "reconnecting"
  BY <1>3, <1>4, <1>5, <1>6, Retries DEF Fresh
<1>7. CASE StatusOf(code) # "reconnecting"
  <2>1. StatusOf(code) \in {"replaced", "deck_invalid", "challenge_closed", "bot_unavailable"}
    BY <1>7 DEF StatusOf, Code
  <2>2. StatusOf(code) \in Kinds
    BY <2>1 DEF Kinds, Stopped
  <2> DEFINE status == StatusOf(code)
             n == [gone EXCEPT !.kind = status]
  <2>3. status \in Kinds /\ status \notin {"connecting", "open", "reconnecting"}
    BY <2>1, <2>2
  <2>4. onClose(k, code) = n
    BY <1>4, <1>7
  <2> HIDE DEF status
  <2>5. n \in Connections /\ n.kind = status /\ n.sock = NoSocket /\ ~n.silence /\ ~n.ticket /\ ~n.retry /\ n.held = <<>>
    BY <1>3, <2>3 DEF Connections
  <2> HIDE DEF n
  <2> QED
    BY <2>3, <2>4, <2>5, NoSocketIsASocket DEF Fresh, Sound, DrivenBy
<1> QED
  BY <1>6, <1>7
-----------------------------------------------------------------------------
(* A frame leaves the life of the store, begins a match or ends one. *)
LEMMA EventApplied ==
  ASSUME NEW s \in Stores, NEW e \in Frames \cup [type : {"timer_update"}, turn : Side], e.type # "close"
  PROVE  /\ applyServerEvent(s, e) \in Stores
         /\ applyServerEvent(s, e).life \in {s.life, "playing", "over"}
         /\ e.type # "game_over" => applyServerEvent(s, e).life \in {s.life, "playing"}
         /\ s.life # "over" /\ e.type = "game_state" => applyServerEvent(s, e).life = "playing"
         /\ e.type # "game_state" => applyServerEvent(s, e).life \in {s.life, "over"}
<1> DEFINE t == applyServerEvent(s, e)
<1>1. CASE s.life = "over" /\ e.type # "error"
  BY <1>1 DEF applyServerEvent
<1>2. CASE ~(s.life = "over" /\ e.type # "error") /\ e.type = "game_state"
  <2>1. t = GameState(s, e) /\ e.turn \in Side /\ e.phase \in {"main", "move"} /\ e.moves \in Nat /\ e.frozen \in BOOLEAN
    BY <1>2 DEF applyServerEvent, Frames, Bare
  <2>2. (s.incoming /\ ~MovedByMe(s, e)) \in BOOLEAN
    OBVIOUS
  <2> DEFINE incoming == s.incoming /\ ~MovedByMe(s, e)
  <2>3. t = [s EXCEPT !.life = "playing", !.turn = e.turn, !.phase = e.phase, !.moves = e.moves, !.frozen = e.frozen,
                      !.clock = e.turn, !.incoming = incoming, !.optimistic = FALSE, !.cast = FALSE]
    BY <2>1 DEF GameState
  <2>4. incoming \in BOOLEAN
    BY <2>2
  <2> HIDE DEF incoming, t
  <2>5. t \in Stores /\ t.life = "playing"
    BY <2>1, <2>3, <2>4 DEF Stores
  <2> QED
    BY <1>2, <2>5 DEF t
<1>3. CASE ~(s.life = "over" /\ e.type # "error") /\ e.type = "game_over"
  <2>1. t = [s EXCEPT !.life = "over", !.incoming = FALSE, !.outgoing = FALSE, !.clock = IF s.clock = "none" THEN s.clock ELSE "stopped"]
    BY <1>3 DEF applyServerEvent, GameOver
  <2> QED
    BY <1>3, <2>1 DEF Stores
<1>4. CASE ~(s.life = "over" /\ e.type # "error") /\ e.type \in {"hand", "card_drawn", "spell_cast"}
  <2>1. CASE e.type = "hand"
    <3>1. t = [s EXCEPT !.hand = e.cards] /\ e.cards \in Nat
      BY <1>4, <2>1 DEF applyServerEvent, HandEvent, Frames, Bare
    <3> QED
      BY <2>1, <3>1 DEF Stores
  <2>2. CASE e.type = "card_drawn"
    <3>1. t = [s EXCEPT !.hand = s.hand + 1] /\ s.hand + 1 \in Nat
      BY <1>4, <2>2 DEF applyServerEvent, CardDrawn, Stores
    <3> QED
      BY <2>2, <3>1 DEF Stores
  <2>3. CASE e.type = "spell_cast"
    <3> DEFINE hand == IF e.player = "me" /\ s.hand > 0 THEN s.hand - 1 ELSE s.hand
               frozen == HasGame(s) /\ (s.frozen \/ e.freezes)
               cast == s.cast /\ e.player # "me"
    <3>1. hand \in Nat /\ frozen \in BOOLEAN /\ cast \in BOOLEAN
      BY DEF Stores
    <3>2. t = [s EXCEPT !.hand = hand, !.frozen = frozen, !.cast = cast]
      BY <1>4, <2>3 DEF applyServerEvent, SpellCast
    <3> HIDE DEF hand, frozen, cast
    <3> QED
      BY <2>3, <3>1, <3>2 DEF Stores
  <2> QED
    BY <1>4, <2>1, <2>2, <2>3
<1>5. CASE ~(s.life = "over" /\ e.type # "error") /\ e.type \in {"phase_changed", "timer_update"}
  <2>1. e.turn \in Side /\ (e.type = "phase_changed" => e.phase \in {"main", "move"})
    BY <1>5 DEF Frames, Bare
  <2>2. CASE e.type = "timer_update" \/ ~HasGame(s)
    <3>1. t = [s EXCEPT !.clock = e.turn]
      BY <1>5, <2>2 DEF applyServerEvent, TimerUpdate, PhaseChanged
    <3> QED
      BY <1>5, <2>1, <3>1 DEF Stores
  <2>3. CASE ~(e.type = "timer_update" \/ ~HasGame(s))
    <3>1. t = [s EXCEPT !.turn = e.turn, !.phase = e.phase, !.clock = e.turn]
      BY <1>5, <2>3 DEF applyServerEvent, PhaseChanged
    <3> QED
      BY <1>5, <2>1, <2>3, <3>1 DEF Stores
  <2> QED
    BY <2>2, <2>3
<1>6. CASE ~(s.life = "over" /\ e.type # "error")
           /\ e.type \in {"effect_expired", "error", "draw_offer", "draw_offer_sent", "draw_declined"}
  <2>1. t \in {[s EXCEPT !.frozen = FALSE], [s EXCEPT !.optimistic = FALSE, !.cast = FALSE], [s EXCEPT !.incoming = TRUE],
               [s EXCEPT !.outgoing = TRUE], [s EXCEPT !.outgoing = FALSE]}
    BY <1>6 DEF applyServerEvent, EffectExpired, Refusal, DrawOffer, DrawOfferSent, DrawDeclined
  <2>2. [s EXCEPT !.frozen = FALSE] \in Stores /\ [s EXCEPT !.frozen = FALSE].life = s.life
    BY DEF Stores
  <2>3. LET n == [s EXCEPT !.optimistic = FALSE, !.cast = FALSE] IN n \in Stores /\ n.life = s.life
    BY DEF Stores
  <2>4. [s EXCEPT !.incoming = TRUE] \in Stores /\ [s EXCEPT !.incoming = TRUE].life = s.life
    BY DEF Stores
  <2>5. \A sent \in BOOLEAN : [s EXCEPT !.outgoing = sent] \in Stores /\ [s EXCEPT !.outgoing = sent].life = s.life
    BY DEF Stores
  <2> HIDE DEF t
  <2>6. t \in Stores /\ t.life = s.life
    BY <2>1, <2>2, <2>3, <2>4, <2>5
  <2> QED
    BY <1>6, <2>6 DEF t
<1>7. e.type \in {"game_state", "hand", "phase_changed", "spell_cast", "timer_update"} \cup Bare
  BY DEF Frames
<1> QED
  BY <1>1, <1>2, <1>3, <1>4, <1>5, <1>6, <1>7 DEF Bare

(* The store of a client that has no match: not in the queue, not playing. *)
LEMMA StoresBegin ==
  /\ initialMatchState \in Stores /\ initialMatchState.life = "idle"
  /\ \A s : enterQueue(s) \in Stores /\ enterQueue(s).life = "queued"
<1>1. initialMatchState \in Stores /\ initialMatchState.life = "idle"
  BY DEF initialMatchState, Stores, Side
<1> QED
  BY <1>1 DEF enterQueue, Stores
(* The connection before anything is asked for. *)
LEMMA IdleIsSound ==
  Sound(Idle) /\ Idle.kind = "idle" /\ Idle.sock = NoSocket /\ \A life : DrivenBy(Idle, life)
<1>1. "idle" \in Kinds /\ <<>> \in Seq(Intent)
  BY DEF Kinds, Stopped
<1>2. Idle \in Connections /\ Idle.kind = "idle" /\ Idle.sock = NoSocket /\ Idle.held = <<>>
  BY <1>1, NoSocketIsASocket DEF Idle, Connections
<1>3. ~Idle.ticket /\ ~Idle.retry /\ ~Idle.silence
  BY DEF Idle
<1> QED
  BY <1>2, <1>3, NoSocketIsASocket DEF Sound, DrivenBy

(* A connection that goes leaves the match to be played, or ends the wait. *)
LEMMA LeavingKeeps ==
  ASSUME NEW s \in Servers
  PROVE  Left(s) \in Servers /\ (Left(s).at = "match" => s.at = "match")
<1>1. NotPlaying \in Servers /\ NotPlaying.at = "none"
  BY DEF NotPlaying, Servers, Side
<1>2. CASE s.at = "match"
  BY <1>2 DEF Left, Servers
<1>3. CASE s.at # "match"
  BY <1>1, <1>3 DEF Left
<1> QED
  BY <1>2, <1>3
-----------------------------------------------------------------------------
(* The steps of the user. *)
LEMMA UserSteps ==
  ASSUME IInv, User
  PROVE  IInv'
<1> USE SoundNow
<1>1. ASSUME NEW what \in {"wait", "bot"}, Enters(what)
      PROVE  IInv'
  <2> DEFINE k == open(close(c), what)
             m == enterQueue(match)
  <2>1. Becomes(k, m, what) /\ srv' = srv /\ signedIn' = signedIn /\ signedIn
    BY <1>1 DEF Enters, ServerIdle
  <2>2. Sound(close(c)) /\ DrivenBy(close(c), match.life) /\ close(c).sock = NoSocket
    BY Closed DEF Fresh
  <2>3. Sound(k) /\ DrivenBy(k, match.life) /\ k.sock = NoSocket
    BY <2>2, Opened
  <2>4. m \in Stores /\ m.life = "queued"
    BY StoresBegin
  <2> HIDE DEF k, m
  <2>5. First(k, srv')
    BY <2>3, NothingFirst, NoSocketIsASocket
  <2> QED
    BY <2>1, <2>3, <2>4, <2>5, BecomesSound
<1>2. ASSUME cancel
      PROVE  IInv'
  <2>1. Becomes(close(c), initialMatchState, pending) /\ srv' = srv /\ signedIn' = signedIn /\ match.life = "queued"
    BY <1>2 DEF cancel, ServerIdle
  <2>2. Sound(close(c)) /\ DrivenBy(close(c), match.life) /\ close(c).kind \in {"idle", "closed"}
    BY Closed DEF Fresh
  <2> QED
    BY <2>1, <2>2, StoresBegin, BecomesSound
<1>3. ASSUME Forgets, srv' = srv, signedIn' = signedIn
      PROVE  IInv'
  <2>1. /\ c' = close(c) /\ match' = initialMatchState /\ pending' = "none" /\ saved' = FALSE /\ resuming' = FALSE
    BY <1>3 DEF Forgets
  <2>2. Sound(c') /\ DrivenBy(c', match'.life) /\ c'.kind \in {"idle", "closed"}
    BY <2>1, Closed DEF Fresh
  <2> QED
    BY <1>3, <2>1, <2>2, StoresBegin, SoundNext
<1>4. ASSUME resumeSaved
      PROVE  IInv'
  <2>1. /\ c' = open(c, "same") /\ resuming' = TRUE /\ match' = match /\ pending' = pending /\ saved' = saved
        /\ srv' = srv /\ signedIn' = signedIn /\ signedIn /\ match.life = "idle"
    BY <1>4 DEF resumeSaved, ServerIdle
  <2>2. Sound(c') /\ DrivenBy(c', match'.life)
    BY <2>1, Opened
  <2> QED
    BY <2>1, <2>2, SoundNext
<1>5. ASSUME resumeHere
      PROVE  IInv'
  <2> DEFINE k == open(c, "same")
  <2>1. Stays(k) /\ srv' = srv /\ signedIn' = signedIn /\ c.kind = "replaced"
    BY <1>5 DEF resumeHere, ServerIdle
  <2>2. Sound(k) /\ DrivenBy(k, match.life) /\ k.sock = c.sock
    BY Opened
  <2> HIDE DEF k
  <2>3. match.life = "queued" => First(k, srv')
    BY <2>1, <2>2 DEF First
  <2> QED
    BY <2>1, <2>2, <2>3, StaysSound
<1>6. ASSUME SignOut
      PROVE  IInv'
  <2>1. Becomes(close(c), initialMatchState, pending) /\ srv' = srv /\ signedIn' = FALSE
    BY <1>6 DEF SignOut
  <2>2. Sound(close(c)) /\ DrivenBy(close(c), match.life) /\ close(c).kind \in {"idle", "closed"}
    BY Closed DEF Fresh
  <2>3. initialMatchState.life = match.life => pending = "none"
    BY StoresBegin
  <2> QED
    BY <2>1, <2>2, <2>3, StoresBegin, BecomesSound
<1>7. ASSUME SignIn
      PROVE  IInv'
  <2>1. /\ c' = c /\ match' = match /\ pending' = pending /\ saved' = saved /\ resuming' = resuming /\ srv' = srv
        /\ signedIn' = TRUE
    BY <1>7 DEF SignIn
  <2> QED
    BY <2>1, SoundNext
<1>8. ASSUME Reload
      PROVE  IInv'
  <2>1. /\ c' = Idle /\ match' = initialMatchState /\ pending' = "none" /\ resuming' = FALSE
        /\ srv' = (IF Seated THEN Left(srv) ELSE srv) /\ saved' = saved /\ signedIn' = signedIn
    BY <1>8 DEF Reload
  <2>2. Sound(c') /\ DrivenBy(c', match'.life) /\ c'.kind = "idle"
    BY <2>1, IdleIsSound
  <2>3. srv' \in Servers
    BY <2>1, LeavingKeeps
  <2> QED
    BY <2>1, <2>2, <2>3, StoresBegin, SoundNext
<1>9. ASSUME Online
      PROVE  IInv'
  <2> DEFINE k == connect([c EXCEPT !.retry = FALSE])
  <2>1. Stays(k) /\ srv' = srv /\ signedIn' = signedIn /\ c.kind = "reconnecting"
    BY <1>9 DEF Online, nudge, ServerIdle
  <2>2. Sound(k) /\ DrivenBy(k, match.life) /\ k.sock = c.sock
    BY <2>1, TriesAgain
  <2> HIDE DEF k
  <2>3. match.life = "queued" => First(k, srv')
    BY <2>1, <2>2 DEF First
  <2> QED
    BY <2>1, <2>2, <2>3, StaysSound
<1>10. ASSUME AppResumed
       PROVE  IInv'
  <2> DEFINE n == [c EXCEPT !.retry = FALSE]
             k == connect(dropSocket(n))
  <2>1. Stays(wake(c)) /\ wake(c) = k /\ srv' = srv /\ signedIn' = signedIn /\ c.kind \notin Stopped
    BY <1>10 DEF AppResumed, wake, ServerIdle
  <2>2. Sound(n) /\ ~n.retry
    BY DEF Sound, Connections
  <2> HIDE DEF n
  <2> DEFINE d == dropSocket(NewGeneration(n))
  <2>3. Fresh(d) /\ ~d.silence /\ ~d.retry /\ d.held = <<>>
    BY <2>2, Dropped
  <2>4. k = connect(d)
    BY <2>2 DEF connect, NewGeneration, dropSocket, Sound, Connections
  <2> HIDE DEF d, k
  <2>5. Sound(k) /\ DrivenBy(k, match.life) /\ k.sock = NoSocket
    BY <2>3, <2>4, Connected, NoSocketIsASocket DEF Fresh
  <2>6. First(k, srv')
    BY <2>5, NothingFirst, NoSocketIsASocket
  <2>7. signedIn
    BY <2>1 DEF Stopped
  <2> QED
    BY <2>1, <2>5, <2>6, <2>7, StaysSound
<1>11. findMatch \/ joinChallenge \/ playBot => IInv'
  BY <1>1 DEF findMatch, joinChallenge, playBot
<1>12. leave \/ ResumeTimeout => IInv'
  BY <1>3 DEF leave, ResumeTimeout, ServerIdle
<1> QED
  BY <1>2, <1>4, <1>5, <1>6, <1>7, <1>8, <1>9, <1>10, <1>11, <1>12 DEF User
-----------------------------------------------------------------------------
(* A frame is taken from the socket: those behind it are still to be read. *)
LEMMA FrameTaken ==
  ASSUME NEW k, Sound(k), NEW life, DrivenBy(k, life), k.sock.st = "open", k.sock.dn # <<>>
  PROVE  LET n == [k EXCEPT !.sock.dn = Tail(k.sock.dn)]
         IN  /\ Sound(n) /\ DrivenBy(n, life) /\ n.kind = "open" /\ n.sock.st = "open" /\ n.sock.seat = k.sock.seat
             /\ n.sock.dn = Tail(k.sock.dn) /\ Head(k.sock.dn) \in Frames
             /\ \A i \in 1 .. Len(n.sock.dn) : i + 1 \in 1 .. Len(k.sock.dn) /\ n.sock.dn[i] = k.sock.dn[i + 1]
<1> DEFINE q == k.sock.dn
           t == Tail(q)
           n == [k EXCEPT !.sock.dn = t]
<1>1. q \in Seq(Frames) /\ k \in Connections
  BY DEF Sound, Connections, Sockets
<1> HIDE DEF q
<1>2. /\ t \in Seq(Frames) /\ Head(q) \in Frames
      /\ \A i \in 1 .. Len(t) : i + 1 \in 1 .. Len(q) /\ t[i] = q[i + 1]
  BY <1>1 DEF q
<1> HIDE DEF t
<1>3. /\ n \in Connections /\ n.kind = k.kind /\ n.ticket = k.ticket /\ n.retry = k.retry /\ n.silence = k.silence
      /\ n.held = k.held /\ n.sock.st = "open" /\ n.sock.seat = k.sock.seat /\ n.sock.dn = t
  BY <1>1, <1>2 DEF Connections, Sockets
<1> HIDE DEF n
<1>4. Sound(n) /\ DrivenBy(n, life) /\ n.kind = "open"
  BY <1>3 DEF Sound, DrivenBy
<1> QED
  BY <1>2, <1>3, <1>4 DEF n, t, q

(* The first frame not read is applied: of a match that begins, of one     *)
(* that goes on or ends, or of the end of the socket.                      *)
LEMMA FrameDelivered ==
  ASSUME IInv, Deliver
  PROVE  IInv'
<1> USE SoundNow
<1> DEFINE k == [c EXCEPT !.sock.dn = Tail(c.sock.dn)]
           e == Head(c.sock.dn)
<1>1. OnFrame(k, e) /\ c.sock.st = "open" /\ c.sock.dn # <<>> /\ srv' = srv /\ signedIn' = signedIn
  BY DEF Deliver, ServerIdle
<1>2. /\ Sound(k) /\ DrivenBy(k, match.life) /\ k.kind = "open" /\ k.sock.st = "open" /\ k.sock.seat = c.sock.seat
      /\ \A i \in 1 .. Len(k.sock.dn) : i + 1 \in 1 .. Len(c.sock.dn) /\ k.sock.dn[i] = c.sock.dn[i + 1]
      /\ e \in Frames
  BY <1>1, FrameTaken
<1>3. signedIn
  BY <1>1 DEF DrivenBy
<1>4. match.life = "queued" => e.type # "game_over" /\ (c.sock.seat /\ srv.at = "match" => e.type = "game_state")
  <2>1. 1 \in 1 .. Len(c.sock.dn) /\ e = c.sock.dn[1]
    BY <1>1 DEF Sound, Connections, Sockets
  <2> QED
    BY <2>1 DEF First
<1>5. match.life = "queued" => \A i \in 1 .. Len(k.sock.dn) : k.sock.dn[i].type # "game_over"
  BY <1>2 DEF First
<1> HIDE DEF k, e
<1>6. CASE e.type = "close"
  <2>1. Stays(onClose(k, e.code)) /\ e.code \in Code
    BY <1>1, <1>2, <1>6 DEF OnFrame, Frames, Bare
  <2> DEFINE n == onClose(k, e.code)
  <2>2. Sound(n) /\ DrivenBy(n, match.life) /\ n.sock = NoSocket
    BY <1>2, <2>1, OnClosed DEF Fresh
  <2>3. Stays(n)
    BY <2>1
  <2> HIDE DEF n
  <2>4. First(n, srv')
    BY <2>2, NothingFirst, NoSocketIsASocket
  <2> QED
    BY <1>1, <1>3, <2>2, <2>3, <2>4, StaysSound
<1>7. CASE e.type # "close"
  <2> DEFINE n == armSilence(k, match.life)
             m == applyServerEvent(match, e)
  <2>1. Becomes(n, m, pending)
    BY <1>1, <1>7 DEF OnFrame
  <2>2. Sound(n) /\ DrivenBy(n, match.life) /\ n.sock = k.sock
    BY <1>2, Armed
  <2>3. /\ m \in Stores /\ m.life \in {match.life, "playing", "over"}
        /\ e.type # "game_over" => m.life \in {match.life, "playing"}
        /\ match.life # "over" /\ e.type = "game_state" => m.life = "playing"
    BY <1>2, <1>7, EventApplied
  <2> HIDE DEF n, m
  <2>4. m.life = "queued" => match.life = "queued" /\ e.type # "game_state"
    BY <2>3
  <2>5. m.life = "queued" => First(n, srv')
    BY <1>1, <1>2, <1>4, <1>5, <2>2, <2>4 DEF First
  <2>6. m.life = "over" => pending = "none"
    BY <1>4, <2>3
  <2>7. m.life \in {"idle", "playing"} /\ m.life = match.life => pending = "none"
    OBVIOUS
  <2>8. m.life = "queued" => pending # "none"
    BY <2>4
  <2> QED
    BY <1>1, <1>3, <2>1, <2>2, <2>3, <2>5, <2>6, <2>7, <2>8, BecomesSound
<1> QED
  BY <1>6, <1>7
-----------------------------------------------------------------------------
(* The events of the network and the timers of the connection. *)
LEMMA NetworkSteps ==
  ASSUME IInv, Network
  PROVE  IInv'
<1> USE SoundNow
<1>0. \A life : c.sock.st \in {"handshake", "accepted", "open"} /\ DrivenBy(c, life) => signedIn
  BY DEF DrivenBy
<1>1. ASSUME TicketReply
      PROVE  IInv'
  <2>1. c.ticket /\ Ticket(c) /\ srv' = srv /\ signedIn' = signedIn
    BY <1>1 DEF TicketReply, ServerIdle
  <2>2. c.kind = "connecting" /\ c.sock.st = "none" /\ signedIn /\ ~c.retry /\ ~c.silence /\ c.held = <<>>
    BY <2>1 DEF DrivenBy, Sound, Connections
  <2> DEFINE n == [c EXCEPT !.ticket = FALSE]
             sock == [NoSocket EXCEPT !.st = "handshake", !.live = TRUE]
  <2>3. /\ n \in Connections /\ n.kind = c.kind /\ n.sock = c.sock /\ n.held = c.held /\ ~n.ticket /\ ~n.retry
        /\ ~n.silence
    BY <2>2 DEF Sound, Connections
  <2>4. sock \in Sockets /\ sock.st = "handshake" /\ ~sock.seat /\ sock.dn = <<>> /\ sock.up = <<>>
    BY NoSocketIsASocket DEF Sockets
  <2>5. ASSUME Stays([c EXCEPT !.ticket = FALSE, !.sock = sock])
        PROVE  IInv'
    <3> HIDE DEF sock
    <3> DEFINE k == [c EXCEPT !.ticket = FALSE, !.sock = sock]
    <3>1. /\ k \in Connections /\ k.kind = "connecting" /\ ~k.ticket /\ ~k.retry /\ ~k.silence /\ k.held = <<>>
          /\ k.sock = sock
      BY <2>2, <2>4 DEF Sound, Connections
    <3>2. Stays(k)
      BY <2>5
    <3> HIDE DEF k, n
    <3>3. Sound(k) /\ DrivenBy(k, match.life)
      BY <2>4, <3>1 DEF Sound, DrivenBy
    <3>4. First(k, srv')
      BY <2>4, <3>1, NothingFirst
    <3> QED
      BY <2>1, <2>2, <3>2, <3>3, <3>4, StaysSound
  <2>6. ASSUME Stays([c EXCEPT !.ticket = FALSE, !.kind = "unauthorized"])
        PROVE  IInv'
    <3> DEFINE k == [c EXCEPT !.ticket = FALSE, !.kind = "unauthorized"]
    <3>1. "unauthorized" \in Kinds
      BY DEF Kinds, Stopped
    <3>2. /\ k \in Connections /\ k.kind = "unauthorized" /\ ~k.ticket /\ ~k.retry /\ ~k.silence /\ k.held = <<>>
          /\ k.sock = c.sock
      BY <2>2, <3>1 DEF Sound, Connections
    <3>3. Stays(k)
      BY <2>6
    <3> HIDE DEF k, n, sock
    <3>4. Sound(k) /\ DrivenBy(k, match.life)
      BY <2>2, <3>2 DEF Sound, DrivenBy
    <3>5. match.life = "queued" => First(k, srv')
      BY <2>1, <3>2 DEF First
    <3> QED
      BY <2>1, <2>2, <3>3, <3>4, <3>5, StaysSound
  <2>7. ASSUME Stays(scheduleRetry(n))
        PROVE  IInv'
    <3> HIDE DEF n, sock
    <3>1. Sound(n)
      BY <2>2, <2>3 DEF Sound
    <3> DEFINE k == scheduleRetry(n)
    <3>2. Sound(k) /\ DrivenBy(k, match.life) /\ k.sock = c.sock
      BY <2>2, <2>3, <3>1, Retries
    <3>3. Stays(k)
      BY <2>7
    <3> HIDE DEF k
    <3>4. match.life = "queued" => First(k, srv')
      BY <2>1, <3>2 DEF First
    <3> QED
      BY <2>1, <2>2, <3>2, <3>3, <3>4, StaysSound
  <2> QED
    BY <2>1, <2>5, <2>6, <2>7 DEF Ticket
<1>2. ASSUME NEW code \in Code \cup {"1006"}, NEW k, Sound(k), DrivenBy(k, match.life), k.sock.st # "none",
             Stays(onClose(k, code)), srv' \in Servers, signedIn' = signedIn, signedIn
      PROVE  IInv'
  <2> DEFINE n == onClose(k, code)
  <2>1. Sound(n) /\ DrivenBy(n, match.life) /\ n.sock = NoSocket
    BY <1>2, OnClosed DEF Fresh
  <2>2. Stays(n)
    BY <1>2
  <2> HIDE DEF n
  <2>3. First(n, srv')
    BY <2>1, NothingFirst, NoSocketIsASocket
  <2> QED
    BY <1>2, <2>1, <2>2, <2>3, StaysSound
<1>3. ASSUME HandshakeFails \/ NetworkClose
      PROVE  IInv'
  <2>1. /\ c.sock.st \in {"handshake", "accepted", "open"} /\ Stays(onClose(c, "1006")) /\ signedIn' = signedIn
        /\ srv' \in {srv, Left(srv)}
    BY <1>3 DEF HandshakeFails, NetworkClose, LeftBy, ServerIdle
  <2>2. srv' \in Servers
    BY <2>1, LeavingKeeps
  <2> QED
    BY <1>0, <1>2, <2>1, <2>2
<1>4. ASSUME HandshakeEnds
      PROVE  IInv'
  <2> DEFINE n == [c EXCEPT !.kind = "open", !.sock.st = "open"]
             k == armSilence(n, match.life)
  <2>1. c.sock.st = "accepted" /\ Stays(k) /\ srv' = srv /\ signedIn' = signedIn
    BY <1>4 DEF HandshakeEnds, onOpen, ServerIdle
  <2>2. c.kind = "connecting" /\ ~c.ticket /\ ~c.retry /\ ~c.silence /\ signedIn
    BY <2>1 DEF DrivenBy, Sound, Connections
  <2>3. "open" \in Kinds
    BY DEF Kinds
  <2>4. /\ n \in Connections /\ n.kind = "open" /\ n.sock.st = "open" /\ ~n.ticket /\ ~n.retry /\ ~n.silence
        /\ n.sock.seat = c.sock.seat /\ n.sock.dn = c.sock.dn
    BY <2>2, <2>3 DEF Sound, Connections, Sockets
  <2> HIDE DEF n
  <2>5. Sound(n) /\ DrivenBy(n, "idle")
    BY <2>4 DEF Sound, DrivenBy
  <2>6. Sound(k) /\ DrivenBy(k, match.life) /\ k.sock = n.sock
    BY <2>5, Armed
  <2> HIDE DEF k
  <2>7. match.life = "queued" => First(k, srv')
    BY <2>1, <2>4, <2>6 DEF First
  <2> QED
    BY <2>1, <2>2, <2>6, <2>7, StaysSound
<1>5. ASSUME Cut
      PROVE  IInv'
  <2> DEFINE sock == [NoSocket EXCEPT !.st = "open"]
             k == [c EXCEPT !.sock = sock]
  <2>1. /\ c.sock.st = "open" /\ Stays(k) /\ srv' \in {srv, Left(srv)} /\ signedIn' = signedIn
    BY <1>5 DEF Cut, LeftBy
  <2>2. srv' \in Servers /\ signedIn
    BY <1>0, <2>1, LeavingKeeps
  <2>3. sock \in Sockets /\ sock.st = "open" /\ ~sock.seat /\ sock.dn = <<>> /\ sock.up = <<>>
    BY NoSocketIsASocket DEF Sockets
  <2> HIDE DEF sock
  <2>4. /\ k \in Connections /\ k.sock = sock /\ k.kind = c.kind /\ k.ticket = c.ticket /\ k.retry = c.retry
        /\ k.silence = c.silence /\ k.held = c.held
    BY <2>3 DEF Sound, Connections
  <2> HIDE DEF k
  <2>5. Sound(k) /\ DrivenBy(k, match.life)
    BY <2>1, <2>3, <2>4 DEF Sound, DrivenBy
  <2>6. First(k, srv')
    BY <2>3, <2>4, NothingFirst
  <2> QED
    BY <2>1, <2>2, <2>5, <2>6, StaysSound
<1>6. ASSUME OldCloses
      PROVE  IInv'
  <2> DEFINE k == [c EXCEPT !.old = FALSE]
  <2>1. Stays(k) /\ srv' \in {srv, Left(srv)} /\ signedIn' = signedIn
    BY <1>6 DEF OldCloses, LeftBy
  <2>2. srv' \in Servers /\ (srv'.at = "match" => srv.at = "match")
    BY <2>1, LeavingKeeps
  <2>3. /\ k \in Connections /\ k.sock = c.sock /\ k.kind = c.kind /\ k.ticket = c.ticket /\ k.retry = c.retry
        /\ k.silence = c.silence /\ k.held = c.held
    BY DEF Sound, Connections
  <2> HIDE DEF k
  <2>4. Sound(k) /\ DrivenBy(k, match.life)
    BY <2>3 DEF Sound, DrivenBy
  <2>5. match.life = "queued" => First(k, srv')
    BY <2>2, <2>3 DEF First
  <2> QED
    BY <2>1, <2>2, <2>3, <2>4, <2>5, StaysSound
<1>7. ASSUME RetryTimer
      PROVE  IInv'
  <2> DEFINE k == connect([c EXCEPT !.retry = FALSE])
  <2>1. Stays(k) /\ srv' = srv /\ signedIn' = signedIn /\ c.kind = "reconnecting"
    BY <1>7 DEF RetryTimer, DrivenBy, ServerIdle
  <2>2. Sound(k) /\ DrivenBy(k, match.life) /\ k.sock = c.sock
    BY <2>1, TriesAgain
  <2> HIDE DEF k
  <2>3. match.life = "queued" => First(k, srv')
    BY <2>1, <2>2 DEF First
  <2> QED
    BY <2>1, <2>2, <2>3, StaysSound
<1>8. ASSUME SilenceTimer
      PROVE  IInv'
  <2> DEFINE d == dropSocket(NewGeneration(c))
             k == scheduleRetry(d)
  <2>1. Stays(k) /\ srv' = srv /\ signedIn' = signedIn /\ c.kind = "open"
    BY <1>8 DEF SilenceTimer, DrivenBy, ServerIdle
  <2>2. Fresh(d) /\ ~d.silence /\ ~d.ticket /\ d.held = <<>>
    BY Dropped
  <2> HIDE DEF d
  <2>3. Sound(k) /\ DrivenBy(k, match.life) /\ k.sock = NoSocket
    BY <2>2, Retries, NoSocketIsASocket DEF Fresh
  <2> HIDE DEF k
  <2>4. First(k, srv')
    BY <2>3, NothingFirst, NoSocketIsASocket
  <2> QED
    BY <2>1, <2>3, <2>4, StaysSound
<1>9. ASSUME TimerUpdates
      PROVE  IInv'
  <2> DEFINE e == [type |-> "timer_update", turn |-> srv.turn]
             m == applyServerEvent(match, e)
  <2>1. /\ srv.at = "match" /\ c.sock.st = "open" /\ c.sock.seat /\ c.sock.dn = <<>> /\ Becomes(c, m, pending)
        /\ srv' = srv /\ signedIn' = signedIn
    BY <1>9 DEF TimerUpdates, ServerIdle
  <2>2. e \in [type : {"timer_update"}, turn : Side] /\ e.type = "timer_update"
    BY DEF Servers
  <2> HIDE DEF e
  <2>3. m \in Stores /\ m.life = match.life
    <3>1. m \in Stores
      BY <2>2, EventApplied
    <3>2. m.life \in {match.life, "playing"} /\ m.life \in {match.life, "over"}
      BY <2>2, EventApplied
    <3> QED
      BY <3>1, <3>2
  <2> HIDE DEF m
  <2>4. match.life # "queued"
    BY <2>1 DEF First
  <2> QED
    BY <1>0, <2>1, <2>3, <2>4, BecomesSound
<1>10. ASSUME Deliver
       PROVE  IInv'
  BY <1>10, FrameDelivered
<1> QED
  BY <1>1, <1>3, <1>4, <1>5, <1>6, <1>7, <1>8, <1>9, <1>10 DEF Network
-----------------------------------------------------------------------------
(* What the match screen sends. *)
LEMMA ScreenSteps ==
  ASSUME IInv, Screen
  PROVE  IInv'
<1> USE SoundNow
<1>1. ASSUME SpacingTimer
      PROVE  IInv'
  <2> DEFINE up == IF c.sock.live THEN c.held ELSE c.sock.up
             k == [c EXCEPT !.held = <<>>, !.sock.up = up]
  <2>1. Stays(k) /\ c.held # <<>> /\ srv' = srv /\ signedIn' = signedIn
    BY <1>1 DEF SpacingTimer, ServerIdle, Sound, Connections, Sockets
  <2>2. up \in Seq(Intent) /\ <<>> \in Seq(Intent) /\ c \in Connections
    BY DEF Sound, Connections, Sockets
  <2> HIDE DEF up
  <2>3. c.kind = "open" /\ c.sock.st = "open" /\ signedIn
    BY <2>1 DEF Sound, DrivenBy
  <2>4. /\ k \in Connections /\ k.kind = c.kind /\ k.ticket = c.ticket /\ k.retry = c.retry /\ k.silence = c.silence
        /\ k.held = <<>> /\ k.sock.st = c.sock.st /\ k.sock.seat = c.sock.seat /\ k.sock.dn = c.sock.dn
    BY <2>2 DEF Connections, Sockets
  <2> HIDE DEF k
  <2>5. Sound(k) /\ DrivenBy(k, match.life)
    BY <2>3, <2>4 DEF Sound, DrivenBy
  <2>6. match.life = "queued" => First(k, srv')
    BY <2>1, <2>4 DEF First
  <2> QED
    BY <2>1, <2>3, <2>5, <2>6, StaysSound
<1>2. ASSUME NEW intent \in Intent, send(intent)
      PROVE  IInv'
  <2> DEFINE held == [c EXCEPT !.held = <<intent>>]
             sent == [c EXCEPT !.sock.up = <<intent>>]
             m == Shown(intent)
  <2>1. /\ match.life = "playing" /\ c.kind = "open" /\ srv' = srv /\ signedIn' = signedIn
        /\ \E k \in {c, held, sent} : Becomes(k, m, pending)
    BY <1>2 DEF send, CanAct, ServerIdle
  <2>2. <<intent>> \in Seq(Intent) /\ c \in Connections /\ c.sock.st = "open" /\ signedIn
    BY <2>1 DEF Sound, DrivenBy
  <2>3. m \in Stores /\ m.life = "playing"
    BY <2>1 DEF Shown, previewMove, beginCast, Stores
  <2> DEFINE q == <<intent>>
  <2>4. Sound(held) /\ DrivenBy(held, match.life)
    <3>1. held = [c EXCEPT !.held = q] /\ q \in Seq(Intent)
      BY <2>2
    <3> HIDE DEF held, sent, m, q
    <3>2. /\ held \in Connections /\ held.kind = c.kind /\ held.ticket = c.ticket /\ held.retry = c.retry
          /\ held.silence = c.silence /\ held.sock = c.sock
      BY <2>2, <3>1 DEF Connections
    <3> QED
      BY <2>1, <2>2, <3>2 DEF Sound, DrivenBy
  <2>5. Sound(sent) /\ DrivenBy(sent, match.life)
    <3>1. sent = [c EXCEPT !.sock.up = q] /\ q \in Seq(Intent)
      BY <2>2
    <3> HIDE DEF held, sent, m, q
    <3>2. /\ sent \in Connections /\ sent.kind = c.kind /\ sent.ticket = c.ticket /\ sent.retry = c.retry
          /\ sent.silence = c.silence /\ sent.held = c.held /\ sent.sock.st = c.sock.st
      BY <2>2, <3>1 DEF Connections, Sockets
    <3> QED
      BY <2>1, <2>2, <3>2 DEF Sound, DrivenBy
  <2> HIDE DEF held, sent, m
  <2>6. PICK k \in {c, held, sent} : Becomes(k, m, pending)
    BY <2>1
  <2>7. Sound(k) /\ DrivenBy(k, match.life)
    BY <2>4, <2>5, <2>6
  <2> QED
    BY <2>1, <2>2, <2>3, <2>6, <2>7, BecomesSound
<1>3. Intents \subseteq Intent
  BY DEF Intents, Intent
<1> QED
  BY <1>1, <1>2, <1>3 DEF Screen
-----------------------------------------------------------------------------
(* The invariant holds at first. *)
LEMMA Initially ==
  ASSUME Init
  PROVE  IInv
<1>1. /\ c = Idle /\ match = initialMatchState /\ pending = "none" /\ saved = FALSE
      /\ signedIn = TRUE /\ resuming = FALSE /\ srv = NotPlaying
  BY DEF Init
<1>2. Sound(c) /\ DrivenBy(c, match.life) /\ c.sock = NoSocket
  BY <1>1, IdleIsSound
<1>3. Typed
  BY <1>1, <1>2, StoresBegin, MatchesBegin DEF Typed, Sound, Side
<1>4. SilentAtFirst /\ HeldIfOpen
  BY <1>2 DEF Sound, SilentAtFirst, HeldIfOpen
<1>5. BeginsFirst /\ SessionAgrees
  BY <1>1, StoresBegin DEF BeginsFirst, SessionAgrees
<1> QED
  BY <1>2, <1>3, <1>4, <1>5 DEF IInv, Announced

(* A step of the server, of the user, of the network or of the screen. *)
LEMMA EveryStep ==
  ASSUME IInv, [Next]_vars
  PROVE  IInv'
<1>1. CASE Server
  <2>1. ServerGoal /\ ClientIdle
    BY <1>1, ServerSteps
  <2>2. /\ match' = match /\ pending' = pending /\ saved' = saved /\ signedIn' = signedIn /\ resuming' = resuming
        /\ c' \in Connections /\ srv' \in Servers /\ Announced' /\ OnlySocket
    BY <2>1 DEF ServerGoal, ClientIdle
  <2>3. Typed'
    BY <2>2 DEF IInv, Typed
  <2>4. DrivenBy(c, match.life)'
    BY <2>2 DEF IInv, OnlySocket, DrivenBy
  <2>5. SessionAgrees'
    BY <2>2 DEF IInv, SessionAgrees, OnlySocket
  <2> QED
    BY <2>2, <2>3, <2>4, <2>5 DEF IInv
<1>2. CASE UNCHANGED vars
  BY <1>2 DEF vars, IInv, Typed, DrivenBy, Announced, SilentAtFirst, HeldIfOpen, BeginsFirst, Told, NoEnd, SessionAgrees
<1> QED
  BY <1>1, <1>2, UserSteps, NetworkSteps, ScreenSteps DEF Next
-----------------------------------------------------------------------------
(* Driven: a connection that is not stopped has exactly one thing that     *)
(* will move it, and a stopped one has none, however tickets, handshakes,  *)
(* frames, closures, timers and the user follow one another (connection.ts,*)
(* whose generations and timers are meant to see to that).                 *)
THEOREM ConnectionIsDriven == Spec => []Driven
<1>1. Init => IInv
  BY Initially
<1>2. IInv /\ [Next]_vars => IInv'
  BY EveryStep
<1>3. IInv => Driven
  BY DEF IInv, Typed, Connections, DrivenBy, Driven
<1> QED
  BY <1>1, <1>2, <1>3, PTL DEF Spec

(* SessionAgrees: matchSession.ts, matchStore.ts and the note on the       *)
(* device agree on whether something is waited for, played or over, and    *)
(* nothing but the note is left of a user signed out.                      *)
THEOREM SessionAndStoreAgree == Spec => []SessionAgrees
<1>1. Init => IInv
  BY Initially
<1>2. IInv /\ [Next]_vars => IInv'
  BY EveryStep
<1>3. IInv => SessionAgrees
  BY DEF IInv
<1> QED
  BY <1>1, <1>2, <1>3, PTL DEF Spec
-----------------------------------------------------------------------------
(***************************************************************************)
(* The client follows the server.  What it shows lags behind by the frames *)
(* on their way: read in their order, they end at the match as the server  *)
(* has it.  At most four are on their way at once, as the server waits for *)
(* its frames to be read (Read), so that reading them is four steps.       *)
(***************************************************************************)
Applied(m, e) == IF e.type = "close" THEN m ELSE applyServerEvent(m, e)
ReadOne(p) == IF p.frames = <<>> THEN p ELSE [store |-> Applied(p.store, Head(p.frames)), frames |-> Tail(p.frames)]
After(m, q) == ReadOne(ReadOne(ReadOne(ReadOne([store |-> m, frames |-> q])))).store

(* What was sent over k, or is held back, is the intent. *)
Asks(k, intent) == k.sock.up = <<intent>> \/ k.held = <<intent>>
Short(k) == Len(k.sock.up) <= 1 /\ Len(k.held) <= 1 /\ (k.sock.seat => Len(k.sock.dn) <= 4)
Same(m, s) == m.turn = s.turn /\ m.phase = s.phase /\ m.moves = s.moves /\ m.hand = s.hand /\ m.frozen = s.frozen
Agrees(k, m, s) ==
  /\ m.life = "playing" /\ Same(m, s)
  /\ m.cast => Asks(k, "cast")
  /\ m.optimistic => Asks(k, "move")
Ahead(k, m, s) ==
  k.sock.live /\ k.sock.seat /\ s.at = "match" /\ m.life # "over" => Agrees(k, After(m, k.sock.dn), s)
Follows == Short(c) /\ Ahead(c, match, srv)
-----------------------------------------------------------------------------
(* Frames are read one after the other. *)
ReadTo(m, e, f, g, h) ==
  /\ After(m, <<e>>) = Applied(m, e)
  /\ After(m, <<e, f>>) = Applied(Applied(m, e), f)
  /\ After(m, <<e, f, g>>) = Applied(Applied(Applied(m, e), f), g)
  /\ After(m, <<e, f, g, h>>) = Applied(Applied(Applied(Applied(m, e), f), g), h)
(* Whatever they are. *)
LEMMA ReadInOrder ==
  ASSUME NEW m, NEW e \in Frames, NEW f \in Frames, NEW g \in Frames, NEW h \in Frames
  PROVE  ReadTo(m, e, f, g, h)
<1> DEFINE P(n, q) == [store |-> n, frames |-> q]
<1>1. ASSUME NEW n
      PROVE  ReadOne(P(n, <<>>)) = P(n, <<>>)
  BY DEF ReadOne
<1>2. ASSUME NEW n, NEW q \in Seq(Frames), q # <<>>
      PROVE  ReadOne(P(n, q)) = P(Applied(n, Head(q)), Tail(q))
  BY <1>2 DEF ReadOne
<1>3. \A n, q : After(n, q) = ReadOne(ReadOne(ReadOne(ReadOne(P(n, q))))).store
  BY DEF After
<1>4. \A n, q : P(n, q).store = n
  OBVIOUS
<1>5. \A u \in Frames : <<u>> \in Seq(Frames) /\ <<u>> # <<>> /\ Head(<<u>>) = u /\ Tail(<<u>>) = <<>>
  OBVIOUS
<1>6. \A u, v \in Frames : <<u, v>> \in Seq(Frames) /\ <<u, v>> # <<>> /\ Head(<<u, v>>) = u /\ Tail(<<u, v>>) = <<v>>
  OBVIOUS
<1>7. \A u, v, w \in Frames :
         /\ <<u, v, w>> \in Seq(Frames) /\ <<u, v, w>> # <<>> /\ Head(<<u, v, w>>) = u
         /\ Tail(<<u, v, w>>) = <<v, w>>
  OBVIOUS
<1>8. \A u, v, w, x \in Frames :
         /\ <<u, v, w, x>> \in Seq(Frames) /\ <<u, v, w, x>> # <<>> /\ Head(<<u, v, w, x>>) = u
         /\ Tail(<<u, v, w, x>>) = <<v, w, x>>
  OBVIOUS
<1> HIDE DEF P
<1>9. ASSUME NEW e1 \in Frames, NEW n
      PROVE  ReadOne(P(n, <<e1>>)) = P(Applied(n, e1), <<>>)
  BY <1>2, <1>5
<1>10. ASSUME NEW e1 \in Frames, NEW f1 \in Frames, NEW n
       PROVE  ReadOne(P(n, <<e1, f1>>)) = P(Applied(n, e1), <<f1>>)
  <2> DEFINE q == <<e1, f1>>
  <2>1. q \in Seq(Frames) /\ q # <<>> /\ Head(q) = e1 /\ Tail(q) = <<f1>>
    BY <1>6
  <2> HIDE DEF q
  <2>2. ReadOne(P(n, q)) = P(Applied(n, e1), <<f1>>)
    BY <1>2, <2>1
  <2> QED
    BY <2>2 DEF q
<1>11. ASSUME NEW e1 \in Frames, NEW f1 \in Frames, NEW g1 \in Frames, NEW n
       PROVE  ReadOne(P(n, <<e1, f1, g1>>)) = P(Applied(n, e1), <<f1, g1>>)
  <2> DEFINE q == <<e1, f1, g1>>
  <2>1. q \in Seq(Frames) /\ q # <<>> /\ Head(q) = e1 /\ Tail(q) = <<f1, g1>>
    BY <1>7
  <2> HIDE DEF q
  <2>2. ReadOne(P(n, q)) = P(Applied(n, e1), <<f1, g1>>)
    BY <1>2, <2>1
  <2> QED
    BY <2>2 DEF q
<1>12. ASSUME NEW e1 \in Frames, NEW f1 \in Frames, NEW g1 \in Frames, NEW h1 \in Frames, NEW n
       PROVE  ReadOne(P(n, <<e1, f1, g1, h1>>)) = P(Applied(n, e1), <<f1, g1, h1>>)
  <2> DEFINE q == <<e1, f1, g1, h1>>
  <2>1. q \in Seq(Frames) /\ q # <<>> /\ Head(q) = e1 /\ Tail(q) = <<f1, g1, h1>>
    BY <1>8
  <2> HIDE DEF q
  <2>2. ReadOne(P(n, q)) = P(Applied(n, e1), <<f1, g1, h1>>)
    BY <1>2, <2>1
  <2> QED
    BY <2>2 DEF q
<1>13. After(m, <<e>>) = Applied(m, e)
  BY <1>1, <1>3, <1>4, <1>9
<1>14. After(m, <<e, f>>) = Applied(Applied(m, e), f)
  <2> DEFINE a == Applied(m, e)
             b == Applied(a, f)
  <2>1. ReadOne(P(m, <<e, f>>)) = P(a, <<f>>) /\ ReadOne(P(a, <<f>>)) = P(b, <<>>) /\ ReadOne(P(b, <<>>)) = P(b, <<>>)
    BY <1>1, <1>9, <1>10
  <2> HIDE DEF a, b
  <2>2. After(m, <<e, f>>) = b
    BY <1>3, <1>4, <2>1
  <2> QED
    BY <2>2 DEF a, b
<1>15. After(m, <<e, f, g>>) = Applied(Applied(Applied(m, e), f), g)
  <2> DEFINE a == Applied(m, e)
             b == Applied(a, f)
             d == Applied(b, g)
  <2>1. /\ ReadOne(P(m, <<e, f, g>>)) = P(a, <<f, g>>) /\ ReadOne(P(a, <<f, g>>)) = P(b, <<g>>)
        /\ ReadOne(P(b, <<g>>)) = P(d, <<>>) /\ ReadOne(P(d, <<>>)) = P(d, <<>>)
    BY <1>1, <1>9, <1>10, <1>11
  <2> HIDE DEF a, b, d
  <2>2. After(m, <<e, f, g>>) = d
    BY <1>3, <1>4, <2>1
  <2> QED
    BY <2>2 DEF a, b, d
<1>16. After(m, <<e, f, g, h>>) = Applied(Applied(Applied(Applied(m, e), f), g), h)
  <2> DEFINE a == Applied(m, e)
             b == Applied(a, f)
             d == Applied(b, g)
             z == Applied(d, h)
  <2>1. /\ ReadOne(P(m, <<e, f, g, h>>)) = P(a, <<f, g, h>>) /\ ReadOne(P(a, <<f, g, h>>)) = P(b, <<g, h>>)
        /\ ReadOne(P(b, <<g, h>>)) = P(d, <<h>>) /\ ReadOne(P(d, <<h>>)) = P(z, <<>>)
    BY <1>9, <1>10, <1>11, <1>12
  <2> HIDE DEF a, b, d, z
  <2>2. After(m, <<e, f, g, h>>) = z
    BY <1>3, <1>4, <2>1
  <2> QED
    BY <2>2 DEF a, b, d, z
<1> QED
  BY <1>13, <1>14, <1>15, <1>16 DEF ReadTo

(* No frame, and one. *)
LEMMA ReadOneAtMost ==
  ASSUME NEW m
  PROVE  After(m, <<>>) = m /\ \A e \in Frames : After(m, <<e>>) = Applied(m, e)
<1>1. After(m, <<>>) = m
  <2> DEFINE x == [store |-> m, frames |-> <<>>]
  <2>1. ReadOne(x) = x /\ x.store = m
    BY DEF ReadOne
  <2>2. After(m, <<>>) = ReadOne(ReadOne(ReadOne(ReadOne(x)))).store
    BY DEF After
  <2> HIDE DEF x
  <2> QED
    BY <2>1, <2>2
<1>2. ASSUME NEW e \in Frames
      PROVE  After(m, <<e>>) = Applied(m, e)
  <2>1. ReadTo(m, e, e, e, e)
    BY ReadInOrder
  <2> QED
    BY <2>1 DEF ReadTo
<1> QED
  BY <1>1, <1>2

(* A store that is over stays over; its types are kept. *)
LEMMA AppliedKeeps ==
  ASSUME NEW m \in Stores, NEW e \in Frames
  PROVE  Applied(m, e) \in Stores /\ (m.life = "over" => Applied(m, e).life = "over")
<1>1. CASE e.type = "close"
  BY <1>1 DEF Applied
<1>2. CASE e.type # "close"
  <2>1. Applied(m, e) = applyServerEvent(m, e)
    BY <1>2 DEF Applied
  <2>2. Applied(m, e) \in Stores
    BY <1>2, <2>1, EventApplied
  <2>3. ASSUME m.life = "over", e.type # "error"
        PROVE  Applied(m, e).life = "over"
    BY <2>1, <2>3 DEF applyServerEvent
  <2>4. ASSUME m.life = "over", e.type = "error"
        PROVE  Applied(m, e).life = "over"
    <3>1. applyServerEvent(m, e).life \in {m.life, "over"}
      BY <2>4, EventApplied
    <3> QED
      BY <2>1, <2>4, <3>1
  <2> QED
    BY <2>2, <2>3, <2>4
<1> QED
  BY <1>1, <1>2

(* The frame at the head of at most four is read first. *)
LEMMA HeadFirst ==
  ASSUME NEW m, NEW q \in Seq(Frames), q # <<>>, Len(q) <= 4
  PROVE  After(m, q) = After(Applied(m, Head(q)), Tail(q))
<1> DEFINE P(n, r) == [store |-> n, frames |-> r]
<1>1. ASSUME NEW n, NEW r \in Seq(Frames)
      PROVE  \E l : \E t \in Seq(Frames) : ReadOne(P(n, r)) = P(l, t) /\ (t = <<>> \/ Len(t) < Len(r))
  <2>1. CASE r = <<>>
    <3>1. ReadOne(P(n, r)) = P(n, r)
      BY <2>1 DEF ReadOne
    <3> QED
      BY <2>1, <3>1
  <2>2. CASE r # <<>>
    <3>1. ReadOne(P(n, r)) = P(Applied(n, Head(r)), Tail(r))
      BY <2>2 DEF ReadOne
    <3>2. Tail(r) \in Seq(Frames) /\ Len(Tail(r)) < Len(r)
      BY <2>2
    <3> HIDE DEF P
    <3> QED
      BY <3>1, <3>2
  <2> QED
    BY <2>1, <2>2
<1>2. \A n : ReadOne(P(n, <<>>)) = P(n, <<>>)
  BY DEF ReadOne
<1>3. ReadOne(P(m, q)) = P(Applied(m, Head(q)), Tail(q))
  BY DEF ReadOne
<1>4. \A n, r : After(n, r) = ReadOne(ReadOne(ReadOne(ReadOne(P(n, r))))).store
  BY DEF After
<1> HIDE DEF P
<1>5. Tail(q) \in Seq(Frames) /\ Len(Tail(q)) <= 3
  OBVIOUS
<1> DEFINE Reads(n, r, l, t) == ReadOne(P(n, r)) = P(l, t) /\ (t = <<>> \/ Len(t) < Len(r))
<1>6. PICK n1 : \E t \in Seq(Frames) : Reads(Applied(m, Head(q)), Tail(q), n1, t)
  BY <1>1, <1>5
<1>7. PICK q1 \in Seq(Frames) : Reads(Applied(m, Head(q)), Tail(q), n1, q1)
  BY <1>6
<1>8. PICK n2 : \E t \in Seq(Frames) : Reads(n1, q1, n2, t)
  BY <1>1
<1>9. PICK q2 \in Seq(Frames) : Reads(n1, q1, n2, q2)
  BY <1>8
<1>10. PICK n3 : \E t \in Seq(Frames) : Reads(n2, q2, n3, t)
  BY <1>1
<1>11. PICK q3 \in Seq(Frames) : Reads(n2, q2, n3, q3)
  BY <1>10
<1>12. q3 = <<>>
  <2>1. Len(q1) <= 2
    BY <1>5, <1>7
  <2>2. Len(q2) <= 1
    BY <1>9, <2>1
  <2> QED
    BY <1>11, <2>2
<1>13. ReadOne(P(n3, q3)) = P(n3, q3)
  BY <1>2, <1>12
<1>14. After(m, q) = P(n3, q3).store
  BY <1>3, <1>4, <1>7, <1>9, <1>11
<1>15. After(Applied(m, Head(q)), Tail(q)) = P(n3, q3).store
  BY <1>4, <1>7, <1>9, <1>11, <1>13
<1> QED
  BY <1>14, <1>15

(* Two stores that differ only in what the screen shows ahead of the       *)
(* server: reading a frame keeps them alike, and what it tells of the one  *)
(* flag is the same where that flag was.                                   *)
Alike(m, n) ==
  m.life = n.life /\ m.turn = n.turn /\ m.phase = n.phase /\ m.moves = n.moves /\ m.hand = n.hand /\ m.frozen = n.frozen

(* One frame. *)
LEMMA FrameKeepsAlike ==
  ASSUME NEW m \in Stores, NEW n \in Stores, NEW e \in Frames, Alike(m, n)
  PROVE  /\ Alike(Applied(m, e), Applied(n, e))
         /\ m.cast = n.cast => Applied(m, e).cast = Applied(n, e).cast
         /\ m.optimistic = n.optimistic => Applied(m, e).optimistic = Applied(n, e).optimistic
<1> DEFINE Goal == /\ Alike(Applied(m, e), Applied(n, e))
                   /\ m.cast = n.cast => Applied(m, e).cast = Applied(n, e).cast
                   /\ m.optimistic = n.optimistic => Applied(m, e).optimistic = Applied(n, e).optimistic
<1>1. CASE e.type = "close" \/ (m.life = "over" /\ e.type # "error")
  <2>1. Applied(m, e) = m /\ Applied(n, e) = n
    BY <1>1 DEF Applied, applyServerEvent, Alike
  <2> QED
    BY <2>1
<1>2. ASSUME e.type # "close", ~(m.life = "over" /\ e.type # "error")
      PROVE  Goal
  <2>1. Applied(m, e) = applyServerEvent(m, e) /\ Applied(n, e) = applyServerEvent(n, e)
    BY <1>2 DEF Applied
  <2>2. ~(n.life = "over" /\ e.type # "error")
    BY <1>2 DEF Alike
  <2> USE <1>2, <2>1, <2>2 DEF Alike
  <2>3. CASE e.type = "game_state"
    <3>1. Applied(m, e) = GameState(m, e) /\ Applied(n, e) = GameState(n, e)
      BY <2>3 DEF applyServerEvent
    <3> QED
      BY <3>1 DEF GameState, Stores
  <2>4. CASE e.type = "hand"
    <3>1. Applied(m, e) = HandEvent(m, e) /\ Applied(n, e) = HandEvent(n, e)
      BY <2>4 DEF applyServerEvent
    <3> QED
      BY <3>1 DEF HandEvent, Stores
  <2>5. CASE e.type = "card_drawn"
    <3>1. Applied(m, e) = CardDrawn(m, e) /\ Applied(n, e) = CardDrawn(n, e)
      BY <2>5 DEF applyServerEvent
    <3> QED
      BY <3>1 DEF CardDrawn, Stores
  <2>6. CASE e.type = "phase_changed"
    <3>1. Applied(m, e) = PhaseChanged(m, e) /\ Applied(n, e) = PhaseChanged(n, e)
      BY <2>6 DEF applyServerEvent
    <3> QED
      BY <3>1 DEF PhaseChanged, HasGame, Stores
  <2>7. CASE e.type = "spell_cast"
    <3>1. Applied(m, e) = SpellCast(m, e) /\ Applied(n, e) = SpellCast(n, e)
      BY <2>7 DEF applyServerEvent
    <3> QED
      BY <3>1 DEF SpellCast, HasGame, Stores
  <2>8. CASE e.type = "effect_expired"
    <3>1. Applied(m, e) = EffectExpired(m, e) /\ Applied(n, e) = EffectExpired(n, e)
      BY <2>8 DEF applyServerEvent
    <3> QED
      BY <3>1 DEF EffectExpired, Stores
  <2>9. CASE e.type = "game_over"
    <3>1. Applied(m, e) = GameOver(m, e) /\ Applied(n, e) = GameOver(n, e)
      BY <2>9 DEF applyServerEvent
    <3> QED
      BY <3>1 DEF GameOver, Stores
  <2>10. CASE e.type = "error"
    <3>1. Applied(m, e) = Refusal(m, e) /\ Applied(n, e) = Refusal(n, e)
      BY <2>10 DEF applyServerEvent
    <3> QED
      BY <3>1 DEF Refusal, Stores
  <2>11. CASE e.type = "draw_offer"
    <3>1. Applied(m, e) = DrawOffer(m, e) /\ Applied(n, e) = DrawOffer(n, e)
      BY <2>11 DEF applyServerEvent
    <3> QED
      BY <3>1 DEF DrawOffer, Stores
  <2>12. CASE e.type = "draw_offer_sent"
    <3>1. Applied(m, e) = DrawOfferSent(m, e) /\ Applied(n, e) = DrawOfferSent(n, e)
      BY <2>12 DEF applyServerEvent
    <3> QED
      BY <3>1 DEF DrawOfferSent, Stores
  <2>13. CASE e.type = "draw_declined"
    <3>1. Applied(m, e) = DrawDeclined(m, e) /\ Applied(n, e) = DrawDeclined(n, e)
      BY <2>13 DEF applyServerEvent
    <3> QED
      BY <3>1 DEF DrawDeclined, Stores
  <2>14. e.type \in {"game_state", "hand", "card_drawn", "phase_changed", "spell_cast", "effect_expired", "game_over",
                     "error", "draw_offer", "draw_offer_sent", "draw_declined"}
    BY DEF Frames, Bare
  <2> QED
    BY <2>3, <2>4, <2>5, <2>6, <2>7, <2>8, <2>9, <2>10, <2>11, <2>12, <2>13, <2>14
<1> QED
  BY <1>1, <1>2

(* All the frames of the way. *)
LEMMA WayKeepsAlike ==
  ASSUME NEW m \in Stores, NEW n \in Stores, NEW q \in Seq(Frames), Alike(m, n)
  PROVE  /\ Alike(After(m, q), After(n, q))
         /\ m.cast = n.cast => After(m, q).cast = After(n, q).cast
         /\ m.optimistic = n.optimistic => After(m, q).optimistic = After(n, q).optimistic
<1> DEFINE P(l, r) == [store |-> l, frames |-> r]
           Kept(m1, n1, m2, n2) ==
             /\ Alike(m2, n2)
             /\ m1.cast = n1.cast => m2.cast = n2.cast
             /\ m1.optimistic = n1.optimistic => m2.optimistic = n2.optimistic
           Reads(m1, n1, r, m2, n2, t) ==
             ReadOne(P(m1, r)) = P(m2, t) /\ ReadOne(P(n1, r)) = P(n2, t) /\ Kept(m1, n1, m2, n2)
<1>1. ASSUME NEW m1 \in Stores, NEW n1 \in Stores, NEW r \in Seq(Frames), Alike(m1, n1)
      PROVE  \E m2 \in Stores, n2 \in Stores, t \in Seq(Frames) : Reads(m1, n1, r, m2, n2, t) /\ Alike(m2, n2)
  <2>1. CASE r = <<>>
    <3>1. ReadOne(P(m1, r)) = P(m1, r) /\ ReadOne(P(n1, r)) = P(n1, r)
      BY <2>1 DEF ReadOne
    <3> QED
      BY <1>1, <3>1
  <2>2. CASE r # <<>>
    <3> DEFINE m2 == Applied(m1, Head(r))
               n2 == Applied(n1, Head(r))
    <3>1. ReadOne(P(m1, r)) = P(m2, Tail(r)) /\ ReadOne(P(n1, r)) = P(n2, Tail(r))
      BY <2>2 DEF ReadOne
    <3>2. Tail(r) \in Seq(Frames) /\ Head(r) \in Frames
      BY <2>2
    <3>3. m2 \in Stores /\ n2 \in Stores
      BY <3>2, AppliedKeeps
    <3>4. Kept(m1, n1, m2, n2) /\ Alike(m2, n2)
      BY <1>1, <3>2, FrameKeepsAlike
    <3> HIDE DEF m2, n2, P, Kept
    <3> QED
      BY <3>1, <3>2, <3>3, <3>4
  <2> QED
    BY <2>1, <2>2
<1>2. \A l \in Stores : After(l, q) = ReadOne(ReadOne(ReadOne(ReadOne(P(l, q))))).store
  BY DEF After
<1>3. \A l, r : P(l, r).store = l
  OBVIOUS
<1> HIDE DEF P, Reads
<1>4. PICK m1 \in Stores, n1 \in Stores, q1 \in Seq(Frames) : Reads(m, n, q, m1, n1, q1) /\ Alike(m1, n1)
  BY <1>1
<1>5. PICK m2 \in Stores, n2 \in Stores, q2 \in Seq(Frames) : Reads(m1, n1, q1, m2, n2, q2) /\ Alike(m2, n2)
  BY <1>1, <1>4
<1>6. PICK m3 \in Stores, n3 \in Stores, q3 \in Seq(Frames) : Reads(m2, n2, q2, m3, n3, q3) /\ Alike(m3, n3)
  BY <1>1, <1>5
<1>7. PICK m4 \in Stores, n4 \in Stores, q4 \in Seq(Frames) : Reads(m3, n3, q3, m4, n4, q4) /\ Alike(m4, n4)
  BY <1>1, <1>6
<1>8. After(m, q) = m4 /\ After(n, q) = n4
  BY <1>2, <1>3, <1>4, <1>5, <1>6, <1>7 DEF Reads
<1> QED
  BY <1>4, <1>5, <1>6, <1>7, <1>8 DEF Reads
-----------------------------------------------------------------------------
(* What the server sends leaves a store that was the server's the same as  *)
(* the server again.  A welcome, to begin with or to come back.            *)
LEMMA WelcomeShows ==
  ASSUME NEW m \in Stores, NEW s \in Servers, m.life # "over"
  PROVE  LET a == After(m, <<Stated(s), HandOf(s)>>)
         IN  a.life = "playing" /\ Same(a, s) /\ ~a.cast /\ ~a.optimistic
<1> DEFINE b == Applied(m, Stated(s))
           a == Applied(b, HandOf(s))
<1>1. Stated(s) \in Frames /\ HandOf(s) \in Frames /\ Stated(s).type = "game_state" /\ HandOf(s).type = "hand"
  BY FramesOfServer DEF Stated, HandOf
<1>2. After(m, <<Stated(s), HandOf(s)>>) = a
  <2> DEFINE e == Stated(s)
             f == HandOf(s)
  <2>1. e \in Frames /\ f \in Frames
    BY <1>1
  <2> HIDE DEF e, f
  <2>2. ReadTo(m, e, f, f, f)
    BY <2>1, ReadInOrder
  <2>3. After(m, <<e, f>>) = Applied(Applied(m, e), f)
    BY <2>2 DEF ReadTo
  <2> QED
    BY <2>3 DEF e, f
<1>3. b = GameState(m, Stated(s))
  BY <1>1 DEF Applied, applyServerEvent
<1>4. /\ b \in Stores /\ b.life = "playing" /\ b.turn = s.turn /\ b.phase = s.phase /\ b.moves = s.moves
      /\ b.frozen = s.frozen /\ ~b.cast /\ ~b.optimistic
  <2>1. b \in Stores
    BY <1>1, AppliedKeeps
  <2>2. /\ b.life = "playing" /\ b.turn = Stated(s).turn /\ b.phase = Stated(s).phase /\ b.moves = Stated(s).moves
        /\ b.frozen = Stated(s).frozen /\ ~b.cast /\ ~b.optimistic
    BY <1>3 DEF GameState, Stores
  <2> QED
    BY <2>1, <2>2 DEF Stated
<1> HIDE DEF b
<1>5. a = [b EXCEPT !.hand = s.hand]
  <2>1. a = HandEvent(b, HandOf(s))
    BY <1>1, <1>4 DEF Applied, applyServerEvent
  <2> QED
    BY <2>1 DEF HandEvent, HandOf
<1>6. /\ a.life = b.life /\ a.turn = b.turn /\ a.phase = b.phase /\ a.moves = b.moves /\ a.frozen = b.frozen
      /\ a.cast = b.cast /\ a.optimistic = b.optimistic /\ a.hand = s.hand
  BY <1>4, <1>5 DEF Stores
<1> QED
  BY <1>2, <1>4, <1>6 DEF Same

(* A phase that is passed. *)
LEMMA PassShows ==
  ASSUME NEW m \in Stores, NEW s \in Servers, m.life = "playing", Same(m, s)
  PROVE  LET a == After(m, <<PhaseOf(Passed(s))>>)
         IN  a.life = "playing" /\ Same(a, Passed(s)) /\ a.cast = m.cast /\ a.optimistic = m.optimistic
<1> DEFINE e == PhaseOf(Passed(s))
           a == Applied(m, e)
<1>1. e \in Frames /\ e.type = "phase_changed" /\ e.turn = s.turn /\ e.phase = "move"
  <2>1. Passed(s) \in Servers /\ Passed(s).turn = s.turn /\ Passed(s).phase = "move"
    BY MatchGoesOn DEF Passed, Servers
  <2>2. e \in Frames
    BY <2>1, FramesOfServer
  <2> QED
    BY <2>1, <2>2 DEF PhaseOf
<1>2. After(m, <<e>>) = a
  BY <1>1, ReadOneAtMost
<1> HIDE DEF e
<1>3. a = PhaseChanged(m, e)
  BY <1>1 DEF Applied, applyServerEvent
<1>4. a = [m EXCEPT !.turn = s.turn, !.phase = "move", !.clock = s.turn]
  BY <1>1, <1>3 DEF PhaseChanged, HasGame
<1>5. /\ Passed(s).turn = s.turn /\ Passed(s).phase = "move" /\ Passed(s).moves = s.moves /\ Passed(s).hand = s.hand
      /\ Passed(s).frozen = s.frozen
  BY DEF Passed, Servers
<1>6. /\ a.life = m.life /\ a.turn = s.turn /\ a.phase = "move" /\ a.moves = m.moves /\ a.hand = m.hand
      /\ a.frozen = m.frozen /\ a.cast = m.cast /\ a.optimistic = m.optimistic
  BY <1>4 DEF Stores
<1> QED
  BY <1>2, <1>5, <1>6 DEF Same, e

(* A cast of the other player that lasts. *)
LEMMA FreezeShows ==
  ASSUME NEW m \in Stores, NEW s \in Servers, m.life = "playing", Same(m, s)
  PROVE  LET a == After(m, <<[type |-> "spell_cast", player |-> "opp", freezes |-> TRUE]>>)
         IN  a.life = "playing" /\ Same(a, [s EXCEPT !.frozen = TRUE]) /\ a.cast = m.cast /\ a.optimistic = m.optimistic
<1> DEFINE e == [type |-> "spell_cast", player |-> "opp", freezes |-> TRUE]
           a == Applied(m, e)
           t == [s EXCEPT !.frozen = TRUE]
<1>1. e \in Frames /\ e.type = "spell_cast" /\ e.player = "opp" /\ e.freezes = TRUE
  BY DEF Frames, Side
<1>2. After(m, <<e>>) = a
  BY <1>1, ReadOneAtMost
<1> HIDE DEF e
<1>3. a = SpellCast(m, e)
  BY <1>1 DEF Applied, applyServerEvent
<1>4. t.turn = s.turn /\ t.phase = s.phase /\ t.moves = s.moves /\ t.hand = s.hand /\ t.frozen = TRUE
  BY DEF Servers
<1>5. /\ a.life = m.life /\ a.turn = m.turn /\ a.phase = m.phase /\ a.moves = m.moves /\ a.hand = m.hand
      /\ a.frozen = (HasGame(m) /\ (m.frozen \/ e.freezes)) /\ a.cast = (m.cast /\ e.player # "me")
      /\ a.optimistic = m.optimistic
  BY <1>1, <1>3 DEF SpellCast, Stores
<1>6. a.frozen = TRUE /\ a.cast = m.cast
  BY <1>1, <1>5 DEF HasGame, Stores
<1> HIDE DEF a, t
<1> QED
  BY <1>2, <1>4, <1>5, <1>6 DEF Same, e, t

(* A cast of one's own: the card goes, and the hand is free again. *)
LEMMA CastShows ==
  ASSUME NEW m \in Stores, NEW s \in Servers, m.life = "playing", Same(m, s), s.hand > 0
  PROVE  LET a == After(m, <<[type |-> "spell_cast", player |-> "me", freezes |-> FALSE]>>)
         IN  /\ a.life = "playing" /\ Same(a, [s EXCEPT !.hand = s.hand - 1]) /\ ~a.cast
             /\ a.optimistic = m.optimistic
<1> DEFINE e == [type |-> "spell_cast", player |-> "me", freezes |-> FALSE]
           a == Applied(m, e)
           t == [s EXCEPT !.hand = s.hand - 1]
<1>1. e \in Frames /\ e.type = "spell_cast" /\ e.player = "me" /\ e.freezes = FALSE
  BY DEF Frames, Side
<1>2. After(m, <<e>>) = a
  BY <1>1, ReadOneAtMost
<1> HIDE DEF e
<1>3. a = SpellCast(m, e)
  BY <1>1 DEF Applied, applyServerEvent
<1>4. t.turn = s.turn /\ t.phase = s.phase /\ t.moves = s.moves /\ t.hand = s.hand - 1 /\ t.frozen = s.frozen
  BY DEF Servers
<1>5. /\ a.life = m.life /\ a.turn = m.turn /\ a.phase = m.phase /\ a.moves = m.moves
      /\ a.hand = (IF e.player = "me" /\ m.hand > 0 THEN m.hand - 1 ELSE m.hand)
      /\ a.frozen = (HasGame(m) /\ (m.frozen \/ e.freezes)) /\ a.cast = (m.cast /\ e.player # "me")
      /\ a.optimistic = m.optimistic
  BY <1>1, <1>3 DEF SpellCast, Stores
<1>6. a.frozen = m.frozen /\ a.cast = FALSE
  BY <1>1, <1>5 DEF HasGame, Stores
<1>7. a.hand = s.hand - 1
  BY <1>1, <1>5 DEF Same
<1> HIDE DEF a, t
<1> QED
  BY <1>2, <1>4, <1>5, <1>6, <1>7 DEF Same, e, t

(* An offer, or its end, leaves what is shown of the match as it was. *)
LEMMA OfferShows ==
  ASSUME NEW m \in Stores, m.life = "playing", NEW type \in {"draw_offer", "draw_offer_sent", "draw_declined"}
  PROVE  LET a == Applied(m, Ev(type))
         IN  a \in Stores /\ Alike(a, m) /\ a.cast = m.cast /\ a.optimistic = m.optimistic
<1> DEFINE e == Ev(type)
           a == Applied(m, e)
<1>1. e \in Frames /\ e.type = type
  BY DEF Ev, Bare, Frames
<1> HIDE DEF e
<1>2. a \in Stores
  BY <1>1, AppliedKeeps
<1>3. CASE type = "draw_offer"
  <2>1. a = DrawOffer(m, e)
    BY <1>1, <1>3 DEF Applied, applyServerEvent
  <2> QED
    BY <1>2, <2>1 DEF DrawOffer, Alike, Stores, e
<1>4. CASE type = "draw_offer_sent"
  <2>1. a = DrawOfferSent(m, e)
    BY <1>1, <1>4 DEF Applied, applyServerEvent
  <2> QED
    BY <1>2, <2>1 DEF DrawOfferSent, Alike, Stores, e
<1>5. CASE type = "draw_declined"
  <2>1. a = DrawDeclined(m, e)
    BY <1>1, <1>5 DEF Applied, applyServerEvent
  <2> QED
    BY <1>2, <2>1 DEF DrawDeclined, Alike, Stores, e
<1> QED
  BY <1>3, <1>4, <1>5

(* A refusal takes back what was shown ahead, and nothing else. *)
LEMMA RefusalShows ==
  ASSUME NEW m \in Stores, m.life = "playing"
  PROVE  LET a == After(m, <<Ev("error")>>)
         IN  Alike(a, m) /\ ~a.cast /\ ~a.optimistic
<1> DEFINE e == Ev("error")
<1>1. e \in Frames /\ e.type = "error"
  BY DEF Ev, Bare, Frames
<1>2. After(m, <<e>>) = Applied(m, e)
  BY <1>1, ReadOneAtMost
<1> HIDE DEF e
<1>3. Applied(m, e) = Refusal(m, e)
  BY <1>1 DEF Applied, applyServerEvent
<1>4. Alike(Refusal(m, e), m) /\ ~Refusal(m, e).cast /\ ~Refusal(m, e).optimistic
  BY DEF Refusal, Alike, Stores
<1> QED
  BY <1>2, <1>3, <1>4 DEF e

(* A frame joined to others is the last of one more. *)
LEMMA LastOfThem ==
  ASSUME NEW q \in Seq(Frames), NEW x \in Frames, NEW r \in Seq(Frames), Len(r) = Len(q) + 1, r[Len(r)] = x,
         \A i \in 1 .. Len(q) : r[i] = q[i]
  PROVE  q \o <<x>> = r
<1>1. Len(q \o <<x>>) = Len(q) + 1 /\ \A i \in 1 .. Len(q \o <<x>>) : (q \o <<x>>)[i] = IF i <= Len(q) THEN q[i] ELSE x
  BY OneMore
<1>2. q \o <<x>> \in Seq(Frames)
  OBVIOUS
<1> DEFINE z == q \o <<x>>
<1> HIDE DEF z
<1>3. Len(z) = Len(r) /\ z \in Seq(Frames) /\ \A i \in 1 .. Len(z) : z[i] = IF i <= Len(q) THEN q[i] ELSE x
  BY <1>1, <1>2 DEF z
<1>4. \A i \in 1 .. Len(z) : z[i] = r[i]
  BY <1>3
<1>5. z = r
  BY <1>3, <1>4, SeqEqual
<1> QED
  BY <1>5 DEF z

(* Up to four frames, one joined to the other. *)
JoinedTo(e, f, g, h) ==
  /\ <<>> \o <<e>> = <<e>> /\ <<e>> \o <<>> = <<e>> /\ <<e>> \o <<f>> = <<e, f>>
  /\ <<e, f>> \o <<>> = <<e, f>> /\ <<e, f>> \o <<g>> = <<e, f, g>>
  /\ <<e, f, g>> \o <<>> = <<e, f, g>> /\ <<e, f, g>> \o <<h>> = <<e, f, g, h>>
(* They are what one expects. *)
LEMMA Joined ==
  ASSUME NEW e \in Frames, NEW f \in Frames, NEW g \in Frames, NEW h \in Frames
  PROVE  JoinedTo(e, f, g, h)
<1>1. <<>> \in Seq(Frames) /\ <<e>> \in Seq(Frames) /\ <<e, f>> \in Seq(Frames) /\ <<e, f, g>> \in Seq(Frames)
  OBVIOUS
<1>2. \A q \in Seq(Frames) : <<>> \o q = q /\ q \o <<>> = q
  OBVIOUS
<1>3. <<e>> \o <<f>> = <<e, f>>
  <2> DEFINE q == <<e>>
             r == <<e, f>>
  <2>1. q \in Seq(Frames) /\ r \in Seq(Frames) /\ Len(r) = 2 /\ Len(q) = 1
    OBVIOUS
  <2>2. r[2] = f /\ \A i \in 1 .. 1 : r[i] = q[i]
    OBVIOUS
  <2> HIDE DEF q, r
  <2>3. Len(r) = Len(q) + 1 /\ r[Len(r)] = f /\ \A i \in 1 .. Len(q) : r[i] = q[i]
    BY <2>1, <2>2
  <2>4. q \o <<f>> = r
    BY <2>1, <2>3, LastOfThem
  <2> QED
    BY <2>4 DEF q, r
<1>4. <<e, f>> \o <<g>> = <<e, f, g>>
  <2> DEFINE q == <<e, f>>
             r == <<e, f, g>>
  <2>1. q \in Seq(Frames) /\ r \in Seq(Frames) /\ Len(r) = 3 /\ Len(q) = 2
    OBVIOUS
  <2>2. r[3] = g /\ \A i \in 1 .. 2 : r[i] = q[i]
    OBVIOUS
  <2> HIDE DEF q, r
  <2>3. Len(r) = Len(q) + 1 /\ r[Len(r)] = g /\ \A i \in 1 .. Len(q) : r[i] = q[i]
    BY <2>1, <2>2
  <2>4. q \o <<g>> = r
    BY <2>1, <2>3, LastOfThem
  <2> QED
    BY <2>4 DEF q, r
<1>5. <<e, f, g>> \o <<h>> = <<e, f, g, h>>
  <2> DEFINE q == <<e, f, g>>
             r == <<e, f, g, h>>
  <2>1. q \in Seq(Frames) /\ r \in Seq(Frames) /\ Len(r) = 4 /\ Len(q) = 3
    OBVIOUS
  <2>2. r[4] = h /\ \A i \in 1 .. 3 : r[i] = q[i]
    OBVIOUS
  <2> HIDE DEF q, r
  <2>3. Len(r) = Len(q) + 1 /\ r[Len(r)] = h /\ \A i \in 1 .. Len(q) : r[i] = q[i]
    BY <2>1, <2>2
  <2>4. q \o <<h>> = r
    BY <2>1, <2>3, LastOfThem
  <2> QED
    BY <2>4 DEF q, r
<1> QED
  BY <1>1, <1>2, <1>3, <1>4, <1>5 DEF JoinedTo

(* The turn that goes on: an offer that lapsed, the position, an effect    *)
(* that ended, a card drawn, in this order and as far as there are any.    *)
LEMMA RollShows ==
  ASSUME NEW m \in Stores, NEW s \in Servers, m.life = "playing", Same(m, s), NEW turn \in Side
  PROVE  LET a == After(m, RollFrames(s, turn))
         IN  a.life = "playing" /\ Same(a, Rolled(s, turn)) /\ ~a.cast /\ ~a.optimistic
<1> DEFINE t == Rolled(s, turn)
           shown == [t EXCEPT !.frozen = s.frozen]
           lapsed == Ev("draw_declined")
           state == Stated(shown)
           ended == Ev("effect_expired")
           drawn == Ev("card_drawn")
           declined == s.offer = "me" /\ s.turn = "opp"
           draws == t.hand > s.hand
<1>1. t \in Servers /\ shown \in Servers
  BY TurnRolls DEF Servers
<1>2. /\ lapsed \in Frames /\ lapsed.type = "draw_declined" /\ ended \in Frames /\ ended.type = "effect_expired"
      /\ drawn \in Frames /\ drawn.type = "card_drawn"
  BY DEF Ev, Bare, Frames
<1>3. /\ t.turn = turn /\ t.phase = "main" /\ t.moves = s.moves + 1 /\ t.frozen = FALSE
      /\ t.hand = IF turn = "me" /\ s.topic = "cards" /\ s.hand < MaxHand THEN s.hand + 1 ELSE s.hand
  BY DEF Rolled, Servers
<1>4. t.hand = IF draws THEN s.hand + 1 ELSE s.hand
  BY <1>3 DEF Servers
<1>5. /\ state \in Frames /\ state.type = "game_state" /\ state.turn = t.turn /\ state.phase = t.phase
      /\ state.moves = t.moves /\ state.frozen = s.frozen
  <2>1. shown.turn = t.turn /\ shown.phase = t.phase /\ shown.moves = t.moves /\ shown.frozen = s.frozen
    BY <1>1 DEF Servers
  <2> HIDE DEF shown, t
  <2> QED
    BY <1>1, <2>1, FramesOfServer DEF Stated
<1>6. RollFrames(s, turn) =
        (IF declined THEN <<lapsed>> ELSE <<>>) \o <<state>> \o (IF s.frozen THEN <<ended>> ELSE <<>>)
          \o (IF draws THEN <<drawn>> ELSE <<>>)
  BY DEF RollFrames
<1> HIDE DEF t, shown, lapsed, state, ended, drawn, declined, draws
<1> DEFINE First1 == IF declined THEN Applied(m, lapsed) ELSE m
           Second == Applied(First1, state)
           Third == IF s.frozen THEN Applied(Second, ended) ELSE Second
           Fourth == IF draws THEN Applied(Third, drawn) ELSE Third
<1>7. First1 \in Stores /\ First1.life = "playing" /\ First1.hand = m.hand
  <2>1. CASE declined
    BY <2>1, OfferShows DEF lapsed, Alike
  <2>2. CASE ~declined
    BY <2>2
  <2> QED
    BY <2>1, <2>2
<1>8. /\ Second \in Stores /\ Second.life = "playing" /\ Second.turn = t.turn /\ Second.phase = t.phase
      /\ Second.moves = t.moves /\ Second.frozen = s.frozen /\ Second.hand = s.hand /\ ~Second.cast
      /\ ~Second.optimistic
  <2> HIDE DEF First1
  <2>1. Second \in Stores
    BY <1>5, <1>7, AppliedKeeps
  <2>2. Second = GameState(First1, state)
    BY <1>5, <1>7 DEF Applied, applyServerEvent
  <2>3. /\ Second.life = "playing" /\ Second.turn = state.turn /\ Second.phase = state.phase
        /\ Second.moves = state.moves /\ Second.frozen = state.frozen /\ Second.hand = First1.hand /\ ~Second.cast
        /\ ~Second.optimistic
    BY <1>7, <2>2 DEF GameState, Stores
  <2> QED
    BY <1>5, <1>7, <2>1, <2>3 DEF Same
<1>9. /\ Third \in Stores /\ Third.life = "playing" /\ Third.turn = t.turn /\ Third.phase = t.phase
      /\ Third.moves = t.moves /\ Third.frozen = FALSE /\ Third.hand = s.hand /\ ~Third.cast /\ ~Third.optimistic
  <2> HIDE DEF Second
  <2>1. CASE s.frozen
    <3>1. Third \in Stores
      BY <1>2, <1>8, <2>1, AppliedKeeps
    <3>2. Third = EffectExpired(Second, ended)
      BY <1>2, <1>8, <2>1 DEF Applied, applyServerEvent
    <3> QED
      BY <1>8, <3>1, <3>2 DEF EffectExpired, Stores
  <2>2. CASE ~s.frozen
    <3>1. s.frozen = FALSE
      BY <2>2 DEF Servers
    <3> QED
      BY <1>8, <3>1
  <2> QED
    BY <2>1, <2>2
<1>10. /\ Fourth.life = "playing" /\ Fourth.turn = t.turn /\ Fourth.phase = t.phase
       /\ Fourth.moves = t.moves /\ Fourth.frozen = FALSE /\ Fourth.hand = t.hand /\ ~Fourth.cast /\ ~Fourth.optimistic
  <2> HIDE DEF Third
  <2>1. CASE draws
    <3>1. Fourth = CardDrawn(Third, drawn)
      BY <1>2, <1>9, <2>1 DEF Applied, applyServerEvent
    <3> QED
      BY <1>4, <1>9, <2>1, <3>1 DEF CardDrawn, Stores
  <2>2. CASE ~draws
    BY <1>4, <1>9, <2>2
  <2> QED
    BY <2>1, <2>2
<1>11. After(m, RollFrames(s, turn)) = Fourth
  <2>1. /\ ReadTo(m, lapsed, state, ended, drawn) /\ ReadTo(m, lapsed, state, drawn, drawn)
        /\ ReadTo(m, state, ended, drawn, drawn) /\ ReadTo(m, state, drawn, drawn, drawn)
    BY <1>2, <1>5, ReadInOrder
  <2> DEFINE q == RollFrames(s, turn)
  <2>2. /\ JoinedTo(lapsed, state, ended, drawn) /\ JoinedTo(lapsed, state, drawn, drawn)
         /\ JoinedTo(state, ended, drawn, drawn) /\ JoinedTo(state, drawn, drawn, drawn)
    BY <1>2, <1>5, Joined
  <2>3. CASE declined /\ s.frozen /\ draws
    <3>1. q = <<lapsed, state, ended, drawn>>
      <4>1. q = <<lapsed>> \o <<state>> \o <<ended>> \o <<drawn>>
        BY <1>6, <2>3
      <4>2. <<lapsed>> \o <<state>> = <<lapsed, state>>
        BY <2>2 DEF JoinedTo
      <4>3. <<lapsed, state>> \o <<ended>> = <<lapsed, state, ended>>
        BY <2>2 DEF JoinedTo
      <4>4. <<lapsed, state, ended>> \o <<drawn>> = <<lapsed, state, ended, drawn>>
        BY <2>2 DEF JoinedTo
      <4> QED
        BY <4>1, <4>2, <4>3, <4>4
    <3> QED
      BY <2>1, <2>3, <3>1 DEF ReadTo
  <2>4. CASE declined /\ s.frozen /\ ~draws
    <3>1. q = <<lapsed, state, ended>>
      <4>1. q = <<lapsed>> \o <<state>> \o <<ended>> \o <<>>
        BY <1>6, <2>4
      <4>2. <<lapsed>> \o <<state>> = <<lapsed, state>>
        BY <2>2 DEF JoinedTo
      <4>3. <<lapsed, state>> \o <<ended>> = <<lapsed, state, ended>>
        BY <2>2 DEF JoinedTo
      <4>4. <<lapsed, state, ended>> \o <<>> = <<lapsed, state, ended>>
        BY <2>2 DEF JoinedTo
      <4> QED
        BY <4>1, <4>2, <4>3, <4>4
    <3> QED
      BY <2>1, <2>4, <3>1 DEF ReadTo
  <2>5. CASE declined /\ ~s.frozen /\ draws
    <3>1. q = <<lapsed, state, drawn>>
      <4>1. q = <<lapsed>> \o <<state>> \o <<>> \o <<drawn>>
        BY <1>6, <2>5
      <4>2. <<lapsed>> \o <<state>> = <<lapsed, state>>
        BY <2>2 DEF JoinedTo
      <4>3. <<lapsed, state>> \o <<>> = <<lapsed, state>>
        BY <2>2 DEF JoinedTo
      <4>4. <<lapsed, state>> \o <<drawn>> = <<lapsed, state, drawn>>
        BY <2>2 DEF JoinedTo
      <4> QED
        BY <4>1, <4>2, <4>3, <4>4
    <3> QED
      BY <2>1, <2>5, <3>1 DEF ReadTo
  <2>6. CASE declined /\ ~s.frozen /\ ~draws
    <3>1. q = <<lapsed, state>>
      <4>1. q = <<lapsed>> \o <<state>> \o <<>> \o <<>>
        BY <1>6, <2>6
      <4>2. <<lapsed>> \o <<state>> = <<lapsed, state>>
        BY <2>2 DEF JoinedTo
      <4>3. <<lapsed, state>> \o <<>> = <<lapsed, state>>
        BY <2>2 DEF JoinedTo
      <4>4. <<lapsed, state>> \o <<>> = <<lapsed, state>>
        BY <2>2 DEF JoinedTo
      <4> QED
        BY <4>1, <4>2, <4>3, <4>4
    <3> QED
      BY <2>1, <2>6, <3>1 DEF ReadTo
  <2>7. CASE ~declined /\ s.frozen /\ draws
    <3>1. q = <<state, ended, drawn>>
      <4>1. q = <<>> \o <<state>> \o <<ended>> \o <<drawn>>
        BY <1>6, <2>7
      <4>2. <<>> \o <<state>> = <<state>>
        BY <2>2 DEF JoinedTo
      <4>3. <<state>> \o <<ended>> = <<state, ended>>
        BY <2>2 DEF JoinedTo
      <4>4. <<state, ended>> \o <<drawn>> = <<state, ended, drawn>>
        BY <2>2 DEF JoinedTo
      <4> QED
        BY <4>1, <4>2, <4>3, <4>4
    <3> QED
      BY <2>1, <2>7, <3>1 DEF ReadTo
  <2>8. CASE ~declined /\ s.frozen /\ ~draws
    <3>1. q = <<state, ended>>
      <4>1. q = <<>> \o <<state>> \o <<ended>> \o <<>>
        BY <1>6, <2>8
      <4>2. <<>> \o <<state>> = <<state>>
        BY <2>2 DEF JoinedTo
      <4>3. <<state>> \o <<ended>> = <<state, ended>>
        BY <2>2 DEF JoinedTo
      <4>4. <<state, ended>> \o <<>> = <<state, ended>>
        BY <2>2 DEF JoinedTo
      <4> QED
        BY <4>1, <4>2, <4>3, <4>4
    <3> QED
      BY <2>1, <2>8, <3>1 DEF ReadTo
  <2>9. CASE ~declined /\ ~s.frozen /\ draws
    <3>1. q = <<state, drawn>>
      <4>1. q = <<>> \o <<state>> \o <<>> \o <<drawn>>
        BY <1>6, <2>9
      <4>2. <<>> \o <<state>> = <<state>>
        BY <2>2 DEF JoinedTo
      <4>3. <<state>> \o <<>> = <<state>>
        BY <2>2 DEF JoinedTo
      <4>4. <<state>> \o <<drawn>> = <<state, drawn>>
        BY <2>2 DEF JoinedTo
      <4> QED
        BY <4>1, <4>2, <4>3, <4>4
    <3> QED
      BY <2>1, <2>9, <3>1 DEF ReadTo
  <2>10. CASE ~declined /\ ~s.frozen /\ ~draws
    <3>1. q = <<state>>
      <4>1. q = <<>> \o <<state>> \o <<>> \o <<>>
        BY <1>6, <2>10
      <4>2. <<>> \o <<state>> = <<state>>
        BY <2>2 DEF JoinedTo
      <4>3. <<state>> \o <<>> = <<state>>
        BY <2>2 DEF JoinedTo
      <4>4. <<state>> \o <<>> = <<state>>
        BY <2>2 DEF JoinedTo
      <4> QED
        BY <4>1, <4>2, <4>3, <4>4
    <3> QED
      BY <2>1, <2>10, <3>1 DEF ReadTo
  <2> QED
    BY <2>3, <2>4, <2>5, <2>6, <2>7, <2>8, <2>9, <2>10
<1> HIDE DEF Fourth
<1> QED
  BY <1>3, <1>10, <1>11 DEF Same, t

(* No more than four frames are sent at once. *)
LEMMA RollIsShort ==
  ASSUME NEW s \in Servers, NEW turn \in Side
  PROVE  Len(RollFrames(s, turn)) <= 4
<1> DEFINE a == IF s.offer = "me" /\ s.turn = "opp" THEN <<Ev("draw_declined")>> ELSE <<>>
           b == <<Stated([Rolled(s, turn) EXCEPT !.frozen = s.frozen])>>
           d == IF s.frozen THEN <<Ev("effect_expired")>> ELSE <<>>
           e == IF Rolled(s, turn).hand > s.hand THEN <<Ev("card_drawn")>> ELSE <<>>
<1>1. RollFrames(s, turn) = a \o b \o d \o e
  BY DEF RollFrames
<1>2. [Rolled(s, turn) EXCEPT !.frozen = s.frozen] \in Servers
  BY TurnRolls DEF Servers
<1>3. /\ Stated([Rolled(s, turn) EXCEPT !.frozen = s.frozen]) \in Frames
      /\ Ev("draw_declined") \in Frames /\ Ev("effect_expired") \in Frames /\ Ev("card_drawn") \in Frames
  BY <1>2, FramesOfServer DEF Bare
<1>4. \A f \in Frames : <<f>> \in Seq(Frames) /\ Len(<<f>>) = 1
  OBVIOUS
<1>5. <<>> \in Seq(Frames) /\ Len(<<>>) = 0
  OBVIOUS
<1>6. /\ a \in Seq(Frames) /\ Len(a) <= 1 /\ b \in Seq(Frames) /\ Len(b) = 1
      /\ d \in Seq(Frames) /\ Len(d) <= 1 /\ e \in Seq(Frames) /\ Len(e) <= 1
  BY <1>3, <1>4, <1>5
<1> HIDE DEF a, b, d, e
<1>7. \A q, r \in Seq(Frames) : q \o r \in Seq(Frames) /\ Len(q \o r) = Len(q) + Len(r)
  OBVIOUS
<1>8. a \o b \in Seq(Frames) /\ Len(a \o b) <= 2
  <2>1. a \o b \in Seq(Frames) /\ Len(a \o b) = Len(a) + Len(b)
    BY <1>6, <1>7
  <2> QED
    BY <1>6, <2>1
<1>9. a \o b \o d \in Seq(Frames) /\ Len(a \o b \o d) <= 3
  BY <1>6, <1>7, <1>8
<1>10. Len(a \o b \o d \o e) <= 4
  BY <1>6, <1>7, <1>9
<1> QED
  BY <1>1, <1>10
-----------------------------------------------------------------------------
(* What the steps have in common.  Nobody at the seat. *)
LEMMA SeatLost ==
  ASSUME ~c'.sock.seat, Len(c'.sock.up) <= 1, Len(c'.held) <= 1
  PROVE  Follows'
BY DEF Follows, Short, Ahead

(* The socket, what is held back, and the store are left as they are, and  *)
(* the server's match as well, or it is no more.                           *)
LEMMA StillFollows ==
  ASSUME Follows, c'.sock.live = c.sock.live, c'.sock.seat = c.sock.seat, c'.sock.up = c.sock.up,
         c'.sock.dn = c.sock.dn, c'.held = c.held, match' = match,
         srv'.at = "match" => srv.at = "match" /\ \A m : Same(m, srv) => Same(m, srv')
  PROVE  Follows'
<1>1. Short(c')
  BY DEF Follows, Short
<1>2. ASSUME c'.sock.live, c'.sock.seat, srv'.at = "match", match.life # "over"
      PROVE  Agrees(c', After(match, c'.sock.dn), srv')
  <2> DEFINE a == After(match, c.sock.dn)
  <2>1. Agrees(c, a, srv)
    BY <1>2 DEF Follows, Ahead
  <2> HIDE DEF a
  <2>2. Agrees(c', a, srv')
    BY <1>2, <2>1 DEF Agrees, Asks
  <2> QED
    BY <2>2 DEF a
<1> QED
  BY <1>1, <1>2 DEF Follows, Ahead

(* With all frames read, the store is the server's. *)
LEMMA UpToDate ==
  ASSUME Follows, c.sock.dn = <<>>, c.sock.live, c.sock.seat, srv.at = "match", match.life # "over"
  PROVE  Agrees(c, match, srv)
<1>1. After(match, c.sock.dn) = match
  BY ReadOneAtMost
<1> QED
  BY <1>1 DEF Follows, Ahead

(* Frames are sent over k to a store that is up to date, and leave it so. *)
LEMMA SentFollows ==
  ASSUME NEW k \in Connections, k.sock.dn = <<>>, Len(k.sock.up) <= 1, Len(k.held) <= 1,
         NEW frames \in Seq(Frames), Len(frames) <= 4, c' = Sent(k, frames), match' = match,
         k.sock.live /\ k.sock.seat /\ srv'.at = "match" /\ match.life # "over" => Agrees(k, After(match, frames), srv')
  PROVE  Follows'
<1>1. /\ c'.sock.seat = k.sock.seat /\ c'.sock.live = k.sock.live /\ c'.sock.up = k.sock.up /\ c'.held = k.held
      /\ c'.sock.dn = IF k.sock.seat THEN k.sock.dn \o frames ELSE k.sock.dn
  BY FramesSent
<1>2. k.sock.seat => c'.sock.dn = frames
  <2>1. <<>> \o frames = frames
    OBVIOUS
  <2> QED
    BY <1>1, <2>1
<1>3. Short(c')
  BY <1>1, <1>2 DEF Short
<1>4. ASSUME c'.sock.live, c'.sock.seat, srv'.at = "match", match.life # "over"
      PROVE  Agrees(c', After(match, c'.sock.dn), srv')
  <2>1. Agrees(k, After(match, frames), srv') /\ c'.sock.dn = frames
    BY <1>1, <1>2, <1>4
  <2> QED
    BY <1>1, <2>1 DEF Agrees, Asks
<1> QED
  BY <1>3, <1>4 DEF Follows, Ahead

(* An intent that is not the one taken from the socket is still asked for. *)
LEMMA StillAsked ==
  ASSUME c \in Connections, Short(c), c.sock.up # <<>>
  PROVE  LET k == [c EXCEPT !.sock.up = Tail(c.sock.up)]
         IN  /\ k \in Connections /\ k.sock.dn = c.sock.dn /\ k.sock.up = <<>> /\ k.held = c.held
             /\ k.sock.live = c.sock.live /\ k.sock.seat = c.sock.seat
             /\ \A intent : Asks(c, intent) /\ intent # Head(c.sock.up) => Asks(k, intent)
<1> DEFINE up == c.sock.up
           rest == Tail(up)
           k == [c EXCEPT !.sock.up = rest]
<1>1. up \in Seq(Intent) /\ Len(up) = 1
  <2>1. up \in Seq(Intent) /\ Len(up) <= 1 /\ up # <<>>
    BY DEF Connections, Sockets, Short
  <2> HIDE DEF up
  <2>2. Len(up) \in Nat /\ Len(up) # 0
    BY <2>1, EmptySeq
  <2>3. \A n \in Nat : n <= 1 /\ n # 0 => n = 1
    OBVIOUS
  <2>4. Len(up) = 1
    BY <2>1, <2>2, <2>3
  <2> QED
    BY <2>1, <2>4
<1>2. rest = <<>> /\ rest \in Seq(Intent)
  <2> HIDE DEF up
  <2>1. rest \in Seq(Intent) /\ Len(rest) = 0
    <3>1. Len(up) # 0
      BY <1>1
    <3>2. Tail(up) \in Seq(Intent) /\ Len(Tail(up)) = Len(up) - 1
      BY <1>1, <3>1, EmptySeq, HeadTailProperties
    <3> QED
      BY <1>1, <3>2
  <2> QED
    BY <2>1, EmptySeq
<1>3. \A intent : up = <<intent>> => Head(up) = intent
  OBVIOUS
<1> HIDE DEF rest
<1>4. /\ k \in Connections /\ k.sock.dn = c.sock.dn /\ k.sock.up = rest /\ k.held = c.held
      /\ k.sock.live = c.sock.live /\ k.sock.seat = c.sock.seat
  BY <1>2 DEF Connections, Sockets
<1> HIDE DEF k
<1>5. \A intent : Asks(c, intent) /\ intent # Head(c.sock.up) => Asks(k, intent)
  BY <1>3, <1>4 DEF Asks
<1> QED
  BY <1>2, <1>4, <1>5 DEF k, rest

(* A match that begins or is taken up again is told of in full. *)
LEMMA WelcomeFollows ==
  ASSUME NEW k \in Connections, k.sock.dn = <<>>, Len(k.sock.up) <= 1, Len(k.held) <= 1, match \in Stores,
         NEW s \in Servers, c' = Sent(k, <<Stated(s), HandOf(s)>>), match' = match,
         \A m : Same(m, s) => Same(m, srv')
  PROVE  Follows'
<1> DEFINE frames == <<Stated(s), HandOf(s)>>
<1>1. frames \in Seq(Frames) /\ Len(frames) <= 4
  <2>1. Len(frames) = 2
    OBVIOUS
  <2> QED
    BY <2>1, FramesOfServer
<1>2. ASSUME match.life # "over"
      PROVE  Agrees(k, After(match, frames), srv')
  <2> DEFINE a == After(match, frames)
  <2>1. a.life = "playing" /\ Same(a, s) /\ ~a.cast /\ ~a.optimistic
    BY <1>2, WelcomeShows
  <2> HIDE DEF a
  <2>2. Agrees(k, a, srv')
    BY <2>1 DEF Agrees
  <2> QED
    BY <2>2 DEF a
<1>3. c' = Sent(k, frames)
  OBVIOUS
<1> HIDE DEF frames
<1> QED
  BY <1>1, <1>2, <1>3, SentFollows
-----------------------------------------------------------------------------
(* A frame alone, sent over k with all others read. *)
LEMMA OneFollows ==
  ASSUME NEW k \in Connections, k.sock.dn = <<>>, Len(k.sock.up) <= 1, Len(k.held) <= 1,
         NEW e \in Frames, c' = Sent(k, <<e>>), match' = match,
         k.sock.live /\ k.sock.seat /\ srv'.at = "match" /\ match.life # "over" => Agrees(k, After(match, <<e>>), srv')
  PROVE  Follows'
<1> DEFINE frames == <<e>>
<1>1. frames \in Seq(Frames) /\ Len(frames) <= 4
  OBVIOUS
<1>2. /\ c' = Sent(k, frames)
      /\ k.sock.live /\ k.sock.seat /\ srv'.at = "match" /\ match.life # "over" => Agrees(k, After(match, frames), srv')
  OBVIOUS
<1> HIDE DEF frames
<1> QED
  BY <1>1, <1>2, SentFollows

(* The match is over for the server: nothing is left to be shown of it. *)
LEMMA NoMatchToFollow ==
  ASSUME NEW k \in Connections, k.sock.dn = <<>>, Len(k.sock.up) <= 1, Len(k.held) <= 1,
         c' = Sent(k, <<Ev("game_over")>>), match' = match, srv' = NotPlaying
  PROVE  Follows'
<1>1. Ev("game_over") \in Frames
  BY DEF Ev, Frames, Bare
<1>2. srv'.at # "match"
  BY DEF NotPlaying
<1> QED
  BY <1>1, <1>2, OneFollows

(* A phase that is passed, by the clock or by a player. *)
LEMMA PassFollows ==
  ASSUME NEW k \in Connections, k.sock.dn = <<>>, Len(k.sock.up) <= 1, Len(k.held) <= 1, match \in Stores, srv \in Servers,
         c' = Sent(k, <<PhaseOf(Passed(srv))>>), match' = match, srv' = Passed(srv),
         k.sock.live /\ k.sock.seat /\ match.life # "over" => Agrees(k, match, srv)
  PROVE  Follows'
<1> DEFINE e == PhaseOf(Passed(srv))
<1>1. e \in Frames /\ c' = Sent(k, <<e>>)
  BY MatchGoesOn, FramesOfServer
<1>2. ASSUME k.sock.live /\ k.sock.seat /\ match.life # "over"
      PROVE  Agrees(k, After(match, <<e>>), srv')
  <2> DEFINE a == After(match, <<e>>)
  <2>1. Agrees(k, match, srv)
    BY <1>2
  <2>2. a.life = "playing" /\ Same(a, Passed(srv)) /\ a.cast = match.cast /\ a.optimistic = match.optimistic
    BY <2>1, PassShows DEF Agrees
  <2> HIDE DEF a
  <2>3. Agrees(k, a, srv')
    BY <2>1, <2>2 DEF Agrees
  <2> QED
    BY <2>3 DEF a
<1> HIDE DEF e
<1> QED
  BY <1>1, <1>2, OneFollows

(* An offer, or its end. *)
LEMMA OfferFollows ==
  ASSUME NEW k \in Connections, k.sock.dn = <<>>, Len(k.sock.up) <= 1, Len(k.held) <= 1, match \in Stores, srv \in Servers,
         NEW type \in {"draw_offer", "draw_offer_sent", "draw_declined"}, NEW offer, srv' = [srv EXCEPT !.offer = offer],
         c' = Sent(k, <<Ev(type)>>), match' = match,
         k.sock.live /\ k.sock.seat /\ match.life # "over" => Agrees(k, match, srv)
  PROVE  Follows'
<1> DEFINE e == Ev(type)
<1>1. e \in Frames /\ c' = Sent(k, <<e>>)
  BY DEF Ev, Frames, Bare
<1>2. \A m : Same(m, srv) => Same(m, srv')
  BY DEF Same, Servers
<1>3. ASSUME k.sock.live /\ k.sock.seat /\ match.life # "over"
      PROVE  Agrees(k, After(match, <<e>>), srv')
  <2> DEFINE a == Applied(match, e)
  <2>1. Agrees(k, match, srv)
    BY <1>3
  <2>2. After(match, <<e>>) = a
    BY <1>1, ReadOneAtMost
  <2>3. a \in Stores /\ Alike(a, match) /\ a.cast = match.cast /\ a.optimistic = match.optimistic
    BY <2>1, OfferShows DEF Agrees
  <2> HIDE DEF a
  <2>4. a.life = "playing" /\ Same(a, srv)
    BY <2>1, <2>3 DEF Agrees, Same, Alike
  <2>5. Agrees(k, a, srv')
    BY <1>2, <2>1, <2>3, <2>4 DEF Agrees
  <2> QED
    BY <2>2, <2>5
<1> HIDE DEF e
<1> QED
  BY <1>1, <1>3, OneFollows

(* The end of a turn. *)
LEMMA RollFollows ==
  ASSUME NEW k \in Connections, k.sock.dn = <<>>, Len(k.sock.up) <= 1, Len(k.held) <= 1, match \in Stores, srv \in Servers,
         NEW turn \in Side, c' = Sent(k, RollFrames(srv, turn)), match' = match, srv' = Rolled(srv, turn),
         k.sock.live /\ k.sock.seat /\ match.life # "over" => match.life = "playing" /\ Same(match, srv)
  PROVE  Follows'
<1> DEFINE frames == RollFrames(srv, turn)
<1>1. frames \in Seq(Frames) /\ Len(frames) <= 4 /\ c' = Sent(k, frames)
  BY TurnRolls, RollIsShort
<1>2. ASSUME k.sock.live /\ k.sock.seat /\ match.life # "over"
      PROVE  Agrees(k, After(match, frames), srv')
  <2> DEFINE a == After(match, frames)
  <2>1. match.life = "playing" /\ Same(match, srv)
    BY <1>2
  <2>2. a.life = "playing" /\ Same(a, Rolled(srv, turn)) /\ ~a.cast /\ ~a.optimistic
    BY <2>1, RollShows
  <2> HIDE DEF a
  <2>3. Agrees(k, a, srv')
    BY <2>2 DEF Agrees
  <2> QED
    BY <2>3 DEF a
<1> HIDE DEF frames
<1> QED
  BY <1>1, <1>2, SentFollows

(* A message of the user, taken from the socket. *)
LEMMA AnswerFollows ==
  ASSUME IInv, Follows, ServerReads, match' = match
  PROVE  Follows'
<1> DEFINE up == Tail(c.sock.up)
           intent == Head(c.sock.up)
           k == [c EXCEPT !.sock.up = up]
<1>1. /\ c \in Connections /\ match \in Stores /\ srv \in Servers /\ "opp" \in Side
      /\ c.sock.dn = <<>> /\ c.sock.up # <<>> /\ c.sock.live /\ Short(c) /\ c.sock.up \in Seq(Intent)
  BY DEF IInv, Typed, Connections, Sockets, ServerReads, Read, Follows, Side
<1>2. /\ k \in Connections /\ k.sock.dn = <<>> /\ k.sock.up = <<>> /\ k.held = c.held
      /\ k.sock.live = c.sock.live /\ k.sock.seat = c.sock.seat
      /\ \A other : Asks(c, other) /\ other # intent => Asks(k, other)
  BY <1>1, StillAsked
<1>3. Len(k.sock.up) <= 1 /\ Len(k.held) <= 1 /\ intent \in Intent
  <2>1. Len(<<>>) = 0
    OBVIOUS
  <2>2. intent \in Intent
    BY <1>1
  <2> QED
    BY <1>1, <1>2, <2>1, <2>2 DEF Short
<1>4. ServerReads => IF Accepts(intent) THEN Answer(k, intent) ELSE Serve([k EXCEPT !.sock.dn = <<Ev("error")>>], srv)
  BY DEF ServerReads
<1> HIDE DEF k, intent, up
<1>5. ASSUME k.sock.live, k.sock.seat, match.life # "over", srv.at = "match"
      PROVE  /\ match.life = "playing" /\ Same(match, srv)
             /\ match.cast => intent = "cast" \/ Asks(k, "cast")
             /\ match.optimistic => intent = "move" \/ Asks(k, "move")
  <2>1. Agrees(c, match, srv)
    BY <1>1, <1>2, <1>5, UpToDate
  <2> QED
    BY <1>2, <2>1 DEF Agrees
<1>6. CASE Accepts(intent)
  <2>1. Answer(k, intent) /\ srv.at = "match"
    BY <1>4, <1>6 DEF Accepts
  <2>2. CASE intent = "move"
    <3>1. c' = Sent(k, RollFrames(srv, "opp")) /\ srv' = Rolled(srv, "opp")
      BY <2>1, <2>2 DEF Answer, Serve
    <3>2. k.sock.live /\ k.sock.seat /\ match.life # "over" => match.life = "playing" /\ Same(match, srv)
      BY <1>5, <2>1
    <3> QED
      BY <1>1, <1>2, <1>3, <3>1, <3>2, RollFollows
  <2>3. CASE intent = "cast"
    <3> DEFINE e == [type |-> "spell_cast", player |-> "me", freezes |-> FALSE]
    <3>1. c' = Sent(k, <<e>>) /\ srv' = [srv EXCEPT !.hand = srv.hand - 1]
      BY <2>1, <2>3 DEF Answer, Serve
    <3>2. e \in Frames
      BY DEF Frames, Side
    <3>3. srv.hand > 0
      BY <1>6, <2>3 DEF Accepts
    <3>4. ASSUME k.sock.live /\ k.sock.seat /\ match.life # "over"
          PROVE  Agrees(k, After(match, <<e>>), srv')
      <4> DEFINE a == After(match, <<e>>)
      <4>1. a.life = "playing" /\ Same(a, [srv EXCEPT !.hand = srv.hand - 1]) /\ ~a.cast /\ a.optimistic = match.optimistic
        BY <1>1, <1>5, <2>1, <3>3, <3>4, CastShows
      <4>2. a.optimistic => Asks(k, "move")
        BY <1>5, <2>1, <2>3, <3>4, <4>1
      <4> HIDE DEF a
      <4>3. Agrees(k, a, srv')
        BY <3>1, <4>1, <4>2 DEF Agrees
      <4> QED
        BY <4>3 DEF a
    <3> HIDE DEF e
    <3> QED
      BY <1>2, <1>3, <3>1, <3>2, <3>4, OneFollows
  <2>4. ASSUME intent \notin {"move", "cast"}, k.sock.live /\ k.sock.seat /\ match.life # "over"
        PROVE  Agrees(k, match, srv)
    BY <1>5, <2>1, <2>4 DEF Agrees
  <2>5. CASE intent = "pass"
    <3>1. c' = Sent(k, <<PhaseOf(Passed(srv))>>) /\ srv' = Passed(srv)
      BY <2>1, <2>5 DEF Answer, Serve
    <3> QED
      BY <1>1, <1>2, <1>3, <2>4, <2>5, <3>1, PassFollows
  <2>6. CASE intent = "offer"
    <3>1. c' = Sent(k, <<Ev("draw_offer_sent")>>) /\ srv' = [srv EXCEPT !.offer = "me"]
      BY <2>1, <2>6 DEF Answer, Serve
    <3> QED
      BY <1>1, <1>2, <1>3, <2>4, <2>6, <3>1, OfferFollows
  <2>7. CASE intent = "decline"
    <3>1. c' = k /\ srv' = [srv EXCEPT !.offer = "none"]
      BY <2>1, <2>7 DEF Answer, Serve
    <3>2. Same(match, srv) => Same(match, srv')
      BY <1>1, <3>1 DEF Same, Servers
    <3>3. After(match, c'.sock.dn) = match
      BY <1>2, <3>1, ReadOneAtMost
    <3>4. Ahead(c', match, srv')
      BY <2>4, <2>7, <3>1, <3>2, <3>3 DEF Ahead, Agrees
    <3>5. Len(c'.sock.dn) <= 4
      BY <1>2, <3>1
    <3> QED
      BY <1>3, <3>1, <3>4, <3>5 DEF Follows, Short
  <2>8. CASE intent \in {"accept", "resign"}
    <3>1. c' = Sent(k, <<Ev("game_over")>>) /\ srv' = NotPlaying
      BY <2>1, <2>8 DEF Answer, Serve
    <3> QED
      BY <1>2, <1>3, <3>1, NoMatchToFollow
  <2> QED
    BY <1>3, <2>2, <2>3, <2>5, <2>6, <2>7, <2>8 DEF Intent
<1>7. CASE ~Accepts(intent)
  <2> DEFINE dn == <<Ev("error")>>
  <2>1. c' = [k EXCEPT !.sock.dn = dn] /\ srv' = srv
    BY <1>4, <1>7 DEF Serve
  <2>2. Len(dn) = 1 /\ dn \in Seq(Frames)
    BY OneFrame DEF Bare
  <2>3. /\ c'.sock.up = <<>> /\ c'.held = c.held /\ c'.sock.live = k.sock.live /\ c'.sock.seat = k.sock.seat
        /\ c'.sock.dn = dn
    <3> HIDE DEF dn
    <3> QED
      BY <1>2, <2>1, <2>2 DEF Connections, Sockets
  <2>4. ASSUME k.sock.live, k.sock.seat, match.life # "over", srv.at = "match"
        PROVE  Agrees(c', After(match, dn), srv)
    <3> DEFINE a == After(match, dn)
    <3>1. match.life = "playing" /\ Same(match, srv)
      BY <1>5, <2>4
    <3>2. Alike(a, match) /\ ~a.cast /\ ~a.optimistic
      BY <1>1, <3>1, RefusalShows
    <3> HIDE DEF a
    <3>3. Agrees(c', a, srv)
      BY <3>1, <3>2 DEF Agrees, Alike, Same
    <3> QED
      BY <3>3 DEF a
  <2>5. Ahead(c', match, srv')
    BY <2>1, <2>3, <2>4 DEF Ahead
  <2>6. Short(c')
    BY <1>2, <1>3, <2>2, <2>3 DEF Short
  <2> QED
    BY <2>5, <2>6 DEF Follows
<1> QED
  BY <1>6, <1>7

(* Every step of the server. *)
LEMMA ServerIsFollowed ==
  ASSUME IInv, Follows, Server
  PROVE  Follows'
<1>1. match' = match
  BY ServerSteps DEF ClientIdle
<1>2. /\ c \in Connections /\ match \in Stores /\ srv \in Servers /\ "me" \in Side /\ "opp" \in Side
      /\ Len(c.sock.up) <= 1 /\ Len(c.held) <= 1
  BY DEF IInv, Typed, Follows, Short, Side
<1>3. c.sock.dn = <<>> /\ c.sock.live /\ c.sock.seat /\ srv.at = "match" /\ match.life # "over" => Agrees(c, match, srv)
  BY UpToDate
<1>4. CASE ServerAccepts
  <2> DEFINE k == Accepted(c)
  <2>1. c.sock.st = "handshake"
    BY <1>4 DEF ServerAccepts
  <2>2. k \in Connections /\ k.held = c.held /\ k.sock.seat /\ k.sock.dn = <<>>
    BY <2>1, ConnectionAccepted
  <2>3. k.sock.up = c.sock.up
    BY <1>2 DEF Accepted, Connections, Sockets
  <2>4. ~c.sock.seat
    BY <2>1 DEF IInv, Announced, SilentAtFirst
  <2>5. Len(k.sock.up) <= 1 /\ Len(k.held) <= 1
    BY <1>2, <2>2, <2>3
  <2> HIDE DEF k
  <2>6. CASE c' = Sent(k, <<Stated(srv), HandOf(srv)>>) /\ srv' = [srv EXCEPT !.gone = FALSE]
    <3>1. \A m : Same(m, srv) => Same(m, srv')
      BY <1>2, <2>6 DEF Same, Servers
    <3> QED
      BY <1>1, <1>2, <2>2, <2>5, <2>6, <3>1, WelcomeFollows
  <2>7. CASE c' = k /\ srv' = [NotPlaying EXCEPT !.at = "waiting"]
    <3>1. srv'.at # "match"
      BY <2>7 DEF NotPlaying
    <3>2. Len(c'.sock.dn) <= 4
      BY <2>2, <2>7
    <3> QED
      BY <2>5, <2>7, <3>1, <3>2 DEF Follows, Short, Ahead
  <2>8. ASSUME NEW s \in NewMatches("me"), c' = Sent(k, <<Stated(s), HandOf(s)>>), srv' = s
        PROVE  Follows'
    <3>1. s \in Servers
      BY <1>2, MatchesBegin
    <3> QED
      BY <1>1, <1>2, <2>2, <2>5, <2>8, <3>1, WelcomeFollows
  <2>9. ASSUME NEW code \in Code, c' = [c EXCEPT !.sock.st = "accepted", !.sock.dn = <<Closes(code)>>]
        PROVE  Follows'
    <3> DEFINE dn == <<Closes(code)>>
    <3>1. c' = [c EXCEPT !.sock.st = "accepted", !.sock.dn = dn]
      BY <2>9
    <3> HIDE DEF dn
    <3>2. c'.sock.seat = c.sock.seat /\ c'.sock.up = c.sock.up /\ c'.held = c.held
      BY <1>2, <3>1 DEF Connections, Sockets
    <3> QED
      BY <1>2, <2>4, <3>2, SeatLost
  <2>10. \/ c' = Sent(k, <<Stated(srv), HandOf(srv)>>) /\ srv' = [srv EXCEPT !.gone = FALSE]
         \/ c' = k /\ srv' = [NotPlaying EXCEPT !.at = "waiting"]
         \/ \E s \in NewMatches("me") : c' = Sent(k, <<Stated(s), HandOf(s)>>) /\ srv' = s
         \/ \E code \in Code : c' = [c EXCEPT !.sock.st = "accepted", !.sock.dn = <<Closes(code)>>]
    BY <1>4 DEF ServerAccepts, Serve, Code, k
  <2> QED
    BY <2>6, <2>7, <2>8, <2>9, <2>10
<1>5. CASE MatchStarts
  <2>1. PICK s \in NewMatches("opp") : c' = Sent(c, <<Stated(s), HandOf(s)>>) /\ srv' = s
    BY <1>5 DEF MatchStarts, Serve
  <2>2. s \in Servers /\ c.sock.dn = <<>>
    BY <1>2, <1>5, MatchesBegin DEF MatchStarts, Read
  <2> QED
    BY <1>1, <1>2, <2>1, <2>2, WelcomeFollows
<1>6. CASE ChallengeCloses \/ OtherTab
  <2>1. PICK code \in Code : c' = [Sent(c, <<Closes(code)>>) EXCEPT !.sock.seat = FALSE]
    BY <1>6 DEF ChallengeCloses, OtherTab, Serve, Code
  <2> DEFINE k == Sent(c, <<Closes(code)>>)
             frames == <<Closes(code)>>
  <2>2. frames \in Seq(Frames) /\ k = Sent(c, frames)
    <3>1. Closes(code) \in Frames
      BY <1>2, FramesOfServer
    <3> QED
      BY <3>1
  <2> HIDE DEF frames
  <2>3. k \in Connections /\ k.sock.up = c.sock.up /\ k.held = c.held
    BY <1>2, <2>2, FramesSent
  <2> HIDE DEF k
  <2>4. c' = [k EXCEPT !.sock.seat = FALSE]
    BY <2>1 DEF k
  <2>5. ~c'.sock.seat /\ c'.sock.up = k.sock.up /\ c'.held = k.held
    BY <2>3, <2>4 DEF Connections, Sockets
  <2> QED
    BY <1>2, <2>3, <2>5, SeatLost
<1>7. CASE OtherTabLeaves
  <2>1. c' = c /\ ~c.sock.seat
    BY <1>7 DEF OtherTabLeaves, Serve, Seated
  <2> QED
    BY <1>2, <2>1, SeatLost
<1>8. CASE AbandonTimer
  <2>1. c' = c /\ srv'.at # "match"
    BY <1>8 DEF AbandonTimer, Serve, NotPlaying
  <2> QED
    BY <1>1, <2>1, StillFollows
<1>9. CASE Opponent
  <2>1. srv.at = "match" /\ c.sock.dn = <<>>
    BY <1>9 DEF Opponent, Read
  <2>2. c.sock.live /\ c.sock.seat /\ match.life # "over" => Agrees(c, match, srv)
    BY <1>3, <2>1
  <2>3. CASE Serve(Sent(c, <<PhaseOf(Passed(srv))>>), Passed(srv))
    <3>1. c' = Sent(c, <<PhaseOf(Passed(srv))>>) /\ srv' = Passed(srv)
      BY <2>3 DEF Serve
    <3> QED
      BY <1>1, <1>2, <2>1, <2>2, <3>1, PassFollows
  <2>4. CASE Serve(Sent(c, <<[type |-> "spell_cast", player |-> "opp", freezes |-> TRUE]>>), [srv EXCEPT !.frozen = TRUE])
    <3> DEFINE e == [type |-> "spell_cast", player |-> "opp", freezes |-> TRUE]
    <3>1. c' = Sent(c, <<e>>) /\ srv' = [srv EXCEPT !.frozen = TRUE]
      BY <2>4 DEF Serve
    <3>2. e \in Frames
      BY DEF Frames, Side
    <3>3. ASSUME c.sock.live /\ c.sock.seat /\ match.life # "over"
          PROVE  Agrees(c, After(match, <<e>>), srv')
      <4> DEFINE a == After(match, <<e>>)
      <4>1. Agrees(c, match, srv)
        BY <2>2, <3>3
      <4>2. a.life = "playing" /\ Same(a, [srv EXCEPT !.frozen = TRUE]) /\ a.cast = match.cast /\ a.optimistic = match.optimistic
        BY <1>2, <4>1, FreezeShows DEF Agrees
      <4> HIDE DEF a
      <4>3. Agrees(c, a, srv')
        BY <3>1, <4>1, <4>2 DEF Agrees
      <4> QED
        BY <4>3 DEF a
    <3> HIDE DEF e
    <3> QED
      BY <1>1, <1>2, <2>1, <3>1, <3>2, <3>3, OneFollows
  <2>5. CASE Serve(Sent(c, RollFrames(srv, "me")), Rolled(srv, "me"))
    <3>1. c' = Sent(c, RollFrames(srv, "me")) /\ srv' = Rolled(srv, "me")
      BY <2>5 DEF Serve
    <3> QED
      BY <1>1, <1>2, <2>1, <2>2, <3>1, RollFollows DEF Agrees
  <2>6. CASE Serve(Sent(c, <<Ev("draw_offer")>>), [srv EXCEPT !.offer = "opp"])
    <3>1. c' = Sent(c, <<Ev("draw_offer")>>) /\ srv' = [srv EXCEPT !.offer = "opp"]
      BY <2>6 DEF Serve
    <3> QED
      BY <1>1, <1>2, <2>1, <2>2, <3>1, OfferFollows
  <2>7. CASE Serve(Sent(c, <<Ev("draw_declined")>>), [srv EXCEPT !.offer = "none"])
    <3>1. c' = Sent(c, <<Ev("draw_declined")>>) /\ srv' = [srv EXCEPT !.offer = "none"]
      BY <2>7 DEF Serve
    <3> QED
      BY <1>1, <1>2, <2>1, <2>2, <3>1, OfferFollows
  <2>8. CASE Over
    <3>1. c' = Sent(c, <<Ev("game_over")>>) /\ srv' = NotPlaying
      BY <2>8 DEF Over, Serve
    <3> QED
      BY <1>1, <1>2, <2>1, <3>1, NoMatchToFollow
  <2> QED
    BY <1>9, <2>3, <2>4, <2>5, <2>6, <2>7, <2>8 DEF Opponent
<1>10. CASE PhaseTimer
  <2>1. srv.at = "match" /\ c.sock.dn = <<>> /\ c' = Sent(c, <<PhaseOf(Passed(srv))>>) /\ srv' = Passed(srv)
    BY <1>10 DEF PhaseTimer, Read, Serve
  <2>2. c.sock.live /\ c.sock.seat /\ match.life # "over" => Agrees(c, match, srv)
    BY <1>3, <2>1
  <2> QED
    BY <1>1, <1>2, <2>1, <2>2, PassFollows
<1>11. CASE ServerReads
  BY <1>1, <1>11, AnswerFollows
<1> QED
  BY <1>4, <1>5, <1>6, <1>7, <1>8, <1>9, <1>10, <1>11 DEF Server
-----------------------------------------------------------------------------
(* What a step of the client makes of the connection and the store. *)
LEMMA BecomesWhat ==
  ASSUME NEW k \in Connections, NEW m, NEW p, Becomes(k, m, p)
  PROVE  match' = m /\ c'.sock = k.sock /\ c'.held = k.held
BY DEF Becomes, armSilence, Connections

(* The store stays as it is. *)
LEMMA StaysWhat ==
  ASSUME NEW k \in Connections, Stays(k)
  PROVE  match' = match /\ c'.sock = k.sock /\ c'.held = k.held
BY BecomesWhat DEF Stays

(* The socket is dropped, and what was held back with it. *)
LEMMA SocketLost ==
  ASSUME c'.sock = NoSocket, c'.held = <<>>
  PROVE  Follows'
<1>1. ~NoSocket.seat /\ NoSocket.up = <<>> /\ Len(<<>>) = 0
  BY NoSocketIsASocket
<1> QED
  BY <1>1, SeatLost

(* The same, without a change of the connection. *)
LEMMA NothingMoves ==
  ASSUME Follows, c'.sock = c.sock, c'.held = c.held, match' = match, srv' = srv
  PROVE  Follows'
BY StillFollows

(* close, open and connect, and what is held back. *)
LEMMA HeldBack ==
  ASSUME NEW k \in Connections
  PROVE  /\ close(k).held = <<>>
         /\ \A params : open(k, params).held = k.held /\ open(k, params).sock = k.sock
         /\ connect(k).held = k.held /\ connect(k).sock = k.sock
         /\ dropSocket(k).held = <<>> /\ dropSocket(k).sock = NoSocket
         /\ scheduleRetry(k).held = k.held /\ scheduleRetry(k).sock = k.sock
<1>1. close(k).held = <<>>
  BY DEF close, dropSocket, NewGeneration, Connections
<1>2. connect(k).held = k.held /\ connect(k).sock = k.sock
  BY DEF connect, NewGeneration, Connections
<1>3. ASSUME NEW params
      PROVE  open(k, params).held = k.held /\ open(k, params).sock = k.sock
  <2>1. CASE k.kind \notin Stopped
    BY <2>1 DEF open
  <2>2. CASE k.kind \in Stopped
    BY <2>2 DEF open, connect, NewGeneration, Connections
  <2> QED
    BY <2>1, <2>2
<1>4. dropSocket(k).held = <<>> /\ dropSocket(k).sock = NoSocket
  BY DEF dropSocket, Connections
<1>5. scheduleRetry(k).held = k.held /\ scheduleRetry(k).sock = k.sock
  BY DEF scheduleRetry, Connections
<1> QED
  BY <1>1, <1>2, <1>3, <1>4, <1>5

(* Every step of the user. *)
LEMMA UserFollows ==
  ASSUME IInv, Follows, User
  PROVE  Follows'
<1>0. c \in Connections /\ Sound(c) /\ DrivenBy(c, match.life)
  BY SoundNow DEF Sound
<1>1. close(c) \in Connections /\ close(c).sock = NoSocket /\ close(c).held = <<>>
  BY <1>0, Closed, HeldBack DEF Fresh, Sound
<1>2. ASSUME NEW what \in {"wait", "bot"}, Enters(what)
      PROVE  Follows'
  <2> DEFINE k == open(close(c), what)
  <2>1. k.held = <<>> /\ k.sock = NoSocket
    BY <1>1, HeldBack
  <2>2. k \in Connections
    BY <1>0, Closed, Opened DEF Sound, Fresh
  <2>3. Becomes(k, enterQueue(match), what)
    BY <1>2 DEF Enters
  <2> HIDE DEF k
  <2> QED
    BY <2>1, <2>2, <2>3, BecomesWhat, SocketLost
<1>3. CASE cancel
  <2>1. Becomes(close(c), initialMatchState, pending)
    BY <1>3 DEF cancel
  <2> QED
    BY <1>1, <2>1, BecomesWhat, SocketLost
<1>4. CASE SignOut
  <2>1. Becomes(close(c), initialMatchState, pending)
    BY <1>4 DEF SignOut
  <2> QED
    BY <1>1, <2>1, BecomesWhat, SocketLost
<1>5. CASE leave \/ ResumeTimeout
  <2>1. c' = close(c)
    BY <1>5 DEF leave, ResumeTimeout, Forgets
  <2> QED
    BY <1>1, <2>1, SocketLost
<1>6. CASE resumeSaved
  <2>1. c' = open(c, "same") /\ match' = match /\ srv' = srv
    BY <1>6 DEF resumeSaved, ServerIdle
  <2> QED
    BY <1>0, <2>1, HeldBack, NothingMoves
<1>7. CASE resumeHere
  <2> DEFINE k == open(c, "same")
  <2>1. Stays(k) /\ srv' = srv
    BY <1>7 DEF resumeHere, ServerIdle
  <2>2. k \in Connections /\ k.sock = c.sock /\ k.held = c.held
    BY <1>0, Opened, HeldBack DEF Sound
  <2> HIDE DEF k
  <2> QED
    BY <2>1, <2>2, StaysWhat, NothingMoves
<1>8. CASE SignIn
  <2>1. c' = c /\ match' = match /\ srv' = srv
    BY <1>8 DEF SignIn
  <2> QED
    BY <2>1, NothingMoves
<1>9. CASE Reload
  <2>1. c' = Idle
    BY <1>9 DEF Reload
  <2> QED
    BY <2>1, SocketLost DEF Idle
<1>10. CASE Online
  <2> DEFINE k == connect([c EXCEPT !.retry = FALSE])
             n == [c EXCEPT !.retry = FALSE]
  <2>1. Stays(k) /\ srv' = srv /\ c.kind = "reconnecting"
    BY <1>10 DEF Online, nudge, ServerIdle
  <2>2. k \in Connections /\ k.sock = c.sock
    BY <1>0, <2>1, TriesAgain DEF Sound
  <2>3. n \in Connections /\ n.held = c.held
    BY <1>0 DEF Connections
  <2>4. k.held = n.held
    BY <2>3, HeldBack
  <2> HIDE DEF k, n
  <2> QED
    BY <2>1, <2>2, <2>3, <2>4, StaysWhat, NothingMoves
<1>11. CASE AppResumed
  <2> DEFINE n == [c EXCEPT !.retry = FALSE]
             d == dropSocket(n)
             k == connect(d)
  <2>1. Stays(k)
    BY <1>11 DEF AppResumed, wake
  <2>2. n \in Connections
    BY <1>0 DEF Connections
  <2>3. d \in Connections /\ d.held = <<>> /\ d.sock = NoSocket
    <3>1. d.held = <<>> /\ d.sock = NoSocket
      BY <2>2, HeldBack
    <3>2. (n.old \/ n.sock.seat) \in BOOLEAN /\ <<>> \in Seq(Intent)
      OBVIOUS
    <3>3. d \in Connections
      BY <2>2, <3>2, NoSocketIsASocket DEF dropSocket, Connections
    <3> QED
      BY <3>1, <3>3
  <2> HIDE DEF d
  <2>4. k.held = <<>> /\ k.sock = NoSocket
    BY <2>3, HeldBack
  <2>5. k \in Connections
    BY <2>3 DEF connect, NewGeneration, Connections, Kinds
  <2> HIDE DEF k
  <2> QED
    BY <2>1, <2>4, <2>5, StaysWhat, SocketLost
<1> QED
  BY <1>2, <1>3, <1>4, <1>5, <1>6, <1>7, <1>8, <1>9, <1>10, <1>11 DEF User, findMatch, joinChallenge, playBot

(* A frame is read: what remains of the way leads where it led.  One that  *)
(* tells of an end over drops the socket.                                  *)
LEMMA ReadingFollows ==
  ASSUME IInv, Follows, Deliver
  PROVE  Follows'
<1> DEFINE q == c.sock.dn
           e == Head(q)
           rest == Tail(q)
           n == [c EXCEPT !.sock.dn = rest]
<1>1. /\ c \in Connections /\ match \in Stores /\ q \in Seq(Frames) /\ q # <<>> /\ c.sock.st = "open"
      /\ OnFrame(n, e) /\ srv' = srv
  BY DEF IInv, Typed, Connections, Sockets, Deliver, ServerIdle
<1>2. e \in Frames /\ rest \in Seq(Frames) /\ (Len(q) <= 4 => Len(rest) <= 4)
  <2> HIDE DEF q
  <2> QED
    BY <1>1
<1>3. c.sock.seat => After(match, q) = After(Applied(match, e), rest)
  <2>1. c.sock.seat => Len(q) <= 4
    BY DEF Follows, Short
  <2> HIDE DEF q
  <2> QED
    BY <1>1, <2>1, HeadFirst
<1> HIDE DEF rest, e
<1>4. /\ n \in Connections /\ n.sock.dn = rest /\ n.sock.up = c.sock.up /\ n.sock.live = c.sock.live
      /\ n.sock.seat = c.sock.seat /\ n.held = c.held
  BY <1>1, <1>2 DEF Connections, Sockets
<1> HIDE DEF n
<1>5. CASE e.type = "close"
  <2> DEFINE k == onClose(n, e.code)
             gone == [n EXCEPT !.sock = NoSocket, !.silence = FALSE, !.held = <<>>]
  <2>1. Stays(k)
    BY <1>1, <1>5 DEF OnFrame
  <2>2. k = IF StatusOf(e.code) = "reconnecting" THEN scheduleRetry(gone) ELSE [gone EXCEPT !.kind = StatusOf(e.code)]
    BY DEF onClose
  <2>3. gone \in Connections /\ gone.sock = NoSocket /\ gone.held = <<>>
    <3>1. <<>> \in Seq(Intent)
      OBVIOUS
    <3> QED
      BY <1>4, <3>1, NoSocketIsASocket DEF Connections
  <2>4. StatusOf(e.code) \in Kinds /\ "reconnecting" \in Kinds
    BY DEF StatusOf, Kinds, Stopped
  <2> HIDE DEF gone
  <2>5. k \in Connections /\ k.sock = NoSocket /\ k.held = <<>>
    BY <2>2, <2>3, <2>4 DEF scheduleRetry, Connections
  <2> HIDE DEF k
  <2> QED
    BY <2>1, <2>5, StaysWhat, SocketLost
<1>6. CASE e.type # "close"
  <2> DEFINE k == armSilence(n, match.life)
             m == applyServerEvent(match, e)
  <2>1. Becomes(k, m, pending)
    BY <1>1, <1>6 DEF OnFrame
  <2>2. k \in Connections /\ k.sock = n.sock /\ k.held = n.held
    BY <1>4 DEF armSilence, Connections
  <2>3. m = Applied(match, e)
    BY <1>6 DEF Applied
  <2> HIDE DEF k, m
  <2>4. match' = m /\ c'.sock = n.sock /\ c'.held = c.held
    BY <1>4, <2>1, <2>2, BecomesWhat
  <2>5. Short(c')
    BY <1>2, <1>4, <2>4 DEF Follows, Short
  <2>6. match.life = "over" => m.life = "over"
    BY <1>1, <1>2, <2>3, AppliedKeeps
  <2>7. ASSUME c'.sock.live, c'.sock.seat, srv'.at = "match", m.life # "over"
        PROVE  Agrees(c', After(m, c'.sock.dn), srv')
    <3> DEFINE a == After(match, q)
    <3>1. Agrees(c, a, srv)
      BY <1>1, <1>4, <2>4, <2>6, <2>7 DEF Follows, Ahead
    <3>2. After(m, c'.sock.dn) = a
      BY <1>3, <1>4, <2>3, <2>4, <2>7
    <3> HIDE DEF a
    <3>3. Agrees(c', a, srv')
      BY <1>1, <1>4, <2>4, <3>1 DEF Agrees, Asks
    <3> QED
      BY <3>2, <3>3
  <2> QED
    BY <2>4, <2>5, <2>7 DEF Follows, Ahead
<1> QED
  BY <1>5, <1>6

(* The events of the network and the timers of the connection. *)
LEMMA NetworkFollows ==
  ASSUME IInv, Follows, Network
  PROVE  Follows'
<1>0. c \in Connections /\ Sound(c) /\ DrivenBy(c, match.life) /\ match \in Stores /\ srv \in Servers
  BY SoundNow DEF Sound
<1>00. Len(c.sock.up) <= 1 /\ Len(c.held) <= 1
  BY DEF Follows, Short
<1>1. CASE TicketReply
  <2>1. Ticket(c) /\ ~c.sock.seat
    BY <1>0, <1>1 DEF TicketReply, DrivenBy, Sound
  <2> DEFINE sock == [NoSocket EXCEPT !.st = "handshake", !.live = TRUE]
             k1 == [c EXCEPT !.ticket = FALSE, !.sock = sock]
             k2 == [c EXCEPT !.ticket = FALSE, !.kind = "unauthorized"]
             k3 == scheduleRetry([c EXCEPT !.ticket = FALSE])
  <2>2. sock \in Sockets /\ ~sock.seat /\ sock.up = <<>>
    BY NoSocketIsASocket DEF Sockets
  <2> HIDE DEF sock
  <2>3. k1 \in Connections /\ k1.sock = sock /\ k1.held = c.held
    BY <1>0, <2>2 DEF Connections
  <2>4. "unauthorized" \in Kinds /\ "reconnecting" \in Kinds
    BY DEF Kinds, Stopped
  <2>5. k2 \in Connections /\ k2.sock = c.sock /\ k2.held = c.held
    BY <1>0, <2>4 DEF Connections
  <2>6. k3 \in Connections /\ k3.sock = c.sock /\ k3.held = c.held
    BY <1>0, <2>4 DEF scheduleRetry, Connections
  <2>7. Stays(k1) \/ Stays(k2) \/ Stays(k3)
    BY <2>1 DEF Ticket, sock
  <2> HIDE DEF k1, k2, k3
  <2>8. ~c'.sock.seat /\ c'.held = c.held /\ (c'.sock.up = <<>> \/ c'.sock.up = c.sock.up)
    BY <2>1, <2>2, <2>3, <2>5, <2>6, <2>7, StaysWhat
  <2>9. Len(<<>>) = 0
    OBVIOUS
  <2> QED
    BY <1>00, <2>8, <2>9, SeatLost
<1>2. CASE HandshakeFails \/ NetworkClose
  <2> DEFINE k == onClose(c, "1006")
             gone == [c EXCEPT !.sock = NoSocket, !.silence = FALSE, !.held = <<>>]
  <2>1. Stays(k)
    BY <1>2 DEF HandshakeFails, NetworkClose
  <2>2. k = scheduleRetry(gone)
    BY DEF onClose, StatusOf
  <2>3. gone \in Connections /\ gone.sock = NoSocket /\ gone.held = <<>>
    <3>1. <<>> \in Seq(Intent)
      OBVIOUS
    <3> QED
      BY <1>0, <3>1, NoSocketIsASocket DEF Connections
  <2>4. "reconnecting" \in Kinds
    BY DEF Kinds
  <2> HIDE DEF gone
  <2>5. k \in Connections /\ k.sock = NoSocket /\ k.held = <<>>
    BY <2>2, <2>3, <2>4 DEF scheduleRetry, Connections
  <2> HIDE DEF k
  <2> QED
    BY <2>1, <2>5, StaysWhat, SocketLost
<1>3. CASE HandshakeEnds
  <2> DEFINE n == [c EXCEPT !.kind = "open", !.sock.st = "open"]
             k == armSilence(n, match.life)
  <2>1. Stays(k) /\ srv' = srv
    BY <1>3 DEF HandshakeEnds, onOpen, ServerIdle
  <2>2. "open" \in Kinds
    BY DEF Kinds
  <2>3. /\ n \in Connections /\ n.held = c.held /\ n.sock.live = c.sock.live /\ n.sock.seat = c.sock.seat
        /\ n.sock.up = c.sock.up /\ n.sock.dn = c.sock.dn
    BY <1>0, <2>2 DEF Connections, Sockets
  <2> HIDE DEF n
  <2>4. k \in Connections /\ k.sock = n.sock /\ k.held = n.held
    BY <2>3 DEF armSilence, Connections
  <2> HIDE DEF k
  <2>5. match' = match /\ c'.sock = k.sock /\ c'.held = k.held
    BY <2>1, <2>4, StaysWhat
  <2> QED
    BY <2>1, <2>3, <2>4, <2>5, StillFollows
<1>4. CASE Cut
  <2> DEFINE sock == [NoSocket EXCEPT !.st = "open"]
             k == [c EXCEPT !.sock = sock]
  <2>1. Stays(k)
    BY <1>4 DEF Cut
  <2>2. sock \in Sockets /\ ~sock.seat /\ sock.up = <<>> /\ Len(<<>>) = 0
    BY NoSocketIsASocket DEF Sockets
  <2> HIDE DEF sock
  <2>3. k \in Connections /\ k.sock = sock /\ k.held = c.held
    BY <1>0, <2>2 DEF Connections
  <2> HIDE DEF k
  <2>4. c'.sock = sock /\ c'.held = c.held
    BY <2>1, <2>3, StaysWhat
  <2> QED
    BY <1>00, <2>2, <2>4, SeatLost
<1>5. CASE OldCloses
  <2> DEFINE k == [c EXCEPT !.old = FALSE]
  <2>1. Stays(k) /\ srv' \in {srv, Left(srv)}
    BY <1>5 DEF OldCloses, LeftBy
  <2>2. k \in Connections /\ k.sock = c.sock /\ k.held = c.held
    BY <1>0 DEF Connections
  <2> HIDE DEF k
  <2>3. match' = match /\ c'.sock = c.sock /\ c'.held = c.held
    BY <2>1, <2>2, StaysWhat
  <2>4. srv'.at = "match" => srv.at = "match" /\ \A m : Same(m, srv) => Same(m, srv')
    <3>1. CASE srv' = srv
      BY <3>1
    <3>2. CASE srv' = Left(srv) /\ srv.at = "match"
      <4>1. srv' = [srv EXCEPT !.gone = TRUE]
        BY <3>2 DEF Left
      <4> QED
        BY <1>0, <3>2, <4>1 DEF Same, Servers
    <3>3. CASE srv' = Left(srv) /\ srv.at # "match"
      <4>1. srv' = NotPlaying
        BY <3>3 DEF Left
      <4> QED
        BY <4>1 DEF NotPlaying
    <3> QED
      BY <2>1, <3>1, <3>2, <3>3
  <2> QED
    BY <2>3, <2>4, StillFollows
<1>6. CASE RetryTimer
  <2> DEFINE n == [c EXCEPT !.retry = FALSE]
             k == connect(n)
  <2>1. Stays(k) /\ srv' = srv
    BY <1>6 DEF RetryTimer, ServerIdle
  <2>2. n \in Connections /\ n.sock = c.sock /\ n.held = c.held
    BY <1>0 DEF Connections
  <2> HIDE DEF n
  <2>3. k.sock = n.sock /\ k.held = n.held
    BY <2>2, HeldBack
  <2>4. k \in Connections
    BY <2>2 DEF connect, NewGeneration, Connections, Kinds
  <2> HIDE DEF k
  <2> QED
    BY <2>1, <2>2, <2>3, <2>4, StaysWhat, NothingMoves
<1>7. CASE SilenceTimer
  <2> DEFINE d == dropSocket(NewGeneration(c))
             k == scheduleRetry(d)
  <2>1. Stays(k)
    BY <1>7 DEF SilenceTimer
  <2>2. d \in Connections /\ d.sock = NoSocket /\ d.held = <<>>
    BY <1>0, Dropped DEF Fresh, Sound
  <2> HIDE DEF d
  <2>3. k.held = <<>> /\ k.sock = NoSocket
    BY <2>2, HeldBack
  <2>4. k \in Connections
    BY <2>2 DEF scheduleRetry, Connections, Kinds
  <2> HIDE DEF k
  <2> QED
    BY <2>1, <2>3, <2>4, StaysWhat, SocketLost
<1>8. CASE TimerUpdates
  <2> DEFINE e == [type |-> "timer_update", turn |-> srv.turn]
             m == applyServerEvent(match, e)
  <2>1. /\ srv.at = "match" /\ c.sock.seat /\ c.sock.dn = <<>> /\ Becomes(c, m, pending) /\ srv' = srv
    BY <1>8 DEF TimerUpdates, ServerIdle
  <2>2. /\ Alike(m, match) /\ m.cast = match.cast /\ m.optimistic = match.optimistic
    <3>1. m = match \/ m = TimerUpdate(match, e)
      BY DEF applyServerEvent
    <3> QED
      BY <1>0, <3>1 DEF TimerUpdate, Alike, Stores
  <2> HIDE DEF m, e
  <2>3. match' = m /\ c'.sock = c.sock /\ c'.held = c.held
    BY <1>0, <2>1, BecomesWhat
  <2>4. After(m, c'.sock.dn) = m
    BY <2>1, <2>3, ReadOneAtMost
  <2>5. ASSUME c'.sock.live, m.life # "over"
        PROVE  Agrees(c', m, srv')
    <3>1. Agrees(c, match, srv)
      BY <2>1, <2>2, <2>3, <2>5, UpToDate DEF Alike
    <3> QED
      BY <2>1, <2>2, <2>3, <3>1 DEF Agrees, Asks, Alike, Same
  <2>6. Short(c')
    BY <2>3 DEF Follows, Short
  <2> QED
    BY <2>3, <2>4, <2>5, <2>6 DEF Follows, Ahead
<1>9. CASE Deliver
  BY <1>9, ReadingFollows
<1> QED
  BY <1>1, <1>2, <1>3, <1>4, <1>5, <1>6, <1>7, <1>8, <1>9 DEF Network

(* What the match screen sends: what it shows ahead of the server, it has  *)
(* asked the server for.                                                   *)
LEMMA ScreenFollows ==
  ASSUME IInv, Follows, Screen
  PROVE  Follows'
<1>0. c \in Connections /\ match \in Stores /\ c.sock.dn \in Seq(Frames)
  BY DEF IInv, Typed, Connections, Sockets
<1>1. CASE SpacingTimer
  <2> DEFINE up == IF c.sock.live THEN c.held ELSE c.sock.up
             k == [c EXCEPT !.held = <<>>, !.sock.up = up]
  <2>1. Stays(k) /\ c.sock.up = <<>> /\ srv' = srv
    BY <1>0, <1>1 DEF SpacingTimer, ServerIdle, Connections, Sockets
  <2>2. up \in Seq(Intent) /\ <<>> \in Seq(Intent)
    BY <1>0 DEF Connections, Sockets
  <2> HIDE DEF up
  <2>3. /\ k \in Connections /\ k.held = <<>> /\ k.sock.up = up /\ k.sock.live = c.sock.live
        /\ k.sock.seat = c.sock.seat /\ k.sock.dn = c.sock.dn
    BY <1>0, <2>2 DEF Connections, Sockets
  <2> HIDE DEF k
  <2>4. match' = match /\ c'.sock = k.sock /\ c'.held = k.held
    BY <2>1, <2>3, StaysWhat
  <2>5. Short(c')
    <3>1. Len(up) <= 1 /\ Len(<<>>) = 0
      BY DEF up, Follows, Short
    <3> QED
      BY <2>3, <2>4, <3>1 DEF Follows, Short
  <2>6. ASSUME c'.sock.live, c'.sock.seat, srv'.at = "match", match.life # "over"
        PROVE  Agrees(c', After(match, c'.sock.dn), srv')
    <3> DEFINE a == After(match, c.sock.dn)
    <3>1. Agrees(c, a, srv)
      BY <2>1, <2>3, <2>4, <2>6 DEF Follows, Ahead
    <3>2. After(match, c'.sock.dn) = a
      BY <2>3, <2>4
    <3> HIDE DEF a
    <3>3. up = c.held
      BY <2>3, <2>4, <2>6 DEF up
    <3>4. \A intent : Asks(c, intent) => Asks(c', intent)
      BY <2>1, <2>3, <2>4, <3>3 DEF Asks
    <3>5. Agrees(c', a, srv')
      BY <2>1, <3>1, <3>4 DEF Agrees
    <3> QED
      BY <3>2, <3>5
  <2> QED
    BY <2>4, <2>5, <2>6 DEF Follows, Ahead
<1>2. ASSUME NEW intent \in Intent, send(intent)
      PROVE  Follows'
  <2> DEFINE q == <<intent>>
             held == [c EXCEPT !.held = q]
             sent == [c EXCEPT !.sock.up = q]
             m == Shown(intent)
  <2>1. /\ c.held = <<>> /\ srv' = srv
        /\ \/ c.sock.up = <<>> /\ c.sock.live /\ Becomes(sent, m, pending)
           \/ c.sock.up = <<>> /\ ~c.sock.live /\ Becomes(c, m, pending)
           \/ c.sock.up # <<>> /\ Becomes(held, m, pending)
    BY <1>2 DEF send, ServerIdle
  <2>2. q \in Seq(Intent) /\ Len(q) = 1
    OBVIOUS
  <2>3. /\ m \in Stores /\ Alike(match, m)
        /\ m.cast => match.cast \/ intent = "cast"
        /\ m.optimistic => match.optimistic \/ intent = "move"
        /\ intent = "move" => match.cast = m.cast
        /\ intent = "cast" => match.optimistic = m.optimistic
        /\ intent \notin {"move", "cast"} => m = match
    BY <1>0 DEF Shown, previewMove, beginCast, Stores, Alike
  <2> HIDE DEF q, m
  <2>4. /\ held \in Connections /\ held.held = q /\ held.sock = c.sock
        /\ sent \in Connections /\ sent.held = c.held /\ sent.sock.up = q /\ sent.sock.live = c.sock.live
        /\ sent.sock.seat = c.sock.seat /\ sent.sock.dn = c.sock.dn
    BY <1>0, <2>2 DEF Connections, Sockets
  <2> HIDE DEF held, sent
  <2>5. /\ match' = m /\ c'.sock.live = c.sock.live /\ c'.sock.seat = c.sock.seat /\ c'.sock.dn = c.sock.dn
        /\ \/ c'.sock.up = q /\ c'.held = c.held /\ c.sock.up = <<>>
           \/ c'.sock.up = c.sock.up /\ c'.held = c.held /\ ~c.sock.live
           \/ c'.sock.up = c.sock.up /\ c'.held = q
    BY <1>0, <2>1, <2>4, BecomesWhat
  <2>6. Short(c')
    <3>1. Len(c.sock.up) <= 1 /\ Len(c.held) <= 1 /\ (c.sock.seat => Len(c.sock.dn) <= 4)
      BY DEF Follows, Short
    <3>2. Len(c'.sock.up) <= 1
      <4>1. Len(q) <= 1
        BY <2>2
      <4>2. c'.sock.up = q \/ c'.sock.up = c.sock.up
        BY <2>5
      <4> QED
        BY <3>1, <4>1, <4>2
    <3>3. Len(c'.held) <= 1
      <4>1. Len(q) <= 1
        BY <2>2
      <4>2. c'.held = q \/ c'.held = c.held
        BY <2>5
      <4> QED
        BY <3>1, <4>1, <4>2
    <3>4. c'.sock.seat => Len(c'.sock.dn) <= 4
      BY <2>5, <3>1
    <3> QED
      BY <3>2, <3>3, <3>4 DEF Short
  <2>7. ASSUME c'.sock.live, c'.sock.seat, srv'.at = "match", m.life # "over"
        PROVE  Agrees(c', After(m, c'.sock.dn), srv')
    <3> DEFINE a == After(match, c.sock.dn)
               b == After(m, c.sock.dn)
    <3>1. Agrees(c, a, srv)
      BY <2>1, <2>3, <2>5, <2>7 DEF Follows, Ahead, Alike
    <3>2. /\ Alike(a, b)
          /\ match.cast = m.cast => a.cast = b.cast
          /\ match.optimistic = m.optimistic => a.optimistic = b.optimistic
      BY <1>0, <2>3, WayKeepsAlike
    <3>3. \A other : Asks(c, other) => Asks(c', other)
      <4>1. \A other : <<other>> # <<>>
        OBVIOUS
      <4> QED
        BY <2>1, <2>5, <2>7, <4>1 DEF Asks
    <3>4. Asks(c', intent)
      BY <2>5, <2>7 DEF Asks, q
    <3> HIDE DEF a, b
    <3>5. b.cast => Asks(c', "cast")
      BY <2>3, <3>1, <3>2, <3>3, <3>4 DEF Agrees
    <3>6. b.optimistic => Asks(c', "move")
      BY <2>3, <3>1, <3>2, <3>3, <3>4 DEF Agrees
    <3>7. Agrees(c', b, srv')
      BY <2>1, <3>1, <3>2, <3>5, <3>6 DEF Agrees, Alike, Same
    <3> QED
      BY <2>5, <3>7 DEF b
  <2> QED
    BY <2>5, <2>6, <2>7 DEF Follows, Ahead
<1>3. Intents \subseteq Intent
  BY DEF Intents, Intent
<1> QED
  BY <1>1, <1>2, <1>3 DEF Screen
-----------------------------------------------------------------------------
(* The client follows the server, however frames, losses and steps of both *)
(* come after one another. *)
LEMMA ItFollows == Spec => [](IInv /\ Follows)
<1>1. Init => IInv /\ Follows
  <2> SUFFICES ASSUME Init PROVE IInv /\ Follows
    OBVIOUS
  <2>1. c = Idle /\ c.sock = NoSocket /\ c.held = <<>>
    BY DEF Init, Idle
  <2>2. Len(<<>>) = 0
    OBVIOUS
  <2> QED
    BY <2>1, <2>2, Initially, NoSocketIsASocket DEF Follows, Short, Ahead
<1>2. IInv /\ Follows /\ [Next]_vars => (IInv /\ Follows)'
  <2> SUFFICES ASSUME IInv, Follows, [Next]_vars PROVE IInv' /\ Follows'
    OBVIOUS
  <2>1. IInv'
    BY EveryStep
  <2>2. CASE UNCHANGED vars
    <3>1. c' = c /\ match' = match /\ srv' = srv
      BY <2>2 DEF vars
    <3>2. c'.sock = c.sock /\ c'.held = c.held
      BY <3>1
    <3>3. Follows'
      BY <3>1, <3>2, NothingMoves
    <3> QED
      BY <2>1, <3>3
  <2> QED
    BY <2>1, <2>2, ServerIsFollowed, UserFollows, NetworkFollows, ScreenFollows DEF Next
<1> QED
  BY <1>1, <1>2, PTL DEF Spec

(* InSync: whatever was lost, dropped, delivered late or shown in advance, *)
(* once the frames are read the store (matchStore.ts) shows the match as   *)
(* the server has it: turn, phase, moves, hand and lasting effect.         *)
THEOREM StoreFollowsServer == Spec => []InSync
<1>1. IInv /\ Follows => InSync
  <2> SUFFICES ASSUME IInv, Follows, Quiet, srv.at = "match", match.life # "over"
               PROVE  match.life = "playing" /\ Shows(srv)
    BY DEF InSync
  <2>1. Agrees(c, match, srv)
    BY UpToDate DEF Quiet
  <2> QED
    BY <2>1 DEF Agrees, Same, Shows
<1> QED
  BY <1>1, ItFollows, PTL

(* AnswerToCome: a hand blocked by a cast, or a move shown in advance, has *)
(* a message on its way or held back that will be answered; an answer      *)
(* never goes by without freeing them (endCast and the preview of          *)
(* matchStore.ts).                                                         *)
THEOREM AnswersFreeTheHand == Spec => []AnswerToCome
<1>1. IInv /\ Follows => AnswerToCome
  <2> SUFFICES ASSUME IInv, Follows, match.life = "playing", match.cast \/ match.optimistic, Quiet, srv.at = "match"
               PROVE  c.sock.up # <<>> \/ c.held # <<>>
    BY DEF AnswerToCome
  <2>1. Agrees(c, match, srv)
    BY UpToDate DEF Quiet
  <2>2. Asks(c, "cast") \/ Asks(c, "move")
    BY <2>1 DEF Agrees
  <2>3. \A intent : <<intent>> # <<>>
    OBVIOUS
  <2> QED
    BY <2>2, <2>3 DEF Asks
<1> QED
  BY <1>1, ItFollows, PTL
=============================================================================

------------------------------ MODULE Gateway ------------------------------
(***************************************************************************)
(* The doors of the mock server: gateway.ts (queue, challenges, bots,      *)
(* reconnections), challenges.ts, and the part of room.ts that is about    *)
(* connections: leave, reconnect, draw offers, resignation and the end.    *)
(* Node runs each handler to its end; what interleaves are connections,    *)
(* their late closures, timers, and the removal of an ended room, which    *)
(* announceEnd leaves to setImmediate.                                     *)
(***************************************************************************)
EXTENDS Naturals, FiniteSets, TLC

CONSTANTS
  Users, Nobody,
  Conns,      \* bound: the connections there can be at one time
  None,       \* no connection: nobody waits, or the placeholder of a restart
  BotSeat,    \* the bot, which plays without a connection
  MaxRooms,   \* bound: matches at one time
  OtherDoors  \* may a user who waits at one door come in by another?

RoomIds == 1..MaxRooms
ASSUME GatewayAssumption ==
  /\ MaxRooms \in Nat /\ Nobody \notin Users /\ OtherDoors \in BOOLEAN
  /\ None \notin Conns /\ BotSeat \notin Conns \cup {None}

VARIABLES
  conn,      \* Conns -> user, state of the socket, room it plays in
  waiting,   \* the connection in the queue, or 0
  challenge, \* the open challenge: the two players and the connection in its slot, or NoChallenge.
             \* Bound: one at a time, where the store keeps one for each challenger
  room,      \* RoomIds -> the match in course
  ended,     \* names of the matches announceEnd left to setImmediate
  rooms,     \* names of rooms to matches, 0 for one that ended
  userRooms  \* Users -> the name of the room of a user, or NoName
vars == <<conn, waiting, challenge, room, ended, rooms, userRooms>>

(* A seat is a connection, the bot (whose user is Nobody), or None for the *)
(* placeholder of a restart, which drops what it is sent.                  *)
Fresh == [user |-> Nobody, socket |-> "unused", room |-> 0]
NoChallenge == [from |-> Nobody, to |-> Nobody, slot |-> None]
NoName == <<"none", Nobody, Nobody>>
Sides == {"white", "black"}
NotStarted ==
  [status |-> "unused", name |-> NoName, user |-> [s \in Sides |-> Nobody], seat |-> [s \in Sides |-> None],
   absent |-> {}, offer |-> {}, turn |-> "white"]
Over == MaxRooms + 1  \* the room of a connection whose match has ended

Other(s) == IF s = "white" THEN "black" ELSE "white"
Running(i) == i \in RoomIds /\ room[i].status = "active"
ColorOf(i, u) == IF room[i].user["white"] = u THEN "white" ELSE "black"
RoomNamed(name) == IF name \in DOMAIN rooms THEN rooms[name] ELSE 0
inMatch(u) == Running(RoomNamed(userRooms[u]))
(* The place of a connection is used again once it is closed and no match  *)
(* has it at a seat, that of a match once it ended.                        *)
Free(c) == conn[c].socket = "unused" /\ \A i \in RoomIds : \A s \in Sides : room[i].seat[s] # c
Unused(i) == room[i].status = "unused"
(* opaqueId: a name not in use.  Bound: as many as the matches ask for.    *)
NewNames(kind, u) == {<<kind, n, u>> : n \in 1..MaxRooms + 1} \ DOMAIN rooms
NewName(kind, u) == CHOOSE name \in NewNames(kind, u) : TRUE
NextRoom == CHOOSE i \in RoomIds : Unused(i)
CanStart == \E i \in RoomIds : Unused(i)
Opened(u, c) == [conn EXCEPT ![c] = [Fresh EXCEPT !.user = u, !.socket = "open"]]

(* close: the socket is closed after a delay, in which it still speaks.    *)
Closing(cs, S) == [c \in Conns |-> IF c \in S /\ cs[c].socket = "open" THEN [cs[c] EXCEPT !.socket = "closing"] ELSE cs[c]]
Slot == IF challenge.slot = None THEN {} ELSE {challenge.slot}
OwnWaiting(u) == IF waiting # None /\ conn[waiting].user = u THEN {waiting} ELSE {}
Involves(S) == challenge.from \in S \/ challenge.to \in S

-----------------------------------------------------------------------------
(* newRoom: a match between two users at two seats; the challenges still   *)
(* open of its players are closed (closeOf), whoever waits in them too.    *)

StartRoom(cs, name, users, seats) ==
  LET i == NextRoom
      closed == Involves({users[s] : s \in Sides}) /\ challenge.slot \notin {seats[s] : s \in Sides}
      seated == [c \in Conns |-> IF \E s \in Sides : seats[s] = c THEN [cs[c] EXCEPT !.room = i] ELSE cs[c]]
  IN  /\ room' = [room EXCEPT ![i] = [NotStarted EXCEPT !.status = "active", !.name = name, !.user = users, !.seat = seats]]
      /\ rooms' = [n \in DOMAIN rooms \cup {name} |-> IF n = name THEN i ELSE rooms[n]]
      /\ userRooms' = [u \in Users |-> IF \E s \in Sides : users[s] = u THEN name ELSE userRooms[u]]
      /\ conn' = IF closed THEN Closing(seated, Slot) ELSE seated
      /\ challenge' = IF Involves({users[s] : s \in Sides}) THEN NoChallenge ELSE challenge
Pair(w, b) == [s \in Sides |-> IF s = "white" THEN w ELSE b]

(* tryReconnect: back to the match in course, at the place of the former   *)
(* connection, which is sent away.                                         *)
CanReturn(u) == userRooms[u] # NoName /\ inMatch(u)
tryReconnect(u, c) ==
  LET i == RoomNamed(userRooms[u])
      s == ColorOf(i, u)
      old == {room[i].seat[s]} \cap Conns
  IN  /\ CanReturn(u)
      /\ conn' = Closing([Opened(u, c) EXCEPT ![c].room = i], old)
      /\ room' = [room EXCEPT ![i].seat[s] = c, ![i].absent = @ \ {u}]
      /\ UNCHANGED <<waiting, challenge, rooms, userRooms>>
(* Not to be resumed: the index forgets the match.                         *)
Forgotten(u) == [userRooms EXCEPT ![u] = NoName]

Doors(u) == OtherDoors \/ (waiting \notin OwnWaiting(u) /\ \A c \in Slot : conn[c].user # u)
joinQueue(u, c) ==
  /\ ~CanReturn(u)
  /\ Doors(u) \/ waiting \in OwnWaiting(u)
  /\ IF waiting = None \/ waiting \in OwnWaiting(u)
     THEN /\ waiting' = c
          /\ conn' = Closing(Opened(u, c), OwnWaiting(u))
          /\ userRooms' = Forgotten(u)
          /\ UNCHANGED <<challenge, room, rooms>>
     ELSE /\ CanStart
          /\ OtherDoors \/ <<"room", conn[waiting].user, u>> \notin DOMAIN rooms
          /\ waiting' = None
          /\ StartRoom(Opened(u, c), <<"room", conn[waiting].user, u>>, Pair(conn[waiting].user, u), Pair(waiting, c))

(* A connection of the same user left in the queue leaves it.              *)
LeavesQueue(u) == waiting' = IF OwnWaiting(u) = {} THEN waiting ELSE None
joinChallenge(u, c) ==
  LET queued == Closing(Opened(u, c), OwnWaiting(u))
  IN  /\ ~CanReturn(u)
      /\ Involves({u})
      /\ LeavesQueue(u)
      /\ IF challenge.slot = None \/ conn[challenge.slot].user = u
         THEN /\ challenge' = [challenge EXCEPT !.slot = c]
              /\ conn' = Closing(queued, Slot)
              /\ userRooms' = Forgotten(u)
              /\ UNCHANGED <<room, rooms>>
         ELSE /\ CanStart /\ NewNames("challenge", u) # {}
              /\ \E first \in Sides :
                   LET w == IF first = "white" THEN challenge.slot ELSE c
                       b == IF first = "white" THEN c ELSE challenge.slot
                       user(d) == IF d = c THEN u ELSE conn[d].user
                   IN  StartRoom(queued, NewName("challenge", u), Pair(user(w), user(b)), Pair(w, b))

(* Against a bot, of a level or of a scenario (startWithBot); the user has *)
(* white, which for these properties stands for either colour.             *)
joinBot(u, c) ==
  /\ ~CanReturn(u)
  /\ CanStart /\ NewNames("bot", u) # {}
  /\ LeavesQueue(u)
  /\ StartRoom(Closing(Opened(u, c), OwnWaiting(u)), NewName("bot", u), Pair(u, Nobody), Pair(c, BotSeat))

(* The challenge is closed, the active deck is not valid, or the level of  *)
(* the bot is unknown.                                                     *)
Refused(u, c) ==
  /\ ~CanReturn(u)
  /\ conn' = Closing(Opened(u, c), {c})
  /\ userRooms' = Forgotten(u)
  /\ UNCHANGED <<waiting, challenge, room, rooms>>
onConnection(u, c) ==
  /\ Free(c)
  /\ UNCHANGED ended
  /\ \/ tryReconnect(u, c)
     \/ joinQueue(u, c)
     \/ joinChallenge(u, c)
     \/ joinBot(u, c)
     \/ Refused(u, c)

-----------------------------------------------------------------------------
(* A socket closes, by itself or after close(): queue, slot and match are  *)
(* told.  room.leave counts only the connection that has the seat.         *)

(* As SeatOf, if leave compared users and not connections.                 *)
SeatOfUser(c) == {s \in Sides : conn[c].room \in RoomIds /\ room[conn[c].room].user[s] = conn[c].user}
SeatOf(c) == {s \in Sides : conn[c].room \in RoomIds /\ room[conn[c].room].seat[s] = c}
leave(c) ==
  IF Running(conn[c].room) /\ SeatOf(c) # {}
  THEN room' = [room EXCEPT ![conn[c].room].absent = @ \cup {conn[c].user}]
  ELSE UNCHANGED room
onClose(c) ==
  /\ conn[c].socket \in {"open", "closing"}
  /\ conn' = [conn EXCEPT ![c] = Fresh]
  /\ waiting' = IF waiting = c THEN None ELSE waiting
  /\ challenge' = IF challenge.slot # c THEN challenge
                  ELSE IF conn[c].user = challenge.from THEN NoChallenge ELSE [challenge EXCEPT !.slot = None]
  /\ leave(c)
  /\ UNCHANGED <<ended, rooms, userRooms>>

-----------------------------------------------------------------------------
(* Challenges, from the REST handlers and their timer.                     *)

(* The challenge of a player replaces the former one of the same player.   *)
(* Bound, in both: while the challenge of another is open none is made.    *)

(* As create, if the challenge it replaces went without being closed.      *)
createUnclosed(from, to) ==
  /\ from # to
  /\ ~inMatch(from) /\ ~inMatch(to)
  /\ challenge.from \in {Nobody, from}
  /\ challenge' = [from |-> from, to |-> to, slot |-> None]
  /\ UNCHANGED <<conn, waiting, room, ended, rooms, userRooms>>
create(from, to) ==
  /\ from # to
  /\ ~inMatch(from) /\ ~inMatch(to)
  /\ challenge.from \in {Nobody, from}
  /\ conn' = Closing(conn, Slot)
  /\ challenge' = [from |-> from, to |-> to, slot |-> None]
  /\ UNCHANGED <<waiting, room, ended, rooms, userRooms>>
(* Declined, cancelled or expired.                                         *)
closeChallenge ==
  /\ challenge # NoChallenge
  /\ conn' = Closing(conn, Slot)
  /\ challenge' = NoChallenge
  /\ UNCHANGED <<waiting, room, ended, rooms, userRooms>>

-----------------------------------------------------------------------------
(* Messages to a match.  The room knows the sender by its user, not by its *)
(* connection: one that was replaced plays on until it closes.             *)

(* The timers are stopped and the result announced; the match stays in the *)
(* map and in the index until onEnded.  Bound: one match waits for that.   *)
finish(i) ==
  /\ ended = {}
  /\ room' = [room EXCEPT ![i] = NotStarted]
  /\ ended' = {room[i].name}
  /\ rooms' = [rooms EXCEPT ![room[i].name] = 0]
  /\ conn' = [c \in Conns |-> IF conn[c].room = i THEN [conn[c] EXCEPT !.room = Over] ELSE conn[c]]
GoesOn(i, r) == room' = [room EXCEPT ![i] = r] /\ UNCHANGED <<conn, ended, rooms>>

(* As Lapsed, if the offer of either player outlived the move.             *)
LapsedNever(offer, mover) == offer
(* handleMove: an offer lapses when the other player moves.                *)
Lapsed(offer, mover) == offer \cap {mover}
handleMove(i, u) ==
  LET s == ColorOf(i, u) IN
  /\ room[i].turn = s
  /\ finish(i) \/ GoesOn(i, [room[i] EXCEPT !.turn = Other(s), !.offer = Lapsed(@, u)])
handleDrawOffer(i, u) == room[i].offer = {} /\ GoesOn(i, [room[i] EXCEPT !.offer = {u}])
handleDrawResponse(i, u) ==
  /\ room[i].offer \notin {{}, {u}}
  /\ finish(i) \/ GoesOn(i, [room[i] EXCEPT !.offer = {}])
handleResign(i) == finish(i)

Speaks(c) == conn[c].socket \in {"open", "closing"} /\ Running(conn[c].room)
onFrame(c) ==
  /\ Speaks(c)
  /\ \/ handleMove(conn[c].room, conn[c].user)
     \/ handleDrawOffer(conn[c].room, conn[c].user)
     \/ handleDrawResponse(conn[c].room, conn[c].user)
     \/ handleResign(conn[c].room)
  /\ UNCHANGED <<waiting, challenge, userRooms>>

(* bot.ts: it plays its turns, offers a draw and answers one; the bot of a *)
(* scenario leaves after a move and may come back.                         *)
BotSides(i) == {s \in Sides : room[i].seat[s] = BotSeat}
BotActs(i) ==
  /\ Running(i) /\ BotSides(i) # {} /\ Nobody \notin room[i].absent
  /\ \/ handleMove(i, Nobody)
     \/ handleDrawOffer(i, Nobody)
     \/ handleDrawResponse(i, Nobody)
     \/ GoesOn(i, [room[i] EXCEPT !.absent = @ \cup {Nobody}])
  /\ UNCHANGED <<waiting, challenge, userRooms>>
BotReturns(i) ==
  /\ Running(i)
  /\ \E s \in Sides : /\ room[i].user[s] = Nobody
                      /\ GoesOn(i, [room[i] EXCEPT !.seat[s] = BotSeat, !.absent = @ \ {Nobody}])
  /\ UNCHANGED <<waiting, challenge, userRooms>>

(* The timer of leave: its player did not come back.                       *)
AbandonTimer(i) ==
  /\ room[i].absent # {}
  /\ finish(i)
  /\ UNCHANGED <<waiting, challenge, userRooms>>

(* As onEnded, if it cleared the index without looking at it.              *)
onEndedOfUsers(name) ==
  /\ name \in ended
  /\ ended' = ended \ {name}
  /\ rooms' = [n \in DOMAIN rooms \ {name} |-> rooms[n]]
  /\ userRooms' = [u \in Users |-> IF name[1] = "challenge" \/ u \in {name[2], name[3]} THEN NoName ELSE userRooms[u]]
  /\ UNCHANGED <<conn, waiting, challenge, room>>

(* The match leaves the map; the index forgets it where it still names it. *)
onEnded(name) ==
  /\ name \in ended
  /\ ended' = ended \ {name}
  /\ rooms' = [n \in DOMAIN rooms \ {name} |-> rooms[n]]
  /\ userRooms' = [u \in Users |-> IF userRooms[u] = name THEN NoName ELSE userRooms[u]]
  /\ UNCHANGED <<conn, waiting, challenge, room>>

(* The simulated restart of a scenario: the sockets of the match are cut   *)
(* without a leave, its seats hold placeholders until the players return.  *)
restart(i) ==
  LET cut == {room[i].seat[s] : s \in Sides} \cap Conns
  IN  /\ Running(i)
      /\ BotSides(i) # {}
      /\ conn' = [c \in Conns |-> IF c \in cut THEN Fresh ELSE conn[c]]
      /\ room' = [room EXCEPT ![i].seat = Pair(None, None)]
      /\ UNCHANGED <<waiting, challenge, ended, rooms, userRooms>>

-----------------------------------------------------------------------------
Init ==
  /\ conn = [c \in Conns |-> Fresh]
  /\ waiting = None
  /\ challenge = NoChallenge
  /\ room = [i \in RoomIds |-> NotStarted]
  /\ ended = {}
  /\ rooms = [n \in {} |-> 0]
  /\ userRooms = [u \in Users |-> NoName]
Connect == \E u \in Users, c \in Conns : onConnection(u, c)
Close == \E c \in Conns : onClose(c)
Challenges == closeChallenge \/ \E from, to \in Users : create(from, to)
Frame == \E c \in Conns : onFrame(c)
Timers == \E i \in RoomIds : AbandonTimer(i) \/ BotActs(i) \/ BotReturns(i) \/ restart(i)
Removal == \E name \in ended : onEnded(name)
Next == Connect \/ Close \/ Challenges \/ Frame \/ Timers \/ Removal
Spec == Init /\ [][Next]_vars
Symmetry == Permutations(Users) \cup Permutations(Conns)

-----------------------------------------------------------------------------
Live(c) == conn[c].socket = "open"
PlayersOf(i) == {room[i].user[s] : s \in Sides} \ {Nobody}

(* The gateway keeps its types, and the index, the map of rooms and the    *)
(* matches agree: a user of a running match is led back to it, and only    *)
(* one is running for each user.                                           *)
PlayersCanReturn ==
  /\ {waiting, challenge.slot} \subseteq Conns \cup {None}
  /\ \A i \in RoomIds : Running(i) => \A u \in PlayersOf(i) : RoomNamed(userRooms[u]) = i
  /\ \A i, j \in RoomIds : Running(i) /\ Running(j) /\ i # j => PlayersOf(i) \cap PlayersOf(j) = {}

(* Nobody sits for ever before a screen that says nothing: an open         *)
(* connection waits in the queue or in the slot of a challenge, or is at   *)
(* its seat of a match; and only open ones wait.                           *)
NoForgottenConnection ==
  /\ \A c \in Conns : Live(c) =>
       \/ c = waiting \/ c = challenge.slot
       \/ conn[c].room # 0 /\ (Running(conn[c].room) => SeatOf(c) # {})
  /\ \A c \in {waiting, challenge.slot} \ {None} : Live(c)

(* A seat of a running match is held by an open connection, or its player  *)
(* is timed; and nobody is timed while at the seat.  Restarts leave both   *)
(* seats to placeholders, with no timer.                                   *)
AbsentAreTimed ==
  \A i \in RoomIds : Running(i) =>
    \A s \in Sides : room[i].seat[s] \in Conns => (Live(room[i].seat[s]) <=> room[i].user[s] \notin room[i].absent)

(* An offer lapses when the player it was made to moves, and one answer    *)
(* ends it: after a move only an offer of the mover may still stand.       *)
OfferLapses ==
  [][\A i \in RoomIds : (Running(i) /\ room'[i].status = "active" /\ room'[i].turn # room[i].turn) =>
       room'[i].offer \subseteq {room[i].user[room[i].turn]}]_vars
=============================================================================

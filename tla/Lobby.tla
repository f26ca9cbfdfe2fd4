------------------------------- MODULE Lobby --------------------------------
(***************************************************************************)
(* internal/game.Manager and its direct challenges: how connections become *)
(* players of a room.  Everything here runs under m.mu except what a room  *)
(* does on its own: a game ends under r.mu, and the goroutine of           *)
(* announceEnd calls RemoveRoom once the game is saved, at any later time. *)
(* The ReadPump of a connection that broke goes through LeaveQueue,        *)
(* LeaveChallenge and Room.Leave, three separate critical sections.        *)
(*                                                                         *)
(* A room is a name in the manager's map and an object behind it; the      *)
(* objects are numbered, because a queue room's name, made of its two      *)
(* players, may come back while an older room of that name is still going  *)
(* away.  What happens inside a game is module Room.                       *)
(***************************************************************************)
EXTENDS Naturals, FiniteSets

CONSTANTS
    Users,          \* the human players; the bots' accounts are never indexed
    MaxConns,       \* bound: connections opened, by all the users together
    MaxRooms,       \* bound: games started
    MaxChallenges,  \* bound: challenges created
    Rematch,        \* may a queue room get the name of one still to be removed?
    TwoDoors        \* may a user queue while waiting in the slot of a challenge?

ASSUME LobbyAssumption ==
    /\ MaxConns \in Nat /\ MaxRooms \in Nat /\ MaxChallenges \in Nat
    /\ Rematch \in BOOLEAN /\ TwoDoors \in BOOLEAN
    /\ IsFiniteSet(Users)

VARIABLES
    waiting,     \* m.waiting: the connection in the queue
    challenges,  \* m.challenges: the open challenges, with the connection in the slot
    rooms,       \* m.rooms: the room object behind each name
    userRooms,   \* m.userRooms: the name of each user's game
    game,        \* the room objects: name, the connection in each seat, progress
    conn,        \* each connection: told to go away (closeWith), progress of its ReadPump
    absent,      \* <<object, user>>: Leave has started the abandonment timer
    issued       \* challenges created so far (their ids never repeat)

vars == <<waiting, challenges, rooms, userRooms, game, conn, absent, issued>>

Nobody == <<"nobody", 0>>
NoRoom == <<"none">>
NoGame == 0

Conns     == Users \X (1 .. MaxConns)
Games     == 1 .. MaxRooms
RoomNames == {<<"room", u, v>> : u, v \in Users}
             \cup {<<"challenge", k>> : k \in 1 .. MaxChallenges}
             \cup {<<"bot", g>> : g \in Games}

user(c) == c[1]

Unused == [name |-> NoRoom, seats |-> {}, stage |-> "unused"]

Running(g)  == g # NoGame /\ game[g].stage = "running"
Players(g)  == {user(c) : c \in game[g].seats}
Seat(g, u)  == CHOOSE c \in game[g].seats : user(c) = u

(* inMatchLocked: by the index, then by the room behind the name. *)
inMatch(u) == userRooms[u] # NoRoom /\ Running(rooms[userRooms[u]])

(* The connection u opens next; its ReadPump starts when it has been placed.*)
NextConn(u) == <<u, 1 + Cardinality({n \in 1 .. MaxConns : conn[<<u, n>>] # "unopened"})>>

CanOpen(u) == Cardinality({c \in Conns : conn[c] # "unopened"}) < MaxConns

(* The connections in new are opened and those in told are told to go away, *)
(* unless they are already going.                                           *)
Sockets(new, told) ==
    conn' = [c \in Conns |-> CASE c \in told /\ (c \in new \/ conn[c] = "open") -> "told"
                               [] c \in new \ told -> "open"
                               [] OTHER -> conn[c]]

Slots(S) == {ch.slot : ch \in S} \ {Nobody}

(* closeChallengeLocked for a set of challenges; the connections waiting in *)
(* their slots are for the caller to tell.                                  *)
Closed(S) == challenges' = challenges \ S

(* closeChallengesOfLocked: those they have sent or received. *)
Involving(U) == {ch \in challenges : ch.from \in U \/ ch.to \in U}

-----------------------------------------------------------------------------
(* newRoom and the manager's bookkeeping around it: the room is put in the  *)
(* map and in the players' index, and their open challenges close.          *)
FreshGame == CHOOSE g \in Games : game[g].stage = "unused"

HasFreshGame == \E g \in Games : game[g].stage = "unused"

StartRoom(name, seats, new, told) ==
    LET players == {user(c) : c \in seats}
    IN  /\ HasFreshGame
        /\ game' = [game EXCEPT ![FreshGame] =
                       [name |-> name, seats |-> seats, stage |-> "running"]]
        /\ rooms' = [rooms EXCEPT ![name] = FreshGame]
        /\ userRooms' = [u \in Users |-> IF u \in players THEN name ELSE userRooms[u]]
        /\ Closed(Involving(players))
        /\ Sockets({new}, told \cup (Slots(Involving(players)) \ seats))
        /\ UNCHANGED absent

NoRoomStarts == UNCHANGED <<game, rooms, absent>>

(* tryReconnectLocked found no active game: a stale index entry is dropped. *)
Forget(u) == userRooms' = [userRooms EXCEPT ![u] = NoRoom]

(* tryReconnectLocked and Room.Reconnect: the new connection takes the seat *)
(* and the one it replaces is told to go.  r.mu is free between isActive    *)
(* and Reconnect, so the game may have ended in the meantime.               *)
TakeSeat(u, g, stages) ==
    \E stage \in stages :
        game' = [game EXCEPT ![g].seats = (@ \ {Seat(g, u)}) \cup {NextConn(u)},
                             ![g].stage = stage]

(* A mutant of the next definition: the replaced connection is not closed. *)
ReconnectBeside(u) ==
    LET g == rooms[userRooms[u]]
    IN  /\ CanOpen(u) /\ inMatch(u)
        /\ Sockets({NextConn(u)}, {})
        /\ TakeSeat(u, g, {"running"})
        /\ absent' = absent \ {<<g, u>>}
        /\ UNCHANGED <<waiting, challenges, rooms, userRooms, issued>>

Reconnect(u) ==
    LET g == rooms[userRooms[u]]
    IN  /\ CanOpen(u) /\ inMatch(u)
        /\ Sockets({NextConn(u)}, {Seat(g, u)})
        /\ TakeSeat(u, g, {"running", "ended"})
        /\ absent' = absent \ (IF game'[g].stage = "ended" THEN {g} \X Users ELSE {<<g, u>>})
        /\ UNCHANGED <<waiting, challenges, rooms, userRooms, issued>>

(* A connection the manager turns away: the deck is not valid, the          *)
(* challenge is not there any more, the bot is not available.               *)
TurnedAway(u) ==
    /\ CanOpen(u) /\ ~inMatch(u)
    /\ Sockets({NextConn(u)}, {NextConn(u)})
    /\ Forget(u)
    /\ UNCHANGED <<waiting, challenges, rooms, game, absent, issued>>

(* JoinQueue.  The slots of the challenges are not looked at. *)
JoinQueue(u) ==
    LET c == NextConn(u)
        opponent == waiting
    IN  /\ CanOpen(u) /\ ~inMatch(u)
        /\ ~TwoDoors => u \notin {user(s) : s \in Slots(challenges)}
        /\ \/ /\ waiting = Nobody \/ user(waiting) = u
              /\ waiting' = c
              /\ Sockets({c}, {waiting} \ {Nobody})
              /\ Forget(u)
              /\ NoRoomStarts
              /\ UNCHANGED challenges
           \/ /\ waiting # Nobody /\ user(waiting) # u
              /\ waiting' = Nobody
              /\ LET name == <<"room", user(opponent), u>>
                 IN  /\ ~Rematch => rooms[name] = NoGame
                     /\ StartRoom(name, {opponent, c}, c, {})
        /\ UNCHANGED issued

(* A connection of u left in the queue, for JoinChallenge and JoinBot. *)
OwnWaiting(u) == IF waiting # Nobody /\ user(waiting) = u THEN {waiting} ELSE {}

(* A mutant of the next definition: the queue is not looked at. *)
StaysQueued(u) == waiting' = waiting

LeavesQueue(u) == waiting' = IF OwnWaiting(u) = {} THEN waiting ELSE Nobody

(* JoinChallenge, for a player of an open challenge: the first to come      *)
(* waits in the slot, the second starts the game.                           *)
JoinChallenge(u, ch) ==
    LET c == NextConn(u)
        slot == ch.slot
        mine == slot = Nobody \/ user(slot) = u
    IN  /\ CanOpen(u) /\ ~inMatch(u)
        /\ u \in {ch.from, ch.to}
        /\ LeavesQueue(u)
        /\ \/ /\ mine
              /\ challenges' = (challenges \ {ch}) \cup {[ch EXCEPT !.slot = c]}
              /\ Sockets({c}, OwnWaiting(u) \cup ({slot} \ {Nobody}))
              /\ Forget(u)
              /\ NoRoomStarts
           \/ /\ ~mine
              /\ StartRoom(<<"challenge", ch.id>>, {slot, c}, c, OwnWaiting(u))
        /\ UNCHANGED issued

(* JoinBot: only the human player is indexed. *)
JoinBot(u) ==
    LET c == NextConn(u)
    IN  /\ CanOpen(u) /\ ~inMatch(u)
        /\ HasFreshGame
        /\ LeavesQueue(u)
        /\ StartRoom(<<"bot", FreshGame>>, {c}, c, OwnWaiting(u))
        /\ UNCHANGED issued

-----------------------------------------------------------------------------
(* The end of a connection: its ReadPump's deferred calls, one by one.      *)
(* Until the first of them nothing tells a broken connection from another.  *)

LeaveQueue(c) ==
    /\ conn[c] \in {"open", "told"}
    /\ conn' = [conn EXCEPT ![c] = "unqueued"]
    /\ waiting' = IF waiting = c THEN Nobody ELSE waiting
    /\ UNCHANGED <<challenges, rooms, userRooms, game, absent, issued>>

(* The challenger's own challenge is cancelled with its connection; the     *)
(* challenged player's slot is only emptied.                                *)
LeaveChallenge(c) ==
    LET held == {ch \in challenges : ch.slot = c}
    IN  /\ conn[c] = "unqueued"
        /\ conn' = [conn EXCEPT ![c] = "unslotted"]
        /\ challenges' = (challenges \ held)
              \cup {[ch EXCEPT !.slot = Nobody] : ch \in {h \in held : h.from # user(c)}}
        /\ UNCHANGED <<waiting, rooms, userRooms, game, absent, issued>>

(* Room.Leave, in whatever room the connection was given, if any. *)
Leave(c) ==
    /\ conn[c] = "unslotted"
    /\ conn' = [conn EXCEPT ![c] = "gone"]
    /\ absent' = absent \cup {<<g, user(c)>> : g \in {h \in Games : Running(h) /\ c \in game[h].seats}}
    /\ UNCHANGED <<waiting, challenges, rooms, userRooms, game, issued>>

-----------------------------------------------------------------------------
(* Challenges over HTTP, and their timer. *)

(* CreateChallenge: neither player in a game; an earlier challenge of the   *)
(* same challenger is replaced.                                             *)
CreateChallenge(from, to) ==
    LET replaced == {ch \in challenges : ch.from = from}
    IN  /\ from # to
        /\ issued < MaxChallenges
        /\ ~inMatch(from) /\ ~inMatch(to)
        /\ issued' = issued + 1
        /\ challenges' = (challenges \ replaced)
              \cup {[id |-> issued + 1, from |-> from, to |-> to, slot |-> Nobody]}
        /\ Sockets({}, Slots(replaced))
        /\ UNCHANGED <<waiting, rooms, userRooms, game, absent>>

(* CancelChallenge by either player, or expireChallenge while it is open. *)
EndChallenge(ch) ==
    /\ Closed({ch})
    /\ Sockets({}, Slots({ch}))
    /\ UNCHANGED <<waiting, rooms, userRooms, game, absent, issued>>

(* CloseChallengesBetween: one of the two has blocked the other. *)
CloseChallengesBetween(a, b) ==
    LET between == {ch \in challenges : {ch.from, ch.to} = {a, b}}
    IN  /\ between # {}
        /\ Closed(between)
        /\ Sockets({}, Slots(between))
        /\ UNCHANGED <<waiting, rooms, userRooms, game, absent, issued>>

(* CloseChallengesOf: the user has deleted the account. *)
CloseChallengesOf(u) ==
    /\ Involving({u}) # {}
    /\ Closed(Involving({u}))
    /\ Sockets({}, Slots(Involving({u})))
    /\ UNCHANGED <<waiting, rooms, userRooms, game, absent, issued>>

-----------------------------------------------------------------------------
(* The end of a game: finishLocked, then RemoveRoom once it is saved. *)

EndGame(g) ==
    /\ Running(g)
    /\ game' = [game EXCEPT ![g].stage = "ended"]
    /\ absent' = absent \ ({g} \X Users)
    /\ UNCHANGED <<waiting, challenges, rooms, userRooms, conn, issued>>

(* A mutant of the next definition: the index is cleared whatever it says. *)
RemoveRoomOfUsers(g) ==
    /\ game[g].stage = "ended"
    /\ game' = [game EXCEPT ![g].stage = "removed", ![g].name = NoRoom]
    /\ rooms' = [rooms EXCEPT ![game[g].name] = NoGame]
    /\ userRooms' = [u \in Users |-> IF u \in Players(g) THEN NoRoom ELSE userRooms[u]]
    /\ UNCHANGED <<waiting, challenges, conn, absent, issued>>

(* RemoveRoom: by name, and in the index only where the name still is. *)
RemoveRoom(g) ==
    LET name == game[g].name
    IN  /\ game[g].stage = "ended"
        /\ game' = [game EXCEPT ![g].stage = "removed", ![g].name = NoRoom]
        /\ rooms' = [rooms EXCEPT ![name] = NoGame]
        /\ userRooms' = [u \in Users |->
              IF u \in Players(g) /\ userRooms[u] = name THEN NoRoom ELSE userRooms[u]]
        /\ UNCHANGED <<waiting, challenges, conn, absent, issued>>

-----------------------------------------------------------------------------
Init ==
    /\ waiting = Nobody
    /\ challenges = {}
    /\ rooms = [n \in RoomNames |-> NoGame]
    /\ userRooms = [u \in Users |-> NoRoom]
    /\ game = [g \in Games |-> Unused]
    /\ conn = [c \in Conns |-> "unopened"]
    /\ absent = {}
    /\ issued = 0

Next ==
    \/ \E u \in Users :
          \/ Reconnect(u) \/ TurnedAway(u) \/ JoinQueue(u) \/ JoinBot(u)
          \/ \E ch \in challenges : JoinChallenge(u, ch)
          \/ \E v \in Users : CreateChallenge(u, v) \/ CloseChallengesBetween(u, v)
          \/ CloseChallengesOf(u)
    \/ \E ch \in challenges : EndChallenge(ch)
    \/ \E c \in Conns : LeaveQueue(c) \/ LeaveChallenge(c) \/ Leave(c)
    \/ \E g \in Games : EndGame(g) \/ RemoveRoom(g)

Spec == Init /\ [][Next]_vars

-----------------------------------------------------------------------------
(* Properties. *)

Challenge == [id : 1 .. MaxChallenges, from : Users, to : Users, slot : Conns \cup {Nobody}]

(* The types of the state; a challenger has one challenge open at a time    *)
(* (CreateChallenge replaces an earlier one).                               *)
TypeOK ==
    /\ waiting \in Conns \cup {Nobody}
    /\ challenges \subseteq Challenge
    /\ rooms \in [RoomNames -> Games \cup {NoGame}]
    /\ userRooms \in [Users -> RoomNames \cup {NoRoom}]
    /\ game \in [Games -> [name : RoomNames \cup {NoRoom}, seats : SUBSET Conns,
                           stage : {"unused", "running", "ended", "removed"}]]
    /\ conn \in [Conns -> {"unopened", "open", "told", "unqueued", "unslotted", "gone"}]
    /\ absent \subseteq Games \X Users
    /\ issued \in 0 .. MaxChallenges
    /\ \A ch1, ch2 \in challenges : ch1.from = ch2.from => ch1 = ch2

(* A user plays at most one game at a time. *)
OneGamePerUser ==
    \A g, h \in Games :
        Running(g) /\ Running(h) /\ g # h => Players(g) \cap Players(h) = {}

(* A player of a running game can come back to it: the index and the map    *)
(* lead from the user to that very room.                                    *)
PlayersCanReturn ==
    \A g \in Games : Running(g) =>
        \A u \in Players(g) : userRooms[u] = game[g].name /\ rooms[game[g].name] = g

(* Whoever waits, in the queue or in the slot of a challenge, is not in a   *)
(* game, and no open challenge involves somebody who is.                    *)
WaitingIsFree ==
    /\ waiting # Nobody => ~inMatch(user(waiting))
    /\ \A ch \in challenges : ~inMatch(ch.from) /\ ~inMatch(ch.to)

(* No connection is forgotten: each one that is still open is in the queue, *)
(* in a slot, in a seat, or has been told to go away.                       *)
NoForgottenConnection ==
    \A c \in Conns : conn[c] = "open" =>
        \/ c = waiting \/ c \in Slots(challenges)
        \/ \E g \in Games : c \in game[g].seats

(* A connection that broke while it was being paired is noticed: once its   *)
(* ReadPump is over it is neither in the queue nor in a slot, and a running *)
(* game in which it holds a seat has started its player's abandonment timer.*)
BrokenIsNoticed ==
    \A c \in Conns : conn[c] = "gone" =>
        /\ c # waiting /\ c \notin Slots(challenges)
        /\ \A g \in Games : Running(g) /\ c \in game[g].seats => <<g, user(c)>> \in absent

(* One game for each user, and none for who waits.                         *)
LobbySound == TypeOK /\ OneGamePerUser /\ WaitingIsFree

(* No connection is forgotten while it is open, nor served once broken.    *)
ConnectionsAreServed == NoForgottenConnection /\ BrokenIsNoticed
=============================================================================

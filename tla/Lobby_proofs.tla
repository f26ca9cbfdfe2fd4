----------------------------- MODULE Lobby_proofs -----------------------------
(***************************************************************************)
(* Proofs about module Lobby, for any users, connections, games and        *)
(* challenges.                                                             *)
(*                                                                         *)
(* The invariant holds whatever the two switches of the model say: users   *)
(* may wait at two doors (TwoDoors) and names may be taken again (Rematch).*)
(* Connections are opened in order; names, rooms, index and players agree; *)
(* every open connection has a place and every broken one has lost it.     *)
(***************************************************************************)
EXTENDS Lobby, FiniteSetTheorems, TLAPS

(* A game that has a name: it runs, or ended and is still to be removed. *)
Live(g) == game[g].stage \in {"running", "ended"}

(* The numbers of the connections of a user: in order, without gaps. *)
Opened(u) == {n \in 1 .. MaxConns : conn[<<u, n>>] # "unopened"}
Numbered == \A u \in Users : Opened(u) = 1 .. Cardinality(Opened(u))

(* Challenges have numbers of their own, and players in their slots. *)
Invited ==
  /\ \A ch \in challenges :
       ch.id <= issued /\ (ch.slot # Nobody => user(ch.slot) \in {ch.from, ch.to})
  /\ \A ch1, ch2 \in challenges : ch1.id = ch2.id => ch1 = ch2

(* The names of games to come are free: an unused game has nothing, and a  *)
(* challenge still open has started none.                                  *)
Unstarted ==
  /\ \A g \in Games : game[g].stage = "unused" => game[g] = Unused
  /\ \A g, h \in Games : Live(g) /\ game[g].name = <<"bot", h>> => game[h].stage # "unused"
  /\ \A g \in Games : \A k \in 1 .. MaxChallenges :
       Live(g) /\ game[g].name = <<"challenge", k>> => k <= issued /\ \A ch \in challenges : ch.id # k

(* The map leads to live games of that name; only two games of the same    *)
(* pair of the queue may have the same name.                               *)
Named ==
  /\ \A n \in RoomNames : rooms[n] # NoGame => Live(rooms[n]) /\ game[rooms[n]].name = n
  /\ \A g \in Games : Live(g) => /\ game[g].name \in RoomNames
                                 /\ \A u, v \in Users : game[g].name = <<"room", u, v>> => Players(g) = {u, v}
                                 /\ (\A u, v \in Users : game[g].name # <<"room", u, v>>) => rooms[game[g].name] = g

(* The index has players of live games. *)
Indexed ==
  \A u \in Users : userRooms[u] # NoRoom =>
    /\ rooms[userRooms[u]] # NoGame
    /\ \A g \in Games : Live(g) /\ game[g].name = userRooms[u] => u \in Players(g)

(* A user has one seat in a game, and a seat has had a connection. *)
Seated ==
  \A g \in Games : \A c \in game[g].seats :
    conn[c] # "unopened" /\ \A d \in game[g].seats : user(c) = user(d) => c = d

(* A connection leaves the queue, then the slot, before it is gone. *)
Waits ==
  /\ waiting # Nobody => conn[waiting] \in {"open", "told"}
  /\ \A ch \in challenges : ch.slot # Nobody => conn[ch.slot] \in {"open", "told", "unqueued"}

Matches == Invited /\ Unstarted /\ Named /\ Indexed
Base == TypeOK /\ Numbered /\ Matches /\ Seated /\ Waits /\ ConnectionsAreServed
-----------------------------------------------------------------------------
(* Nobody is no connection and no room no name; the three kinds of names   *)
(* never meet.                                                             *)
LEMMA NamesAndNobody ==
  /\ Nobody \notin Conns /\ NoRoom \notin RoomNames /\ NoGame \notin Games
  /\ \A u, v \in Users : <<"room", u, v>> \in RoomNames
  /\ \A k \in 1 .. MaxChallenges : <<"challenge", k>> \in RoomNames
  /\ \A g \in Games : <<"bot", g>> \in RoomNames
  /\ \A u, v, k : <<"room", u, v>> # <<"challenge", k>> /\ <<"room", u, v>> # <<"bot", k>>
  /\ \A k, g : <<"challenge", k>> # <<"bot", g>>
  /\ \A k, g : <<"challenge", k>> = <<"challenge", g>> => k = g
  /\ \A k, g : <<"bot", k>> = <<"bot", g>> => k = g
  /\ \A u, v, x, y : <<"room", u, v>> = <<"room", x, y>> => u = x /\ v = y
  /\ \A c \in Conns : user(c) \in Users
  /\ \A u, n, c : c \in Conns /\ c = <<u, n>> => user(c) = u
<1>1. \A u, v, k : <<"room", u, v>> # <<"challenge", k>> /\ <<"room", u, v>> # <<"bot", k>>
  <2>1. ASSUME NEW u, NEW v, NEW k, <<"room", u, v>> = <<"challenge", k>> \/ <<"room", u, v>> = <<"bot", k>>
        PROVE  FALSE
    <3>1. <<"room", u, v>>[1] = "room" /\ <<"challenge", k>>[1] = "challenge" /\ <<"bot", k>>[1] = "bot"
      OBVIOUS
    <3> QED
      BY <2>1, <3>1
  <2> QED
    BY <2>1
<1>2. \A k, g : <<"challenge", k>> # <<"bot", g>>
  OBVIOUS
<1>3. NoRoom \notin RoomNames
  <2>1. \A u, v, k : NoRoom # <<"room", u, v>> /\ NoRoom # <<"challenge", k>> /\ NoRoom # <<"bot", k>>
    <3>1. ASSUME NEW u, NEW v, NEW k,
                 NoRoom = <<"room", u, v>> \/ NoRoom = <<"challenge", k>> \/ NoRoom = <<"bot", k>>
          PROVE  FALSE
      <4>1. /\ NoRoom[1] = "none"
            /\ <<"room", u, v>>[1] = "room" /\ <<"challenge", k>>[1] = "challenge" /\ <<"bot", k>>[1] = "bot"
        BY DEF NoRoom
      <4> QED
        BY <3>1, <4>1
    <3> QED
      BY <3>1
  <2> QED
    BY <2>1 DEF RoomNames
<1>4. Nobody \notin Conns /\ NoGame \notin Games
  BY DEF Nobody, Conns, NoGame, Games
<1>5. /\ \A u, v \in Users : <<"room", u, v>> \in RoomNames
      /\ \A k \in 1 .. MaxChallenges : <<"challenge", k>> \in RoomNames
      /\ \A g \in Games : <<"bot", g>> \in RoomNames
  BY DEF RoomNames
<1>6. /\ \A c \in Conns : user(c) \in Users
      /\ \A u, n, c : c \in Conns /\ c = <<u, n>> => user(c) = u
  BY DEF Conns, user
<1>7. \A u, v, x, y : <<"room", u, v>> = <<"room", x, y>> => u = x /\ v = y
  OBVIOUS
<1>8. /\ \A k, g : <<"challenge", k>> = <<"challenge", g>> => k = g
      /\ \A k, g : <<"bot", k>> = <<"bot", g>> => k = g
  OBVIOUS
<1> QED
  BY <1>1, <1>2, <1>3, <1>4, <1>5, <1>6, <1>7, <1>8

(* The connection opened next is a new one of its user, and there are the *)
(* numbers for it.                                                        *)
LEMMA NextIsNew ==
  ASSUME TypeOK, Numbered, NEW u \in Users, CanOpen(u)
  PROVE  /\ NextConn(u) \in Conns /\ conn[NextConn(u)] = "unopened" /\ user(NextConn(u)) = u
         /\ NextConn(u) = <<u, Cardinality(Opened(u)) + 1>> /\ Cardinality(Opened(u)) \in Nat
<1> DEFINE k == Cardinality(Opened(u))
           all == {c \in Conns : conn[c] # "unopened"}
           f == [n \in Opened(u) |-> <<u, n>>]
<1>1. IsFiniteSet(Opened(u)) /\ k \in Nat
  <2>1. IsFiniteSet(1 .. MaxConns)
    BY LobbyAssumption, FS_Interval
  <2>2. IsFiniteSet(Opened(u))
    BY <2>1, FS_Subset DEF Opened
  <2> QED
    BY <2>2, FS_CardinalityType
<1>2. IsFiniteSet(all) /\ Cardinality(all) \in Nat
  <2>1. IsFiniteSet(1 .. MaxConns)
    BY LobbyAssumption, FS_Interval
  <2>2. IsFiniteSet(Conns)
    BY <2>1, LobbyAssumption, FS_Product DEF Conns
  <2>3. IsFiniteSet(all)
    BY <2>2, FS_Subset
  <2> QED
    BY <2>3, FS_CardinalityType
<1>3. f \in Injection(Opened(u), all)
  <2>1. \A n \in Opened(u) : <<u, n>> \in all
    BY DEF Opened, Conns
  <2>2. f \in [Opened(u) -> all]
    BY <2>1
  <2>3. \A m, n \in Opened(u) : f[m] = f[n] => m = n
    OBVIOUS
  <2> QED
    BY <2>2, <2>3 DEF Injection, IsInjective
<1>4. k <= Cardinality(all)
  <2> HIDE DEF f, all
  <2> QED
    BY <1>2, <1>3, FS_Injection
<1>5. k < MaxConns
  BY <1>1, <1>2, <1>4, LobbyAssumption DEF CanOpen
<1>6. Opened(u) = 1 .. k
  BY DEF Numbered
<1>7. k + 1 \in 1 .. MaxConns /\ k + 1 \notin Opened(u)
  BY <1>1, <1>5, <1>6, LobbyAssumption
<1>8. NextConn(u) = <<u, k + 1>>
  BY <1>1 DEF NextConn, Opened
<1>9. NextConn(u) \in Conns /\ conn[NextConn(u)] = "unopened" /\ user(NextConn(u)) = u
  BY <1>7, <1>8 DEF Opened, Conns, user
<1> QED
  BY <1>1, <1>8, <1>9
-----------------------------------------------------------------------------
(* Where the lobby knows a connection. *)
Place(c) == c = waiting \/ c \in Slots(challenges) \/ \E g \in Games : c \in game[g].seats

(* What Sockets makes of each connection. *)
LEMMA SocketsAre ==
  ASSUME TypeOK, NEW new \in SUBSET Conns, NEW told, Sockets(new, told), \A c \in new : conn[c] = "unopened"
  PROVE  /\ conn' \in [Conns -> {"unopened", "open", "told", "unqueued", "unslotted", "gone"}]
         /\ \A c \in new : conn'[c] \in {"open", "told"}
         /\ \A c \in Conns \ new : conn[c] # "open" => conn'[c] = conn[c]
         /\ \A c \in Conns \ new : conn[c] = "open" => conn'[c] \in {"open", "told"}
         /\ \A c \in Conns : c \in told => conn'[c] # "open"
         /\ \A c \in Conns : conn'[c] = "gone" => c \notin new /\ conn[c] = "gone"
BY DEF Sockets, TypeOK

(* The connections stay numbered, when one is opened and when none is.     *)
LEMMA NumberedNext ==
  ASSUME TypeOK, Numbered, NEW u \in Users, CanOpen(u), conn'[NextConn(u)] # "unopened",
         \A c \in Conns \ {NextConn(u)} : conn'[c] = "unopened" <=> conn[c] = "unopened"
  PROVE  Numbered'
<1> DEFINE k == Cardinality(Opened(u))
<1>1. NextConn(u) = <<u, k + 1>> /\ NextConn(u) \in Conns /\ k \in Nat /\ conn[NextConn(u)] = "unopened"
  BY NextIsNew
<1>2. k + 1 \in 1 .. MaxConns
  BY <1>1 DEF Conns
<1>3. Opened(u) = 1 .. k
  BY DEF Numbered
<1>4. Opened(u)' = Opened(u) \cup {k + 1}
  <2>1. \A n \in 1 .. MaxConns : n # k + 1 => <<u, n>> \in Conns \ {NextConn(u)}
    BY <1>1 DEF Conns
  <2> QED
    BY <2>1, <1>1, <1>2 DEF Opened
<1>5. Opened(u)' = 1 .. k + 1
  BY <1>1, <1>3, <1>4
<1>6. Cardinality(Opened(u)') = k + 1
  BY <1>1, <1>5, FS_Interval
<1>7. ASSUME NEW v \in Users, v # u
      PROVE  Opened(v)' = Opened(v)
  <2>1. \A n \in 1 .. MaxConns : <<v, n>> \in Conns \ {NextConn(u)}
    BY <1>1, <1>7 DEF Conns
  <2> QED
    BY <2>1 DEF Opened
<1> QED
  BY <1>5, <1>6, <1>7 DEF Numbered

(* The connections stay numbered when none is opened.                      *)
LEMMA NumberedSame ==
  ASSUME Numbered, \A c \in Conns : conn'[c] = "unopened" <=> conn[c] = "unopened"
  PROVE  Numbered'
<1>1. ASSUME NEW v \in Users
      PROVE  Opened(v)' = Opened(v)
  <2>1. \A n \in 1 .. MaxConns : <<v, n>> \in Conns
    BY DEF Conns
  <2> QED
    BY <2>1 DEF Opened
<1> QED
  BY <1>1 DEF Numbered

(* A handler that opens and closes connections forgets none, if those that *)
(* lose their place are told, and lets no broken one in.                   *)
LEMMA SocketsServe ==
  ASSUME TypeOK, TypeOK', Waits, ConnectionsAreServed, NEW new \in SUBSET Conns, NEW told, Sockets(new, told),
         \A c \in new : conn[c] = "unopened",
         \A c \in Conns \ told : c \in new \/ Place(c) => Place(c)',
         waiting' \in {waiting, Nobody} \cup new,
         Slots(challenges') \subseteq Slots(challenges) \cup new,
         \A g \in Games : \A c \in game'[g].seats :
            Running(g)' /\ c \in Conns /\ conn[c] = "gone" =>
               Running(g) /\ c \in game[g].seats /\ (<<g, user(c)>> \in absent => <<g, user(c)>> \in absent')
  PROVE  Waits' /\ ConnectionsAreServed'
<1>1. /\ \A c \in new : conn'[c] \in {"open", "told"}
      /\ \A c \in Conns \ new : conn[c] # "open" => conn'[c] = conn[c]
      /\ \A c \in Conns \ new : conn[c] = "open" => conn'[c] \in {"open", "told"}
      /\ \A c \in Conns : c \in told => conn'[c] # "open"
      /\ \A c \in Conns : conn'[c] = "gone" => c \notin new /\ conn[c] = "gone"
  BY SocketsAre
<1>2. Waits'
  <2>1. ASSUME waiting' # Nobody
        PROVE  conn'[waiting'] \in {"open", "told"}
    <3>1. CASE waiting' \in new
      BY <1>1, <3>1
    <3>2. CASE waiting' \notin new
      <4>1. waiting' = waiting /\ waiting \in Conns
        BY <2>1, <3>2 DEF TypeOK
      <4> QED
        BY <1>1, <2>1, <3>2, <4>1 DEF Waits
    <3> QED
      BY <3>1, <3>2
  <2>2. ASSUME NEW ch \in challenges', ch.slot # Nobody
        PROVE  conn'[ch.slot] \in {"open", "told", "unqueued"}
    <3>1. ch.slot \in Slots(challenges')
      BY <2>2 DEF Slots
    <3>2. CASE ch.slot \in new
      BY <1>1, <3>2
    <3>3. CASE ch.slot \notin new
      <4>1. PICK ci \in challenges : ci.slot = ch.slot
        BY <3>1, <3>3 DEF Slots
      <4>2. ch.slot \in Conns
        BY <2>2 DEF TypeOK, Challenge
      <4> QED
        BY <1>1, <2>2, <3>3, <4>1, <4>2 DEF Waits
    <3> QED
      BY <3>2, <3>3
  <2> QED
    BY <2>1, <2>2 DEF Waits
<1>3. ASSUME NEW c \in Conns, conn'[c] = "open"
      PROVE  Place(c)'
  <2>1. c \notin told
    BY <1>1, <1>3
  <2>2. c \in new \/ conn[c] = "open"
    BY <1>1, <1>3
  <2>3. conn[c] = "open" => Place(c)
    BY DEF ConnectionsAreServed, NoForgottenConnection, Place
  <2> QED
    BY <2>1, <2>2, <2>3
<1>4. ASSUME NEW c \in Conns, conn'[c] = "gone"
      PROVE  /\ c # waiting' /\ c \notin Slots(challenges')
             /\ \A g \in Games : Running(g)' /\ c \in game'[g].seats => <<g, user(c)>> \in absent'
  <2>1. c \notin new /\ conn[c] = "gone" /\ c # Nobody
    BY <1>1, <1>4, NamesAndNobody
  <2>2. /\ c # waiting /\ c \notin Slots(challenges)
        /\ \A g \in Games : Running(g) /\ c \in game[g].seats => <<g, user(c)>> \in absent
    BY <2>1 DEF ConnectionsAreServed, BrokenIsNoticed
  <2> QED
    BY <2>1, <2>2
<1>5. NoForgottenConnection'
  BY <1>3 DEF NoForgottenConnection, Place
<1>6. BrokenIsNoticed'
  BY <1>4 DEF BrokenIsNoticed, Slots, Running, user
<1> QED
  BY <1>2, <1>5, <1>6 DEF ConnectionsAreServed

(* The names that may come back. *)
IsRoomName(n) == \E u, v \in Users : n = <<"room", u, v>>

(* A game starts: names, rooms, index and players still agree, whether the *)
(* name is new or, for a game of the queue, that of an older one of the    *)
(* same two players.                                                       *)
LEMMA GameStarts ==
  ASSUME TypeOK, Matches, NEW name \in RoomNames, NEW seats \in SUBSET Conns, NEW c, NEW told,
         StartRoom(name, seats, c, told), issued' = issued,
         \A u, v \in Users : name = <<"room", u, v>> => {user(d) : d \in seats} = {u, v},
         ~IsRoomName(name) => rooms[name] = NoGame,
         \A h \in Games : name = <<"bot", h>> => h = FreshGame,
         \A k \in 1 .. MaxChallenges :
            name = <<"challenge", k>> => k <= issued /\ \A ch \in challenges' : ch.id # k
  PROVE  /\ Matches'
         /\ FreshGame \in Games /\ game[FreshGame] = Unused
         /\ game' = [game EXCEPT ![FreshGame] = [name |-> name, seats |-> seats, stage |-> "running"]]
         /\ rooms' \in [RoomNames -> Games \cup {NoGame}]
         /\ userRooms' \in [Users -> RoomNames \cup {NoRoom}]
         /\ game' \in [Games -> [name : RoomNames \cup {NoRoom}, seats : SUBSET Conns,
                                 stage : {"unused", "running", "ended", "removed"}]]
<1> DEFINE players == {user(d) : d \in seats}
<1>0. PICK g0 \in Games : g0 = FreshGame /\ game[g0].stage = "unused"
  BY DEF StartRoom, HasFreshGame, FreshGame
<1>1. g0 \in Games /\ game[g0].stage = "unused"
  BY <1>0
<1>2. game[g0] = Unused /\ ~Live(g0)
  BY <1>1 DEF Matches, Unstarted, Live
<1>3. /\ game' = [game EXCEPT ![g0] = [name |-> name, seats |-> seats, stage |-> "running"]]
      /\ rooms' = [rooms EXCEPT ![name] = g0]
      /\ userRooms' = [u \in Users |-> IF u \in players THEN name ELSE userRooms[u]]
      /\ challenges' \subseteq challenges
  BY <1>0 DEF StartRoom, Closed
<1> HIDE DEF players
<1>4. /\ game'[g0] = [name |-> name, seats |-> seats, stage |-> "running"]
      /\ \A g \in Games \ {g0} : game'[g] = game[g]
      /\ rooms'[name] = g0 /\ \A n \in RoomNames \ {name} : rooms'[n] = rooms[n]
      /\ \A u \in Users : userRooms'[u] = IF u \in players THEN name ELSE userRooms[u]
  BY <1>1, <1>3 DEF TypeOK
<1>5. /\ game'[g0].name = name /\ game'[g0].seats = seats /\ game'[g0].stage = "running"
      /\ Live(g0)' /\ Players(g0)' = players
  BY <1>4 DEF Live, Players, players
<1>6. \A g \in Games \ {g0} : (Live(g)' <=> Live(g)) /\ Players(g)' = Players(g)
  BY <1>4 DEF Live, Players
<1>7. /\ \A n \in RoomNames : rooms[n] # NoGame => rooms[n] # g0 /\ rooms[n] \in Games
      /\ g0 # NoGame /\ name # NoRoom
  BY <1>1, <1>2, NamesAndNobody DEF Matches, Named, TypeOK
<1>8. ASSUME NEW g \in Games \ {g0}, Live(g), game[g].name = name
      PROVE  Players(g) = players
  <2>1. IsRoomName(name)
    <3>1. ASSUME ~IsRoomName(name)
          PROVE  FALSE
      <4>1. rooms[game[g].name] = g
        BY <1>8, <3>1 DEF Matches, Named, IsRoomName
      <4> QED
        BY <1>8, <3>1, <4>1, NamesAndNobody
    <3> QED
      BY <3>1
  <2>2. PICK u, v \in Users : name = <<"room", u, v>>
    BY <2>1 DEF IsRoomName
  <2>3. Players(g) = {u, v}
    BY <1>8, <2>2 DEF Matches, Named
  <2> QED
    BY <2>2, <2>3 DEF players
<1>9. Invited'
  BY <1>3 DEF Matches, Invited
<1>10. Unstarted'
  <2>1. \A g \in Games : game'[g].stage = "unused" => game'[g] = Unused /\ game[g].stage = "unused"
    BY <1>4, <1>5 DEF Matches, Unstarted
  <2>2. ASSUME NEW g \in Games, NEW h \in Games, Live(g)', game'[g].name = <<"bot", h>>
        PROVE  game'[h].stage # "unused"
    <3>1. CASE g = g0
      BY <1>0, <2>2, <3>1, <1>5
    <3>2. CASE g # g0
      BY <2>1, <2>2, <3>2, <1>4, <1>6 DEF Matches, Unstarted
    <3> QED
      BY <3>1, <3>2
  <2>3. ASSUME NEW g \in Games, NEW k \in 1 .. MaxChallenges, Live(g)', game'[g].name = <<"challenge", k>>
        PROVE  k <= issued' /\ \A ch \in challenges' : ch.id # k
    <3>1. CASE g = g0
      BY <2>3, <3>1, <1>5
    <3>2. CASE g # g0
      BY <2>3, <3>2, <1>3, <1>4, <1>6 DEF Matches, Unstarted
    <3> QED
      BY <3>1, <3>2
  <2> QED
    BY <2>1, <2>2, <2>3 DEF Unstarted, Live
<1>11. Named'
  <2>1. ASSUME NEW n \in RoomNames, rooms'[n] # NoGame
        PROVE  game'[rooms'[n]].stage \in {"running", "ended"} /\ game'[rooms'[n]].name = n
    <3>1. CASE n = name
      BY <3>1, <1>4, <1>5
    <3>2. CASE n # name
      <4>1. rooms'[n] = rooms[n] /\ rooms[n] \in Games \ {g0} /\ Live(rooms[n]) /\ game[rooms[n]].name = n
        BY <2>1, <3>2, <1>4, <1>7 DEF Matches, Named
      <4> QED
        BY <4>1, <1>4 DEF Live
    <3> QED
      BY <3>1, <3>2
  <2>2. ASSUME NEW g \in Games, Live(g)'
        PROVE  /\ game'[g].name \in RoomNames
               /\ \A u, v \in Users : game'[g].name = <<"room", u, v>> => Players(g)' = {u, v}
               /\ ~IsRoomName(game'[g].name) => rooms'[game'[g].name] = g
    <3>1. CASE g = g0
      BY <3>1, <1>4, <1>5 DEF players
    <3>2. CASE g # g0
      <4>1. /\ game'[g] = game[g] /\ Live(g) /\ game[g].name \in RoomNames
            /\ \A u, v \in Users : game[g].name = <<"room", u, v>> => Players(g)' = {u, v}
            /\ ~IsRoomName(game[g].name) => rooms[game[g].name] = g
        BY <2>2, <3>2, <1>4, <1>6 DEF Matches, Named, IsRoomName
      <4>2. ~IsRoomName(game[g].name) => game[g].name # name
        BY <4>1, NamesAndNobody
      <4> QED
        BY <4>1, <4>2, <1>4
    <3> QED
      BY <3>1, <3>2
  <2> QED
    BY <2>1, <2>2 DEF Named, IsRoomName, Live, Players
<1>12. Indexed'
  <2>1. ASSUME NEW u \in Users, userRooms'[u] # NoRoom
        PROVE  /\ rooms'[userRooms'[u]] # NoGame
               /\ \A g \in Games : Live(g)' /\ game'[g].name = userRooms'[u] => u \in Players(g)'
    <3>1. CASE u \in players
      BY <3>1, <1>4, <1>5, <1>6, <1>7, <1>8
    <3>2. CASE u \notin players
      <4>1. /\ userRooms'[u] = userRooms[u] /\ userRooms[u] \in RoomNames /\ rooms[userRooms[u]] # NoGame
            /\ \A g \in Games : Live(g) /\ game[g].name = userRooms[u] => u \in Players(g)
        BY <2>1, <3>2, <1>4 DEF Matches, Indexed, TypeOK
      <4>2. userRooms[u] # name
        <5>1. ASSUME userRooms[u] = name
              PROVE  FALSE
          <6>1. rooms[name] \in Games \ {g0} /\ Live(rooms[name]) /\ game[rooms[name]].name = name
            BY <4>1, <5>1, <1>7 DEF Matches, Named
          <6> QED
            BY <3>2, <4>1, <5>1, <6>1, <1>8
        <5> QED
          BY <5>1
      <4> QED
        BY <4>1, <4>2, <1>4, <1>5, <1>6
    <3> QED
      BY <3>1, <3>2
  <2> QED
    BY <2>1 DEF Indexed, Live, Players
<1>13. /\ rooms' \in [RoomNames -> Games \cup {NoGame}]
       /\ userRooms' \in [Users -> RoomNames \cup {NoRoom}]
       /\ game' \in [Games -> [name : RoomNames \cup {NoRoom}, seats : SUBSET Conns,
                               stage : {"unused", "running", "ended", "removed"}]]
  <2>1. [name |-> name, seats |-> seats, stage |-> "running"]
          \in [name : RoomNames \cup {NoRoom}, seats : SUBSET Conns, stage : {"unused", "running", "ended", "removed"}]
    OBVIOUS
  <2> QED
    BY <2>1, <1>1, <1>3 DEF TypeOK
<1> QED
  BY <1>0, <1>1, <1>2, <1>3, <1>9, <1>10, <1>11, <1>12, <1>13 DEF Matches

(* No game starts and none is removed: a player may change connection, a   *)
(* game may end, the index may forget a user, challenges may close, change *)
(* slot or be new.                                                         *)
LEMMA MatchesStay ==
  ASSUME TypeOK, TypeOK', Matches, Invited', rooms' = rooms, issued <= issued',
         \A g \in Games : /\ game'[g].name = game[g].name /\ Players(g)' = Players(g)
                          /\ game[g].stage = "unused" => game'[g] = game[g]
                          /\ game'[g].stage = "unused" => game[g].stage = "unused"
                          /\ Live(g)' <=> Live(g),
         \A u \in Users : userRooms'[u] \in {userRooms[u], NoRoom},
         \A ch \in challenges' : ch.id > issued \/ \E ci \in challenges : ci.id = ch.id
  PROVE  Matches'
<1>1. Unstarted'
  <2>1. ASSUME NEW g \in Games, NEW k \in 1 .. MaxChallenges, Live(g)', game'[g].name = <<"challenge", k>>
        PROVE  k <= issued' /\ \A ch \in challenges' : ch.id # k
    <3>1. k <= issued /\ \A ch \in challenges : ch.id # k
      BY <2>1 DEF Matches, Unstarted
    <3> QED
      BY <3>1 DEF TypeOK
  <2> QED
    BY <2>1 DEF Matches, Unstarted, Live
<1>2. Named'
  <2>1. ASSUME NEW n \in RoomNames, rooms'[n] # NoGame
        PROVE  game'[rooms'[n]].stage \in {"running", "ended"} /\ game'[rooms'[n]].name = n
    <3>1. PICK g \in Games : g = rooms'[n] /\ g = rooms[n]
      BY <2>1 DEF TypeOK
    <3>2. Live(g)' /\ game'[g].name = n
      BY <2>1, <3>1 DEF Matches, Named
    <3> QED
      BY <3>1, <3>2 DEF Live
  <2>2. ASSUME NEW g \in Games, Live(g)'
        PROVE  /\ game'[g].name \in RoomNames
               /\ \A u, v \in Users : game'[g].name = <<"room", u, v>> => Players(g)' = {u, v}
               /\ (\A u, v \in Users : game'[g].name # <<"room", u, v>>) => rooms'[game'[g].name] = g
    BY <2>2 DEF Matches, Named
  <2> QED
    BY <2>1, <2>2 DEF Named, Live, Players
<1>3. Indexed'
  <2>1. ASSUME NEW u \in Users, userRooms'[u] # NoRoom
        PROVE  /\ rooms'[userRooms'[u]] # NoGame
               /\ \A g \in Games : Live(g)' /\ game'[g].name = userRooms'[u] => u \in Players(g)'
    <3>1. userRooms'[u] = userRooms[u]
      BY <2>1
    <3> QED
      BY <2>1, <3>1 DEF Matches, Indexed
  <2> QED
    BY <2>1 DEF Indexed, Live, Players
<1> QED
  BY <1>1, <1>2, <1>3 DEF Matches

(* The match a user is led back to: it runs, they are one of its players   *)
(* and have one seat in it.                                                *)
LEMMA ReturnsTo ==
  ASSUME TypeOK, Matches, Seated, NEW u \in Users, inMatch(u)
  PROVE  LET g == rooms[userRooms[u]]
         IN  /\ g \in Games /\ Running(g) /\ Live(g)
             /\ Seat(g, u) \in game[g].seats /\ user(Seat(g, u)) = u /\ Seat(g, u) \in Conns
             /\ \A c \in game[g].seats \ {Seat(g, u)} : user(c) # u
<1> DEFINE g == rooms[userRooms[u]]
<1>1. userRooms[u] \in RoomNames /\ Running(g) /\ g # NoGame
  BY DEF inMatch, TypeOK, Running
<1>2. g \in Games /\ Live(g) /\ game[g].name = userRooms[u]
  BY <1>1 DEF TypeOK, Matches, Named, Running, Live
<1>3. u \in Players(g)
  BY <1>1, <1>2, NamesAndNobody DEF Matches, Indexed
<1>4. \E c \in game[g].seats : user(c) = u
  BY <1>3 DEF Players
<1>5. Seat(g, u) \in game[g].seats /\ user(Seat(g, u)) = u
  BY <1>4 DEF Seat
<1>6. Seat(g, u) \in Conns
  BY <1>2, <1>5 DEF TypeOK
<1>7. \A c \in game[g].seats \ {Seat(g, u)} : user(c) # u
  BY <1>2, <1>5 DEF Seated
<1> QED
  BY <1>1, <1>2, <1>5, <1>6, <1>7

(* tryReconnectLocked: the same players, one with another connection.      *)
LEMMA ReconnectKeeps ==
  ASSUME Base, NEW u \in Users, Reconnect(u)
  PROVE  Base' /\ \A g \in Games : Players(g)' = Players(g) /\ (Running(g)' => Running(g))
<1>1. PICK g \in Games : g = rooms[userRooms[u]]
  BY ReturnsTo DEF Reconnect, Base
<1>2. PICK c \in Conns : c = NextConn(u)
  BY NextIsNew DEF Reconnect, Base
<1>3. PICK s \in Conns : s = Seat(g, u)
  BY <1>1, ReturnsTo DEF Reconnect, Base
<1>4. conn[c] = "unopened" /\ user(c) = u /\ CanOpen(u)
  BY <1>2, NextIsNew DEF Reconnect, Base
<1>5. /\ Running(g) /\ Live(g) /\ s \in game[g].seats /\ user(s) = u
      /\ \A d \in game[g].seats \ {s} : user(d) # u
  BY <1>1, <1>3, ReturnsTo DEF Reconnect, Base
<1>6. /\ Sockets({c}, {s})
      /\ \E stage \in {"running", "ended"} :
            game' = [game EXCEPT ![g].seats = (@ \ {s}) \cup {c}, ![g].stage = stage]
      /\ absent' = absent \ (IF game'[g].stage = "ended" THEN {g} \X Users ELSE {<<g, u>>})
      /\ UNCHANGED <<waiting, challenges, rooms, userRooms, issued>>
  BY <1>1, <1>2, <1>3 DEF Reconnect, TakeSeat
<1>7. PICK stage \in {"running", "ended"} :
         game' = [game EXCEPT ![g].seats = (@ \ {s}) \cup {c}, ![g].stage = stage]
  BY <1>6
<1>8. /\ game'[g].seats = (game[g].seats \ {s}) \cup {c} /\ game'[g].stage = stage /\ game'[g].name = game[g].name
      /\ \A h \in Games \ {g} : game'[h] = game[h]
  BY <1>7 DEF Base, TypeOK
<1>9. TypeOK'
  <2>1. conn' \in [Conns -> {"unopened", "open", "told", "unqueued", "unslotted", "gone"}]
    BY <1>4, <1>6, SocketsAre DEF Base
  <2>2. game' \in [Games -> [name : RoomNames \cup {NoRoom}, seats : SUBSET Conns,
                             stage : {"unused", "running", "ended", "removed"}]]
    <3> DEFINE R == [name : RoomNames \cup {NoRoom}, seats : SUBSET Conns,
                     stage : {"unused", "running", "ended", "removed"}]
    <3>1. game \in [Games -> R]
      BY DEF Base, TypeOK
    <3>2. [name |-> game[g].name, seats |-> (game[g].seats \ {s}) \cup {c}, stage |-> stage] \in R
      BY <3>1
    <3>3. game'[g] = [name |-> game[g].name, seats |-> (game[g].seats \ {s}) \cup {c}, stage |-> stage]
      BY <1>7, <3>1
    <3>4. game' \in [Games -> R]
      <4>1. \A h \in Games : game'[h] \in R
        BY <1>8, <3>1, <3>2, <3>3
      <4>2. game' = [h \in Games |-> game'[h]]
        BY <1>7, <3>1
      <4> HIDE DEF R
      <4> QED
        BY <4>1, <4>2
    <3> QED
      BY <3>4
  <2> QED
    BY <1>6, <2>1, <2>2 DEF Base, TypeOK
<1>10. \A h \in Games : Players(h)' = Players(h)
  <2>1. Players(g)' = Players(g)
    BY <1>4, <1>5, <1>8 DEF Players
  <2> QED
    BY <2>1, <1>8 DEF Players
<1>11. Matches'
  <2>1. Invited'
    BY <1>6 DEF Base, Matches, Invited
  <2>2. \A h \in Games : Live(h)' <=> Live(h)
    BY <1>5, <1>8 DEF Live
  <2> QED
    <3>1. TypeOK /\ Matches /\ rooms' = rooms /\ issued <= issued'
      BY <1>6, LobbyAssumption DEF Base, TypeOK
    <3>2. \A h \in Games : /\ game'[h].name = game[h].name
                           /\ game[h].stage = "unused" => game'[h] = game[h]
                           /\ game'[h].stage = "unused" => game[h].stage = "unused"
      BY <1>5, <1>8 DEF Live
    <3>3. \A v \in Users : userRooms'[v] \in {userRooms[v], NoRoom}
      BY <1>6
    <3>4. \A ch \in challenges' : ch.id > issued \/ \E ci \in challenges : ci.id = ch.id
      BY <1>6
    <3> QED
      BY <1>9, <1>10, <2>1, <2>2, <3>1, <3>2, <3>3, <3>4, MatchesStay
<1>12. /\ \A d \in Conns \ {c} : conn'[d] = "unopened" <=> conn[d] = "unopened"
       /\ conn'[c] # "unopened"
  <2>1. /\ \A d \in {c} : conn'[d] \in {"open", "told"}
        /\ \A d \in Conns \ {c} : conn[d] # "open" => conn'[d] = conn[d]
        /\ \A d \in Conns \ {c} : conn[d] = "open" => conn'[d] \in {"open", "told"}
    BY <1>4, <1>6, SocketsAre DEF Base
  <2> QED
    BY <2>1
<1>13. Numbered'
  BY <1>2, <1>4, <1>12, NumberedNext DEF Base
<1>14. Seated'
  <2>1. ASSUME NEW h \in Games, NEW d \in game'[h].seats
        PROVE  conn'[d] # "unopened" /\ \A e \in game'[h].seats : user(d) = user(e) => d = e
    <3>1. CASE h = g
      <4>1. d \in Conns /\ (d # c => d \in game[g].seats \ {s})
        BY <1>8, <1>9, <2>1, <3>1 DEF TypeOK
      <4> QED
        BY <1>4, <1>5, <1>8, <1>12, <2>1, <3>1, <4>1 DEF Base, Seated
    <3>2. CASE h # g
      BY <1>8, <1>9, <1>12, <2>1, <3>2 DEF Base, Seated, TypeOK
    <3> QED
      BY <3>1, <3>2
  <2> QED
    BY <2>1 DEF Seated
<1>15. Waits' /\ ConnectionsAreServed'
  <2>1. \A d \in Conns \ {s} : d \in {c} \/ Place(d) => Place(d)'
    BY <1>6, <1>8 DEF Place, Slots
  <2>2. ASSUME NEW h \in Games, NEW d \in game'[h].seats, Running(h)', d \in Conns, conn[d] = "gone"
        PROVE  Running(h) /\ d \in game[h].seats /\ (<<h, user(d)>> \in absent => <<h, user(d)>> \in absent')
    <3>1. d # c
      BY <1>4, <2>2
    <3>2. CASE h = g
      <4>1. d \in game[g].seats \ {s} /\ stage = "running"
        BY <1>8, <2>2, <3>1, <3>2 DEF Running
      <4>2. user(d) # u /\ absent' = absent \ {<<g, u>>}
        BY <1>5, <1>6, <1>8, <4>1
      <4> QED
        BY <1>5, <3>2, <4>1, <4>2
    <3>3. CASE h # g
      BY <1>6, <1>8, <2>2, <3>3 DEF Running
    <3> QED
      BY <3>2, <3>3
  <2>3. waiting' \in {waiting, Nobody} \cup {c} /\ Slots(challenges') \subseteq Slots(challenges) \cup {c}
    BY <1>6
  <2>4. {c} \in SUBSET Conns /\ \A d \in {c} : conn[d] = "unopened"
    BY <1>4
  <2>5. TypeOK /\ Waits /\ ConnectionsAreServed
    BY DEF Base
  <2>6. Sockets({c}, {s})
    BY <1>6
  <2> QED
    BY <1>9, <2>1, <2>2, <2>3, <2>4, <2>5, <2>6, SocketsServe
<1> QED
  BY <1>5, <1>8, <1>9, <1>10, <1>11, <1>13, <1>14, <1>15 DEF Base, Matches, Running
-----------------------------------------------------------------------------
(* A connection is opened and no game starts: it waits, or is turned away. *)
LEMMA Opens ==
  ASSUME Base, NEW u \in Users, CanOpen(u), NEW told, Sockets({NextConn(u)}, told),
         UNCHANGED <<game, rooms, absent, issued>>, Forget(u),
         waiting' \in {waiting, Nobody, NextConn(u)},
         challenges' \subseteq Challenge,
         \A ch1, ch2 \in challenges' : ch1.from = ch2.from => ch1 = ch2,
         Slots(challenges') \subseteq Slots(challenges) \cup {NextConn(u)},
         Invited', \A ch \in challenges' : \E ci \in challenges : ci.id = ch.id,
         \A c \in Conns \ told : c = NextConn(u) \/ Place(c) => Place(c)'
  PROVE  Base'
<1>1. PICK c \in Conns : c = NextConn(u) /\ conn[c] = "unopened"
  BY NextIsNew DEF Base
<1>2. Sockets({c}, told) /\ {c} \in SUBSET Conns /\ \A d \in {c} : conn[d] = "unopened"
  BY <1>1
<1>3. TypeOK /\ Waits /\ ConnectionsAreServed /\ Numbered /\ Matches /\ Seated
  BY DEF Base
<1>4. /\ conn' \in [Conns -> {"unopened", "open", "told", "unqueued", "unslotted", "gone"}]
      /\ \A d \in {c} : conn'[d] \in {"open", "told"}
      /\ \A d \in Conns \ {c} : conn[d] # "open" => conn'[d] = conn[d]
      /\ \A d \in Conns \ {c} : conn[d] = "open" => conn'[d] \in {"open", "told"}
  BY <1>2, <1>3, SocketsAre
<1>5. \A v \in Users : userRooms'[v] \in {userRooms[v], NoRoom}
  BY <1>3 DEF Forget, TypeOK
<1>6. TypeOK'
  <2>1. userRooms' \in [Users -> RoomNames \cup {NoRoom}]
    BY <1>3 DEF Forget, TypeOK
  <2>2. waiting' \in Conns \cup {Nobody}
    BY <1>1, <1>3 DEF TypeOK
  <2> QED
    BY <1>3, <1>4, <2>1, <2>2 DEF TypeOK
<1>7. Matches'
  <2>1. \A g \in Games : Players(g)' = Players(g) /\ (Live(g)' <=> Live(g))
    BY DEF Players, Live
  <2>2. issued <= issued'
    BY <1>3 DEF TypeOK
  <2> QED
    BY <1>3, <1>5, <1>6, <2>1, <2>2, MatchesStay
<1>8. Numbered'
  BY <1>1, <1>3, <1>4, NumberedNext
<1>9. Seated'
  <2>1. \A d \in Conns : conn[d] # "unopened" => conn'[d] # "unopened"
    BY <1>1, <1>4
  <2> QED
    BY <1>3, <2>1 DEF Seated, TypeOK
<1>10. Waits' /\ ConnectionsAreServed'
  <2>1. waiting' \in {waiting, Nobody} \cup {c} /\ Slots(challenges') \subseteq Slots(challenges) \cup {c}
    BY <1>1
  <2>2. \A d \in Conns \ told : d \in {c} \/ Place(d) => Place(d)'
    BY <1>1
  <2>3. \A g \in Games : \A d \in game'[g].seats :
            Running(g)' /\ d \in Conns /\ conn[d] = "gone" =>
               Running(g) /\ d \in game[g].seats /\ (<<g, user(d)>> \in absent => <<g, user(d)>> \in absent')
    BY DEF Running
  <2> QED
    BY <1>2, <1>3, <1>6, <2>1, <2>2, <2>3, SocketsServe
<1> QED
  BY <1>6, <1>7, <1>8, <1>9, <1>10 DEF Base

(* A connection that is told to go at once.                                *)
LEMMA TurnedAwayKeeps ==
  ASSUME Base, NEW u \in Users, TurnedAway(u)
  PROVE  Base'
<1>1. /\ Sockets({NextConn(u)}, {NextConn(u)}) /\ Forget(u) /\ CanOpen(u)
      /\ UNCHANGED <<waiting, challenges, rooms, game, absent, issued>>
  BY DEF TurnedAway
<1>2. Invited'
  BY <1>1 DEF Base, Matches, Invited
<1>3. \A c \in Conns \ {NextConn(u)} : c = NextConn(u) \/ Place(c) => Place(c)'
  BY <1>1 DEF Place, Slots
<1>4. challenges' \subseteq Challenge /\ \A ch1, ch2 \in challenges' : ch1.from = ch2.from => ch1 = ch2
  BY <1>1 DEF Base, TypeOK
<1> QED
  BY <1>1, <1>2, <1>3, <1>4, Opens

(* JoinQueue of the first to come. *)
Waiter(u) ==
  /\ waiting = Nobody \/ user(waiting) = u
  /\ waiting' = NextConn(u)
  /\ Sockets({NextConn(u)}, {waiting} \ {Nobody})
  /\ Forget(u)
  /\ NoRoomStarts
  /\ UNCHANGED <<challenges, issued>>

(* Waiting in the queue keeps the invariant.                                *)
LEMMA WaiterKeeps ==
  ASSUME Base, NEW u \in Users, CanOpen(u), Waiter(u)
  PROVE  Base'
<1>1. Invited'
  BY DEF Base, Matches, Invited, Waiter
<1>2. \A c \in Conns \ ({waiting} \ {Nobody}) : c = NextConn(u) \/ Place(c) => Place(c)'
  BY NamesAndNobody DEF Place, Slots, Waiter, NoRoomStarts
<1>3. challenges' \subseteq Challenge /\ \A ch1, ch2 \in challenges' : ch1.from = ch2.from => ch1 = ch2
  BY DEF Base, TypeOK, Waiter
<1> QED
  BY <1>1, <1>2, <1>3, Opens DEF Waiter, NoRoomStarts

(* JoinChallenge of the first to come. *)
InSlot(u, ch) ==
  /\ ch.slot = Nobody \/ user(ch.slot) = u
  /\ u \in {ch.from, ch.to}
  /\ LeavesQueue(u)
  /\ challenges' = (challenges \ {ch}) \cup {[ch EXCEPT !.slot = NextConn(u)]}
  /\ Sockets({NextConn(u)}, OwnWaiting(u) \cup ({ch.slot} \ {Nobody}))
  /\ Forget(u)
  /\ NoRoomStarts
  /\ UNCHANGED issued

(* JoinChallenge of the first to come keeps the invariant.                 *)
LEMMA InSlotKeeps ==
  ASSUME Base, NEW u \in Users, NEW ch \in challenges, CanOpen(u), InSlot(u, ch)
  PROVE  Base'
<1>1. PICK c \in Conns : c = NextConn(u) /\ user(c) = u
  BY NextIsNew DEF Base
<1>2. PICK cn \in Challenge : /\ cn = [ch EXCEPT !.slot = c] /\ cn.id = ch.id /\ cn.from = ch.from /\ cn.to = ch.to /\ cn.slot = c
  <2>1. ch \in Challenge
    BY DEF Base, TypeOK
  <2>2. [ch EXCEPT !.slot = c] \in Challenge
    BY <2>1 DEF Challenge
  <2> QED
    BY <2>1, <2>2 DEF Challenge
<1>3. challenges' = (challenges \ {ch}) \cup {cn}
  BY <1>1, <1>2 DEF InSlot
<1>4. challenges' \subseteq Challenge /\ \A ch1, ch2 \in challenges' : ch1.from = ch2.from => ch1 = ch2
  <2>1. challenges \subseteq Challenge /\ \A ch1, ch2 \in challenges : ch1.from = ch2.from => ch1 = ch2
    BY DEF Base, TypeOK
  <2>2. ASSUME NEW ch1 \in challenges', NEW ch2 \in challenges', ch1.from = ch2.from
       PROVE  ch1 = ch2
    <3>1. (ch1 = cn \/ ch1 \in challenges \ {ch}) /\ (ch2 = cn \/ ch2 \in challenges \ {ch})
      BY <1>3
    <3>2. cn.from = ch.from
      BY <1>2
    <3> QED
      BY <2>1, <2>2, <3>1, <3>2
  <2> QED
    BY <2>1, <2>2, <1>2, <1>3
<1>5. Invited'
  <2>1. \A ci \in challenges' : ci.id <= issued' /\ (ci.slot # Nobody => user(ci.slot) \in {ci.from, ci.to})
    BY <1>1, <1>2, <1>3 DEF Base, Matches, Invited, InSlot
  <2>2. \A ch1, ch2 \in challenges' : ch1.id = ch2.id => ch1 = ch2
    <3>1. \A ch1, ch2 \in challenges : ch1.id = ch2.id => ch1 = ch2
      BY DEF Base, Matches, Invited
    <3>2. ASSUME NEW ch1 \in challenges', NEW ch2 \in challenges', ch1.id = ch2.id
         PROVE  ch1 = ch2
      <4>1. (ch1 = cn \/ ch1 \in challenges \ {ch}) /\ (ch2 = cn \/ ch2 \in challenges \ {ch})
        BY <1>3
      <4>2. cn.id = ch.id
        BY <1>2
      <4> QED
        BY <3>1, <3>2, <4>1, <4>2
    <3> QED
      BY <3>1, <3>2, <1>2, <1>3
  <2> QED
    BY <2>1, <2>2 DEF Invited
<1>6. \A ci \in challenges' : \E cj \in challenges : cj.id = ci.id
  BY <1>2, <1>3
<1>7. Slots(challenges') \subseteq Slots(challenges) \cup {NextConn(u)}
  BY <1>1, <1>2, <1>3 DEF Slots
<1>8. waiting' \in {waiting, Nobody} /\ (waiting' # waiting => waiting \in OwnWaiting(u))
  BY DEF InSlot, LeavesQueue, OwnWaiting
<1>9. ASSUME NEW d \in Conns \ (OwnWaiting(u) \cup ({ch.slot} \ {Nobody})), d = NextConn(u) \/ Place(d)
      PROVE  Place(d)'
  <2>1. CASE d = c
    <3>1. d \in Slots(challenges')
      BY <2>1, <1>2, <1>3, NamesAndNobody DEF Slots
    <3> QED
      BY <3>1 DEF Place, Slots
  <2>2. CASE d = waiting
    BY <2>2, <1>8, <1>9 DEF Place
  <2>3. CASE d \in Slots(challenges)
    <3>1. d \in Slots(challenges')
      BY <2>3, <1>3, <1>9, NamesAndNobody DEF Slots
    <3> QED
      BY <3>1 DEF Place, Slots
  <2>4. CASE \E g \in Games : d \in game[g].seats
    BY <2>4 DEF Place, InSlot, NoRoomStarts
  <2> QED
    BY <1>1, <1>9, <2>1, <2>2, <2>3, <2>4 DEF Place
<1>10. /\ Sockets({NextConn(u)}, OwnWaiting(u) \cup ({ch.slot} \ {Nobody})) /\ Forget(u)
       /\ UNCHANGED <<game, rooms, absent, issued>>
  BY DEF InSlot, NoRoomStarts
<1>11. waiting' \in {waiting, Nobody, NextConn(u)}
  BY <1>8
<1>12. \A d \in Conns \ (OwnWaiting(u) \cup ({ch.slot} \ {Nobody})) : d = NextConn(u) \/ Place(d) => Place(d)'
  BY <1>9
<1> QED
  BY <1>4, <1>5, <1>6, <1>7, <1>10, <1>11, <1>12, Opens
-----------------------------------------------------------------------------
(* A game starts with the connection just opened in one of its seats and   *)
(* one that waited, or nobody, in the other.                               *)
Paired(u, name, seats, told) ==
  /\ name \in RoomNames /\ seats \in SUBSET Conns
  /\ StartRoom(name, seats, NextConn(u), told)
  /\ issued' = issued
  /\ \A v, w \in Users : name = <<"room", v, w>> => {user(d) : d \in seats} = {v, w}
  /\ ~IsRoomName(name) => rooms[name] = NoGame
  /\ \A h \in Games : name = <<"bot", h>> => h = FreshGame
  /\ \A k \in 1 .. MaxChallenges :
       name = <<"challenge", k>> => k <= issued /\ \A ch \in challenges' : ch.id # k
  /\ NextConn(u) \in seats
  /\ \A d \in seats \ {NextConn(u)} : conn[d] \in {"open", "told", "unqueued"}
  /\ \A d, e \in seats : user(d) = user(e) => d = e
  /\ waiting' \in {waiting, Nobody}
  /\ waiting' # waiting => waiting \in seats \cup told

(* The game that starts keeps the invariant of the connections too.        *)
LEMMA PairedKeeps ==
  ASSUME Base, NEW u \in Users, CanOpen(u), NEW name, NEW seats, NEW told, Paired(u, name, seats, told)
  PROVE  Base'
<1> DEFINE players == {user(d) : d \in seats}
<1>1. PICK c \in Conns : c = NextConn(u) /\ conn[c] = "unopened"
  BY NextIsNew DEF Base
<1>2. /\ name \in RoomNames /\ seats \in SUBSET Conns /\ issued' = issued
      /\ StartRoom(name, seats, NextConn(u), told)
  BY DEF Paired
<1>3. TypeOK /\ Waits /\ ConnectionsAreServed /\ Numbered /\ Matches /\ Seated
  BY DEF Base
<1>4. /\ Matches'
      /\ FreshGame \in Games /\ game[FreshGame] = Unused
      /\ game' = [game EXCEPT ![FreshGame] = [name |-> name, seats |-> seats, stage |-> "running"]]
      /\ rooms' \in [RoomNames -> Games \cup {NoGame}]
      /\ userRooms' \in [Users -> RoomNames \cup {NoRoom}]
      /\ game' \in [Games -> [name : RoomNames \cup {NoRoom}, seats : SUBSET Conns,
                              stage : {"unused", "running", "ended", "removed"}]]
  <2>1. /\ \A v, w \in Users : name = <<"room", v, w>> => {user(d) : d \in seats} = {v, w}
        /\ ~IsRoomName(name) => rooms[name] = NoGame
        /\ \A h \in Games : name = <<"bot", h>> => h = FreshGame
        /\ \A k \in 1 .. MaxChallenges :
              name = <<"challenge", k>> => k <= issued /\ \A ch \in challenges' : ch.id # k
    BY DEF Paired
  <2> QED
    BY <1>2, <1>3, <2>1, GameStarts
<1>5. PICK g0 \in Games : g0 = FreshGame
  BY <1>4
<1>6. /\ game'[g0].seats = seats /\ game[g0].seats = {} /\ \A g \in Games \ {g0} : game'[g] = game[g]
  BY <1>3, <1>4, <1>5 DEF TypeOK, Unused
<1>7. PICK all : /\ Sockets({c}, all) /\ all = told \cup (Slots(Involving(players)) \ seats)
  BY <1>1, <1>2 DEF StartRoom
<1>8. challenges' = challenges \ Involving(players) /\ absent' = absent
  BY <1>2 DEF StartRoom, Closed
<1> HIDE DEF players
<1>9. {c} \in SUBSET Conns /\ \A d \in {c} : conn[d] = "unopened"
  BY <1>1
<1>10. /\ conn' \in [Conns -> {"unopened", "open", "told", "unqueued", "unslotted", "gone"}]
       /\ \A d \in {c} : conn'[d] \in {"open", "told"}
       /\ \A d \in Conns \ {c} : conn[d] # "open" => conn'[d] = conn[d]
       /\ \A d \in Conns \ {c} : conn[d] = "open" => conn'[d] \in {"open", "told"}
  BY <1>3, <1>7, <1>9, SocketsAre
<1>11. TypeOK'
  <2>1. waiting' \in Conns \cup {Nobody}
    BY <1>3 DEF TypeOK, Paired
  <2> QED
    BY <1>2, <1>3, <1>4, <1>8, <1>10, <2>1 DEF TypeOK
<1>12. Numbered'
  BY <1>1, <1>3, <1>10, NumberedNext
<1>13. Seated'
  <2>1. ASSUME NEW g \in Games, NEW d \in game'[g].seats
        PROVE  conn'[d] # "unopened" /\ \A e \in game'[g].seats : user(d) = user(e) => d = e
    <3>1. CASE g = g0
      <4>1. d \in seats /\ (d # c => conn[d] # "unopened")
        BY <1>1, <1>6, <2>1, <3>1 DEF Paired
      <4>2. \A e \in seats : user(d) = user(e) => d = e
        BY <4>1 DEF Paired
      <4> QED
        BY <1>2, <1>6, <1>10, <3>1, <4>1, <4>2
    <3>2. CASE g # g0
      <4>1. game'[g].seats = game[g].seats /\ game[g].seats \subseteq Conns
        BY <1>3, <1>6, <3>2 DEF TypeOK
      <4>2. conn[d] # "unopened" /\ \A e \in game[g].seats : user(d) = user(e) => d = e
        BY <1>3, <2>1, <4>1 DEF Seated
      <4>3. d \in Conns \ {c}
        BY <1>1, <2>1, <4>1, <4>2
      <4> QED
        BY <1>10, <4>1, <4>2, <4>3
    <3> QED
      BY <3>1, <3>2
  <2> QED
    BY <2>1 DEF Seated
<1>14. Waits' /\ ConnectionsAreServed'
  <2>1. waiting' \in {waiting, Nobody} \cup {c} /\ Slots(challenges') \subseteq Slots(challenges) \cup {c}
    BY <1>8 DEF Paired, Slots
  <2>2. ASSUME NEW d \in Conns \ all, d \in {c} \/ Place(d)
        PROVE  Place(d)'
    <3>1. CASE d \in seats
      <4>1. d \in game'[g0].seats
        BY <1>6, <3>1
      <4> QED
        BY <4>1 DEF Place
    <3>2. CASE d \notin seats /\ d = waiting
      BY <1>7, <2>2, <3>2 DEF Place, Paired
    <3>3. CASE d \notin seats /\ d \in Slots(challenges)
      <4>1. d \notin Slots(Involving(players))
        BY <1>7, <2>2, <3>3
      <4>2. d \in Slots(challenges')
        BY <1>8, <3>3, <4>1 DEF Slots
      <4> QED
        BY <4>2 DEF Place, Slots
    <3>4. CASE d \notin seats /\ \E g \in Games : d \in game[g].seats
      <4>1. PICK g \in Games : d \in game[g].seats
        BY <3>4
      <4>2. d \in game'[g].seats
        BY <1>6, <4>1
      <4> QED
        BY <4>2 DEF Place
    <3>5. c \in seats
      BY <1>1 DEF Paired
    <3> QED
      BY <2>2, <3>1, <3>2, <3>3, <3>4, <3>5 DEF Place
  <2>3. ASSUME NEW g \in Games, NEW d \in game'[g].seats, Running(g)', d \in Conns, conn[d] = "gone"
        PROVE  Running(g) /\ d \in game[g].seats /\ (<<g, user(d)>> \in absent => <<g, user(d)>> \in absent')
    <3>1. g # g0
      BY <1>1, <1>6, <2>3 DEF Paired
    <3> QED
      BY <1>6, <1>8, <2>3, <3>1 DEF Running
  <2> QED
    BY <1>3, <1>7, <1>9, <1>11, <2>1, <2>2, <2>3, SocketsServe
<1> QED
  BY <1>4, <1>11, <1>12, <1>13, <1>14 DEF Base

(* JoinQueue of the second, *)
QueuePaired(u) ==
  /\ waiting # Nobody /\ user(waiting) # u
  /\ waiting' = Nobody
  /\ ~Rematch => rooms[<<"room", user(waiting), u>>] = NoGame
  /\ StartRoom(<<"room", user(waiting), u>>, {waiting, NextConn(u)}, NextConn(u), {})
  /\ issued' = issued

(* The three doors start a game as Paired says: the queue,                 *)
LEMMA QueuePairs ==
  ASSUME Base, NEW u \in Users, CanOpen(u), QueuePaired(u)
  PROVE  Paired(u, <<"room", user(waiting), u>>, {waiting, NextConn(u)}, {})
<1> DEFINE name == <<"room", user(waiting), u>>
           seats == {waiting, NextConn(u)}
<1>1. NextConn(u) \in Conns /\ user(NextConn(u)) = u
  BY NextIsNew DEF Base
<1>2. waiting \in Conns /\ conn[waiting] \in {"open", "told"} /\ user(waiting) \in Users /\ user(waiting) # u
  BY NamesAndNobody DEF Base, TypeOK, Waits, QueuePaired
<1>3. name \in RoomNames /\ IsRoomName(name) /\ seats \in SUBSET Conns
  BY <1>1, <1>2, NamesAndNobody DEF IsRoomName
<1>4. \A v, w \in Users : name = <<"room", v, w>> => {user(d) : d \in seats} = {v, w}
  BY <1>1, <1>2
<1>5. \A k : name # <<"bot", k>> /\ name # <<"challenge", k>>
  BY NamesAndNobody
<1>6. \A d, e \in seats : user(d) = user(e) => d = e
  BY <1>1, <1>2
<1>7. \A d \in seats \ {NextConn(u)} : conn[d] \in {"open", "told", "unqueued"}
  BY <1>2
<1>8. StartRoom(name, seats, NextConn(u), {}) /\ issued' = issued /\ waiting' = Nobody /\ waiting \in seats
  BY DEF QueuePaired
<1> HIDE DEF name, seats
<1>9. NextConn(u) \in seats
  BY DEF seats
<1>10. Paired(u, name, seats, {})
  BY <1>3, <1>4, <1>5, <1>6, <1>7, <1>8, <1>9 DEF Paired
<1> QED
  BY <1>10 DEF name, seats

(* JoinChallenge of the second. *)
SlotPaired(u, ch) ==
  /\ ch.slot # Nobody /\ user(ch.slot) # u
  /\ u \in {ch.from, ch.to}
  /\ LeavesQueue(u)
  /\ StartRoom(<<"challenge", ch.id>>, {ch.slot, NextConn(u)}, NextConn(u), OwnWaiting(u))
  /\ issued' = issued

(* ... the challenge whose other player is in the slot,                    *)
LEMMA SlotPairs ==
  ASSUME Base, NEW u \in Users, CanOpen(u), NEW ch \in challenges, SlotPaired(u, ch)
  PROVE  Paired(u, <<"challenge", ch.id>>, {ch.slot, NextConn(u)}, OwnWaiting(u))
<1> DEFINE name == <<"challenge", ch.id>>
           seats == {ch.slot, NextConn(u)}
<1>1. NextConn(u) \in Conns /\ user(NextConn(u)) = u
  BY NextIsNew DEF Base
<1>2. ch \in Challenge /\ ch.id \in 1 .. MaxChallenges /\ ch.slot \in Conns
  BY DEF Base, TypeOK, Challenge, SlotPaired
<1>3. conn[ch.slot] \in {"open", "told", "unqueued"} /\ user(ch.slot) # u
  BY DEF Base, Waits, SlotPaired
<1>4. name \in RoomNames /\ seats \in SUBSET Conns
  BY <1>1, <1>2, NamesAndNobody
<1>5. \A v, w : name # <<"room", v, w>> /\ name # <<"bot", v>>
  BY NamesAndNobody
<1>6. rooms[name] = NoGame
  <2>1. ASSUME rooms[name] # NoGame
        PROVE  FALSE
    <3>1. rooms[name] \in Games /\ Live(rooms[name]) /\ game[rooms[name]].name = name
      BY <1>4, <2>1 DEF Base, TypeOK, Matches, Named
    <3> QED
      BY <1>2, <3>1 DEF Base, Matches, Unstarted
  <2> QED
    BY <2>1
<1>7. ASSUME NEW k \in 1 .. MaxChallenges, name = <<"challenge", k>>
      PROVE  k <= issued /\ \A ci \in challenges' : ci.id # k
  <2>1. k = ch.id
    BY <1>7, NamesAndNobody
  <2>2. ch \in Involving({user(d) : d \in seats})
    BY <1>1 DEF Involving, SlotPaired
  <2>3. challenges' = challenges \ Involving({user(d) : d \in seats})
    BY DEF SlotPaired, StartRoom, Closed
  <2> QED
    BY <2>1, <2>2, <2>3 DEF Base, Matches, Invited
<1>8. \A d, e \in seats : user(d) = user(e) => d = e
  BY <1>1, <1>3
<1>9. \A d \in seats \ {NextConn(u)} : conn[d] \in {"open", "told", "unqueued"}
  BY <1>3
<1>10. waiting' \in {waiting, Nobody} /\ (waiting' # waiting => waiting \in OwnWaiting(u))
  BY DEF SlotPaired, LeavesQueue, OwnWaiting
<1>11. StartRoom(name, seats, NextConn(u), OwnWaiting(u)) /\ issued' = issued /\ NextConn(u) \in seats
  BY DEF SlotPaired
<1> HIDE DEF name, seats
<1>12. Paired(u, name, seats, OwnWaiting(u))
  BY <1>4, <1>5, <1>6, <1>7, <1>8, <1>9, <1>10, <1>11 DEF Paired
<1> QED
  BY <1>12 DEF name, seats

(* ... and the bot.                                                        *)
LEMMA BotPairs ==
  ASSUME Base, NEW u \in Users, JoinBot(u)
  PROVE  Paired(u, <<"bot", FreshGame>>, {NextConn(u)}, OwnWaiting(u))
<1> DEFINE seats == {NextConn(u)}
<1>1. CanOpen(u) /\ HasFreshGame /\ LeavesQueue(u) /\ issued' = issued
  BY DEF JoinBot
<1>2. NextConn(u) \in Conns /\ user(NextConn(u)) = u
  BY <1>1, NextIsNew DEF Base
<1>3. PICK g0 \in Games : g0 = FreshGame /\ game[g0].stage = "unused"
  BY <1>1 DEF HasFreshGame, FreshGame
<1> DEFINE name == <<"bot", g0>>
<1>4. name \in RoomNames /\ seats \in SUBSET Conns
  BY <1>2, NamesAndNobody
<1>5. \A v, w : name # <<"room", v, w>> /\ name # <<"challenge", v>>
  BY NamesAndNobody
<1>6. rooms[name] = NoGame
  <2>1. ASSUME rooms[name] # NoGame
        PROVE  FALSE
    <3>1. rooms[name] \in Games /\ Live(rooms[name]) /\ game[rooms[name]].name = name
      BY <1>4, <2>1 DEF Base, TypeOK, Matches, Named
    <3> QED
      BY <1>3, <3>1 DEF Base, Matches, Unstarted
  <2> QED
    BY <2>1
<1>7. \A h : name = <<"bot", h>> => h = FreshGame
  BY <1>3, NamesAndNobody
<1>8. waiting' \in {waiting, Nobody} /\ (waiting' # waiting => waiting \in OwnWaiting(u))
  BY <1>1 DEF LeavesQueue, OwnWaiting
<1>9. StartRoom(name, seats, NextConn(u), OwnWaiting(u)) /\ NextConn(u) \in seats
  BY <1>3 DEF JoinBot
<1>10. \A d, e \in seats : d = e
  OBVIOUS
<1>11. seats \ {NextConn(u)} = {}
  OBVIOUS
<1> HIDE DEF name, seats
<1>12. Paired(u, name, seats, OwnWaiting(u))
  BY <1>1, <1>4, <1>5, <1>6, <1>7, <1>8, <1>9, <1>10, <1>11 DEF Paired
<1> QED
  BY <1>3, <1>12 DEF name, seats
-----------------------------------------------------------------------------
(* Challenges come and go: whoever loses a slot is told. *)
LEMMA ChallengesMove ==
  ASSUME Base, NEW told, Sockets({}, told), UNCHANGED <<waiting, rooms, userRooms, game, absent>>,
         challenges' \subseteq Challenge,
         \A ch1, ch2 \in challenges' : ch1.from = ch2.from => ch1 = ch2,
         issued' \in 0 .. MaxChallenges, issued <= issued',
         Invited', \A ch \in challenges' : ch.id > issued \/ \E ci \in challenges : ci.id = ch.id,
         Slots(challenges') \subseteq Slots(challenges),
         \A c \in Slots(challenges) \ Slots(challenges') : c \in told
  PROVE  Base'
<1>1. TypeOK /\ Waits /\ ConnectionsAreServed /\ Numbered /\ Matches /\ Seated
  BY DEF Base
<1>2. {} \in SUBSET Conns /\ \A d \in {} : conn[d] = "unopened"
  OBVIOUS
<1>3. /\ conn' \in [Conns -> {"unopened", "open", "told", "unqueued", "unslotted", "gone"}]
      /\ \A d \in Conns \ {} : conn[d] # "open" => conn'[d] = conn[d]
      /\ \A d \in Conns \ {} : conn[d] = "open" => conn'[d] \in {"open", "told"}
  BY <1>1, <1>2, SocketsAre
<1>4. TypeOK'
  BY <1>1, <1>3 DEF TypeOK
<1>5. Matches'
  <2>1. \A g \in Games : Players(g)' = Players(g) /\ (Live(g)' <=> Live(g))
    BY DEF Players, Live
  <2> QED
    BY <1>1, <1>4, <2>1, MatchesStay
<1>6. \A d \in Conns : conn'[d] = "unopened" <=> conn[d] = "unopened"
  BY <1>3
<1>7. Numbered'
  BY <1>1, <1>6, NumberedSame
<1>8. Seated'
  BY <1>1, <1>6 DEF Seated, TypeOK
<1>9. Waits' /\ ConnectionsAreServed'
  <2>1. waiting' \in {waiting, Nobody} \cup {} /\ Slots(challenges') \subseteq Slots(challenges) \cup {}
    OBVIOUS
  <2>2. ASSUME NEW d \in Conns \ told, d \in {} \/ Place(d)
        PROVE  Place(d)'
    <3>1. d \in Slots(challenges) => d \in Slots(challenges')
      BY <2>2
    <3> QED
      BY <2>2, <3>1 DEF Place, Slots
  <2>3. \A g \in Games : \A d \in game'[g].seats :
            Running(g)' /\ d \in Conns /\ conn[d] = "gone" =>
               Running(g) /\ d \in game[g].seats /\ (<<g, user(d)>> \in absent => <<g, user(d)>> \in absent')
    BY DEF Running
  <2> QED
    BY <1>1, <1>2, <1>4, <2>1, <2>2, <2>3, SocketsServe
<1> QED
  BY <1>4, <1>5, <1>7, <1>8, <1>9 DEF Base

(* Challenges are closed, for whatever reason. *)
LEMMA ClosedKeeps ==
  ASSUME Base, NEW S \in SUBSET challenges, Closed(S), Sockets({}, Slots(S)),
         UNCHANGED <<waiting, rooms, userRooms, game, absent, issued>>
  PROVE  Base'
<1>1. challenges' = challenges \ S
  BY DEF Closed
<1>2. challenges' \subseteq Challenge /\ \A ch1, ch2 \in challenges' : ch1.from = ch2.from => ch1 = ch2
  BY <1>1 DEF Base, TypeOK
<1>3. issued' \in 0 .. MaxChallenges /\ issued <= issued'
  BY LobbyAssumption DEF Base, TypeOK
<1>4. Invited'
  BY <1>1 DEF Base, Matches, Invited
<1>5. Slots(challenges') \subseteq Slots(challenges) /\ \A c \in Slots(challenges) \ Slots(challenges') : c \in Slots(S)
  BY <1>1 DEF Slots
<1>6. \A ch \in challenges' : ch.id > issued \/ \E ci \in challenges : ci.id = ch.id
  BY <1>1
<1> QED
  BY <1>2, <1>3, <1>4, <1>5, <1>6, ChallengesMove

(* A new challenge replaces that of the same challenger.                   *)
LEMMA CreateChallengeKeeps ==
  ASSUME Base, NEW from \in Users, NEW to \in Users, CreateChallenge(from, to)
  PROVE  Base'
<1>1. PICK cn : cn = [id |-> issued + 1, from |-> from, to |-> to, slot |-> Nobody]
  OBVIOUS
<1>2. PICK replaced \in SUBSET challenges : replaced = {ch \in challenges : ch.from = from}
  OBVIOUS
<1>3. /\ challenges' = (challenges \ replaced) \cup {cn} /\ Sockets({}, Slots(replaced))
      /\ issued' = issued + 1 /\ issued < MaxChallenges
      /\ UNCHANGED <<waiting, rooms, userRooms, game, absent>>
  BY <1>1, <1>2 DEF CreateChallenge
<1>4. cn.id = issued + 1 /\ cn.from = from /\ cn.to = to /\ cn.slot = Nobody
  BY <1>1
<1>5. issued \in Nat /\ issued' \in 0 .. MaxChallenges /\ issued <= issued'
  BY <1>3, LobbyAssumption DEF Base, TypeOK
<1>6. cn \in Challenge
  BY <1>1, <1>3, <1>5, LobbyAssumption DEF Challenge
<1>7. /\ challenges \subseteq Challenge /\ \A ch1, ch2 \in challenges : ch1.from = ch2.from => ch1 = ch2
      /\ \A ch1, ch2 \in challenges : ch1.id = ch2.id => ch1 = ch2
      /\ \A ch \in challenges : ch.id <= issued /\ ch.id \in Nat /\ (ch.slot # Nobody => user(ch.slot) \in {ch.from, ch.to})
  BY LobbyAssumption DEF Base, TypeOK, Matches, Invited, Challenge
<1>8. challenges' \subseteq Challenge /\ \A ch1, ch2 \in challenges' : ch1.from = ch2.from => ch1 = ch2
  BY <1>2, <1>3, <1>4, <1>6, <1>7
<1>9. Invited'
  <2>1. \A ch \in challenges' : ch.id <= issued' /\ (ch.slot # Nobody => user(ch.slot) \in {ch.from, ch.to})
    BY <1>3, <1>4, <1>5, <1>7
  <2>2. \A ch1, ch2 \in challenges' : ch1.id = ch2.id => ch1 = ch2
    BY <1>3, <1>4, <1>5, <1>7
  <2> QED
    BY <2>1, <2>2 DEF Invited
<1>10. Slots(challenges') \subseteq Slots(challenges) /\ \A c \in Slots(challenges) \ Slots(challenges') : c \in Slots(replaced)
  BY <1>3, <1>4 DEF Slots
<1>11. \A ch \in challenges' : ch.id > issued \/ \E ci \in challenges : ci.id = ch.id
  BY <1>3, <1>4, <1>5
<1> QED
  BY <1>3, <1>5, <1>8, <1>9, <1>10, <1>11, ChallengesMove
-----------------------------------------------------------------------------
(* The matches do not depend on the connections. *)
LEMMA MatchesSame ==
  ASSUME Matches, UNCHANGED <<challenges, issued, game, rooms, userRooms>>
  PROVE  Matches'
<1>1. Invited'
  BY DEF Matches, Invited
<1>2. Unstarted'
  BY DEF Matches, Unstarted, Live
<1>3. Named'
  BY DEF Matches, Named, Live, Players
<1>4. Indexed'
  BY DEF Matches, Indexed, Live, Players
<1> QED
  BY <1>1, <1>2, <1>3, <1>4 DEF Matches

(* The ReadPump of a connection that broke, step by step. *)
LEMMA LeaveQueueKeeps ==
  ASSUME Base, NEW c \in Conns, LeaveQueue(c)
  PROVE  Base'
<1>1. /\ conn[c] \in {"open", "told"} /\ conn' = [conn EXCEPT ![c] = "unqueued"]
      /\ waiting' = IF waiting = c THEN Nobody ELSE waiting
      /\ UNCHANGED <<challenges, rooms, userRooms, game, absent, issued>>
  BY DEF LeaveQueue
<1>2. TypeOK'
  BY <1>1 DEF Base, TypeOK
<1>3. conn'[c] = "unqueued" /\ \A d \in Conns \ {c} : conn'[d] = conn[d]
  BY <1>1 DEF Base, TypeOK
<1>4. Matches'
  BY <1>1, MatchesSame DEF Base
<1>5. Numbered'
  BY <1>1, <1>3, NumberedSame DEF Base
<1>6. Seated'
  BY <1>1, <1>3 DEF Base, Seated, TypeOK
<1>7. Waits'
  BY <1>1, <1>3 DEF Base, Waits, TypeOK, Challenge
<1>8. NoForgottenConnection'
  BY <1>1, <1>3 DEF Base, ConnectionsAreServed, NoForgottenConnection, Slots
<1>9. BrokenIsNoticed'
  BY <1>1, <1>3, NamesAndNobody DEF Base, ConnectionsAreServed, BrokenIsNoticed, Slots, Running
<1> QED
  BY <1>2, <1>4, <1>5, <1>6, <1>7, <1>8, <1>9 DEF Base, ConnectionsAreServed

(* A slot is emptied, or its challenge closed.                             *)
LEMMA LeaveChallengeKeeps ==
  ASSUME Base, NEW c \in Conns, LeaveChallenge(c)
  PROVE  Base' /\ \A ch \in challenges' : \E ci \in challenges : /\ ci.id = ch.id /\ ci.from = ch.from /\ ci.to = ch.to
                                                                /\ ch.slot \in {ci.slot, Nobody}
<1> DEFINE held == {ch \in challenges : ch.slot = c}
           emptied == {[ch EXCEPT !.slot = Nobody] : ch \in {h \in held : h.from # user(c)}}
<1>1. /\ conn[c] = "unqueued" /\ conn' = [conn EXCEPT ![c] = "unslotted"]
      /\ challenges' = (challenges \ held) \cup emptied
      /\ UNCHANGED <<waiting, rooms, userRooms, game, absent, issued>>
  BY DEF LeaveChallenge
<1>2. conn'[c] = "unslotted" /\ \A d \in Conns \ {c} : conn'[d] = conn[d]
  BY <1>1 DEF Base, TypeOK
<1>3. /\ challenges \subseteq Challenge /\ \A ch1, ch2 \in challenges : ch1.from = ch2.from => ch1 = ch2
      /\ \A ch1, ch2 \in challenges : ch1.id = ch2.id => ch1 = ch2
      /\ \A ch \in challenges : ch.id <= issued /\ (ch.slot # Nobody => user(ch.slot) \in {ch.from, ch.to})
  BY DEF Base, TypeOK, Matches, Invited
<1>4. ASSUME NEW ch \in challenges'
      PROVE  \E ci \in challenges : /\ ch \in Challenge /\ ci.id = ch.id /\ ci.from = ch.from /\ ci.to = ch.to
                                    /\ (ch = ci /\ ch.slot # c) \/ (ch.slot = Nobody /\ ci.slot = c /\ ch = [ci EXCEPT !.slot = Nobody])
  <2>1. CASE ch \in challenges \ held
    BY <2>1, <1>3
  <2>2. CASE ch \in emptied
    <3>1. PICK ci \in held : ch = [ci EXCEPT !.slot = Nobody]
      BY <2>2
    <3>2. ci \in Challenge /\ ci \in challenges /\ ci.slot = c
      BY <1>3
    <3>3. ch \in Challenge /\ ch.id = ci.id /\ ch.from = ci.from /\ ch.to = ci.to /\ ch.slot = Nobody
      BY <3>1, <3>2 DEF Challenge
    <3> QED
      BY <3>1, <3>2, <3>3
  <2> QED
    BY <1>1, <2>1, <2>2
<1>5. \A d \in Slots(challenges) : d # c => d \in Slots(challenges')
  BY <1>1 DEF Slots
<1>6. Slots(challenges') \subseteq Slots(challenges) \ {c}
  BY <1>4 DEF Slots
<1> HIDE DEF held, emptied
<1>7. \A ch1, ch2 \in challenges' : ch1.from = ch2.from \/ ch1.id = ch2.id => ch1 = ch2
  <2>1. ASSUME NEW ch1 \in challenges', NEW ch2 \in challenges', ch1.from = ch2.from \/ ch1.id = ch2.id
        PROVE  ch1 = ch2
    <3>1. PICK c1 \in challenges : /\ c1.id = ch1.id /\ c1.from = ch1.from
                                   /\ (ch1 = c1 /\ ch1.slot # c) \/ (c1.slot = c /\ ch1 = [c1 EXCEPT !.slot = Nobody])
      BY <1>4
    <3>2. PICK c2 \in challenges : /\ c2.id = ch2.id /\ c2.from = ch2.from
                                   /\ (ch2 = c2 /\ ch2.slot # c) \/ (c2.slot = c /\ ch2 = [c2 EXCEPT !.slot = Nobody])
      BY <1>4
    <3>3. c1 = c2
      BY <2>1, <3>1, <3>2, <1>3
    <3> QED
      BY <3>1, <3>2, <3>3
  <2> QED
    BY <2>1
<1>8. TypeOK'
  <2>1. challenges' \subseteq Challenge
    BY <1>4
  <2>2. conn' \in [Conns -> {"unopened", "open", "told", "unqueued", "unslotted", "gone"}]
    BY <1>1 DEF Base, TypeOK
  <2> QED
    BY <1>1, <1>7, <2>1, <2>2 DEF Base, TypeOK
<1>9. Invited'
  <2>1. \A ch \in challenges' : ch.id <= issued' /\ (ch.slot # Nobody => user(ch.slot) \in {ch.from, ch.to})
    BY <1>1, <1>3, <1>4
  <2> QED
    BY <1>7, <2>1 DEF Invited
<1>10. Matches'
  <2>1. \A g \in Games : Players(g)' = Players(g) /\ (Live(g)' <=> Live(g))
    BY <1>1 DEF Players, Live
  <2>2. issued <= issued'
    BY <1>1, LobbyAssumption DEF Base, TypeOK
  <2>3. \A ch \in challenges' : ch.id > issued \/ \E ci \in challenges : ci.id = ch.id
    BY <1>4
  <2> QED
    BY <1>1, <1>8, <1>9, <2>1, <2>2, <2>3, MatchesStay DEF Base
<1>11. Numbered'
  BY <1>1, <1>2, NumberedSame DEF Base
<1>12. Seated'
  BY <1>1, <1>2 DEF Base, Seated, TypeOK
<1>13. Waits'
  <2>1. ASSUME NEW ch \in challenges', ch.slot # Nobody
        PROVE  conn'[ch.slot] \in {"open", "told", "unqueued"}
    <3>1. PICK ci \in challenges : ch = ci /\ ch.slot # c /\ ch \in Challenge
      BY <1>4, <2>1
    <3>2. ch.slot \in Conns \ {c}
      BY <2>1, <3>1 DEF Challenge
    <3> QED
      BY <1>2, <2>1, <3>1, <3>2 DEF Base, Waits
  <2>2. waiting' # Nobody => conn'[waiting'] \in {"open", "told"}
    BY <1>1, <1>2 DEF Base, Waits, TypeOK
  <2> QED
    BY <2>1, <2>2 DEF Waits
<1>14. NoForgottenConnection'
  <2>1. ASSUME NEW d \in Conns, conn'[d] = "open"
        PROVE  d = waiting' \/ d \in Slots(challenges') \/ \E g \in Games : d \in game'[g].seats
    <3>1. d # c /\ conn[d] = "open"
      BY <1>2, <2>1
    <3> QED
      BY <1>1, <1>5, <3>1 DEF Base, ConnectionsAreServed, NoForgottenConnection
  <2> QED
    BY <2>1 DEF NoForgottenConnection, Slots
<1>15. BrokenIsNoticed'
  <2>1. ASSUME NEW d \in Conns, conn'[d] = "gone"
        PROVE  /\ d # waiting' /\ d \notin Slots(challenges')
               /\ \A g \in Games : Running(g) /\ d \in game[g].seats => <<g, user(d)>> \in absent'
    <3>1. d # c /\ conn[d] = "gone"
      BY <1>2, <2>1
    <3> QED
      BY <1>1, <1>6, <3>1 DEF Base, ConnectionsAreServed, BrokenIsNoticed
  <2> QED
    BY <1>1, <2>1 DEF BrokenIsNoticed, Slots, Running
<1> QED
  BY <1>4, <1>8, <1>10, <1>11, <1>12, <1>13, <1>14, <1>15 DEF Base, ConnectionsAreServed

(* The timer starts in the game where the connection has a seat.           *)
LEMMA LeaveKeeps ==
  ASSUME Base, NEW c \in Conns, Leave(c)
  PROVE  Base'
<1>1. /\ conn[c] = "unslotted" /\ conn' = [conn EXCEPT ![c] = "gone"]
      /\ absent' = absent \cup {<<g, user(c)>> : g \in {h \in Games : Running(h) /\ c \in game[h].seats}}
      /\ UNCHANGED <<waiting, challenges, rooms, userRooms, game, issued>>
  BY DEF Leave
<1>2. TypeOK'
  <2>1. absent' \subseteq Games \X Users
    BY <1>1, NamesAndNobody DEF Base, TypeOK
  <2> QED
    BY <1>1, <2>1 DEF Base, TypeOK
<1>3. conn'[c] = "gone" /\ \A d \in Conns \ {c} : conn'[d] = conn[d]
  BY <1>1 DEF Base, TypeOK
<1>4. Matches'
  BY <1>1, MatchesSame DEF Base
<1>5. Numbered'
  BY <1>1, <1>3, NumberedSame DEF Base
<1>6. Seated'
  BY <1>1, <1>3 DEF Base, Seated, TypeOK
<1>7. c # waiting /\ c \notin Slots(challenges)
  BY <1>1, NamesAndNobody DEF Base, Waits, Slots
<1>8. Waits'
  BY <1>1, <1>3 DEF Base, Waits, TypeOK, Challenge
<1>9. NoForgottenConnection'
  BY <1>1, <1>3 DEF Base, ConnectionsAreServed, NoForgottenConnection, Slots
<1>10. BrokenIsNoticed'
  <2>1. ASSUME NEW d \in Conns, conn'[d] = "gone"
        PROVE  /\ d # waiting /\ d \notin Slots(challenges)
               /\ \A g \in Games : Running(g) /\ d \in game[g].seats => <<g, user(d)>> \in absent'
    <3>1. CASE d = c
      BY <1>1, <1>7, <3>1
    <3>2. CASE d # c
      BY <1>1, <1>3, <2>1, <3>2 DEF Base, ConnectionsAreServed, BrokenIsNoticed
    <3> QED
      BY <3>1, <3>2
  <2> QED
    BY <1>1, <2>1 DEF BrokenIsNoticed, Slots, Running
<1> QED
  BY <1>2, <1>4, <1>5, <1>6, <1>8, <1>9, <1>10 DEF Base, ConnectionsAreServed
-----------------------------------------------------------------------------
(* The end of a game, with its timers; and its removal.                    *)
LEMMA EndGameKeeps ==
  ASSUME Base, NEW g \in Games, EndGame(g)
  PROVE  Base'
<1>1. /\ Running(g) /\ game' = [game EXCEPT ![g].stage = "ended"] /\ absent' = absent \ ({g} \X Users)
      /\ UNCHANGED <<waiting, challenges, rooms, userRooms, conn, issued>>
  BY DEF EndGame
<1>2. /\ game'[g].name = game[g].name /\ game'[g].seats = game[g].seats /\ game'[g].stage = "ended"
      /\ \A h \in Games \ {g} : game'[h] = game[h]
  BY <1>1 DEF Base, TypeOK
<1>3. TypeOK'
  BY <1>1 DEF Base, TypeOK
<1>4. Matches'
  <2>1. \A h \in Games : Players(h)' = Players(h) /\ (Live(h)' <=> Live(h))
    BY <1>1, <1>2 DEF Players, Live, Running
  <2>2. Invited'
    BY <1>1 DEF Base, Matches, Invited
  <2>3. issued <= issued'
    BY <1>1, LobbyAssumption DEF Base, TypeOK
  <2>4. \A h \in Games : /\ game'[h].name = game[h].name
                         /\ game[h].stage = "unused" => game'[h] = game[h]
                         /\ game'[h].stage = "unused" => game[h].stage = "unused"
    BY <1>1, <1>2 DEF Running
  <2> QED
    BY <1>1, <1>3, <2>1, <2>2, <2>3, <2>4, MatchesStay DEF Base
<1>5. Numbered'
  BY <1>1, NumberedSame DEF Base
<1>6. \A h \in Games : game'[h].seats = game[h].seats
  BY <1>2
<1>7. Seated'
  BY <1>1, <1>6 DEF Base, Seated
<1>8. Waits'
  BY <1>1 DEF Base, Waits
<1>9. NoForgottenConnection'
  BY <1>1, <1>6 DEF Base, ConnectionsAreServed, NoForgottenConnection, Slots
<1>10. BrokenIsNoticed'
  <2>1. \A h \in Games : Running(h)' => h # g /\ Running(h)
    BY <1>2 DEF Running
  <2>2. \A h \in Games, u \in Users : h # g /\ <<h, u>> \in absent => <<h, u>> \in absent'
    BY <1>1
  <2>3. ASSUME NEW d \in Conns, conn[d] = "gone"
        PROVE  /\ d # waiting /\ d \notin Slots(challenges)
               /\ \A h \in Games : Running(h)' /\ d \in game[h].seats => <<h, user(d)>> \in absent'
    BY <2>1, <2>2, <2>3, NamesAndNobody DEF Base, ConnectionsAreServed, BrokenIsNoticed
  <2> QED
    BY <1>1, <1>6, <2>3 DEF BrokenIsNoticed, Slots, Running
<1> QED
  BY <1>3, <1>4, <1>5, <1>7, <1>8, <1>9, <1>10 DEF Base, ConnectionsAreServed

(* A game that ended is removed under its name, if it is still there.      *)
LEMMA RemoveRoomKeeps ==
  ASSUME Base, NEW g \in Games, RemoveRoom(g)
  PROVE  Base'
<1>1. PICK name : name = game[g].name
  OBVIOUS
<1>2. /\ game[g].stage = "ended" /\ game' = [game EXCEPT ![g].stage = "removed", ![g].name = NoRoom]
      /\ rooms' = [rooms EXCEPT ![name] = NoGame]
      /\ userRooms' = [u \in Users |-> IF u \in Players(g) /\ userRooms[u] = name THEN NoRoom ELSE userRooms[u]]
      /\ UNCHANGED <<waiting, challenges, conn, absent, issued>>
  BY <1>1 DEF RemoveRoom
<1>3. /\ game'[g].name = NoRoom /\ game'[g].seats = game[g].seats /\ game'[g].stage = "removed"
      /\ \A h \in Games \ {g} : game'[h] = game[h]
  BY <1>2 DEF Base, TypeOK
<1>4. TypeOK /\ Matches
  BY DEF Base
<1>5. Live(g) /\ name \in RoomNames
  BY <1>1, <1>2, <1>4 DEF Live, Matches, Named
<1>6. /\ rooms'[name] = NoGame /\ \A n \in RoomNames \ {name} : rooms'[n] = rooms[n]
      /\ \A u \in Users : userRooms[u] # name => userRooms'[u] = userRooms[u]
      /\ \A u \in Users : userRooms[u] = name => userRooms'[u] = NoRoom
  <2>1. \A u \in Users : userRooms[u] = name => u \in Players(g)
    BY <1>1, <1>4, <1>5, NamesAndNobody DEF Matches, Indexed
  <2> QED
    BY <1>2, <1>4, <1>5, <2>1 DEF TypeOK
<1>7. TypeOK'
  <2>1. game' \in [Games -> [name : RoomNames \cup {NoRoom}, seats : SUBSET Conns,
                             stage : {"unused", "running", "ended", "removed"}]]
    <3> DEFINE R == [name : RoomNames \cup {NoRoom}, seats : SUBSET Conns,
                     stage : {"unused", "running", "ended", "removed"}]
    <3>1. game \in [Games -> R]
      BY <1>4 DEF TypeOK
    <3>2. [name |-> NoRoom, seats |-> game[g].seats, stage |-> "removed"] \in R
      BY <3>1
    <3>3. game'[g] = [name |-> NoRoom, seats |-> game[g].seats, stage |-> "removed"]
      BY <1>2, <3>1
    <3>4. \A h \in Games : game'[h] \in R
      BY <1>3, <3>1, <3>2, <3>3
    <3>5. game' = [h \in Games |-> game'[h]]
      BY <1>2, <3>1
    <3> HIDE DEF R
    <3>6. game' \in [Games -> R]
      BY <3>4, <3>5
    <3> QED
      BY <3>6 DEF R
  <2>2. rooms' \in [RoomNames -> Games \cup {NoGame}]
    BY <1>2, <1>4 DEF TypeOK
  <2>3. userRooms' \in [Users -> RoomNames \cup {NoRoom}]
    BY <1>2, <1>4 DEF TypeOK
  <2> QED
    BY <1>2, <1>4, <2>1, <2>2, <2>3 DEF TypeOK
<1>8. \A h \in Games : Players(h)' = Players(h) /\ (Live(h)' <=> Live(h) /\ h # g) /\ game'[h].seats = game[h].seats
  BY <1>3 DEF Players, Live
<1>9. Invited'
  BY <1>2, <1>4 DEF Matches, Invited
<1>10. Unstarted'
  <2>1. \A h \in Games : /\ game'[h].stage = "unused" => game'[h] = Unused
                         /\ game'[h].stage = "unused" <=> game[h].stage = "unused"
    BY <1>2, <1>3, <1>4 DEF Matches, Unstarted
  <2>2. \A h \in Games : Live(h)' => Live(h) /\ game'[h].name = game[h].name
    BY <1>3, <1>8
  <2>3. \A h, i \in Games : Live(h)' /\ game'[h].name = <<"bot", i>> => game'[i].stage # "unused"
    BY <1>4, <2>1, <2>2 DEF Matches, Unstarted
  <2>4. \A h \in Games : \A k \in 1 .. MaxChallenges :
           Live(h)' /\ game'[h].name = <<"challenge", k>> => k <= issued' /\ \A ch \in challenges' : ch.id # k
    BY <1>2, <1>4, <2>2 DEF Matches, Unstarted
  <2> QED
    BY <2>1, <2>3, <2>4 DEF Unstarted, Live
<1>11. Named'
  <2>1. ASSUME NEW n \in RoomNames, rooms'[n] # NoGame
        PROVE  game'[rooms'[n]].stage \in {"running", "ended"} /\ game'[rooms'[n]].name = n
    <3>1. n # name /\ rooms'[n] = rooms[n] /\ rooms[n] \in Games
      BY <1>4, <1>6, <2>1 DEF TypeOK
    <3>2. Live(rooms[n]) /\ game[rooms[n]].name = n /\ rooms[n] # g
      BY <1>1, <1>4, <2>1, <3>1 DEF Matches, Named
    <3> QED
      BY <1>3, <3>1, <3>2 DEF Live
  <2>2. ASSUME NEW h \in Games, Live(h)'
        PROVE  /\ game'[h].name \in RoomNames
               /\ \A u, v \in Users : game'[h].name = <<"room", u, v>> => Players(h)' = {u, v}
               /\ (\A u, v \in Users : game'[h].name # <<"room", u, v>>) => rooms'[game'[h].name] = h
    <3>1. Live(h) /\ h # g /\ game'[h] = game[h]
      BY <1>3, <1>8, <2>2
    <3>2. /\ game[h].name \in RoomNames
          /\ \A u, v \in Users : game[h].name = <<"room", u, v>> => Players(h) = {u, v}
          /\ (\A u, v \in Users : game[h].name # <<"room", u, v>>) => rooms[game[h].name] = h
      BY <1>4, <3>1 DEF Matches, Named
    <3>3. (\A u, v \in Users : game[h].name # <<"room", u, v>>) => game[h].name # name
      BY <1>1, <1>4, <1>5, <3>1, <3>2 DEF Matches, Named
    <3> QED
      BY <1>6, <1>8, <3>1, <3>2, <3>3
  <2> QED
    BY <2>1, <2>2 DEF Named, Live, Players
<1>12. Indexed'
  <2>1. ASSUME NEW u \in Users, userRooms'[u] # NoRoom
        PROVE  /\ rooms'[userRooms'[u]] # NoGame
               /\ \A h \in Games : Live(h)' /\ game'[h].name = userRooms'[u] => u \in Players(h)'
    <3>1. userRooms'[u] = userRooms[u] /\ userRooms[u] # name /\ userRooms[u] \in RoomNames
      BY <1>4, <1>6, <2>1 DEF TypeOK
    <3>2. /\ rooms[userRooms[u]] # NoGame
          /\ \A h \in Games : Live(h) /\ game[h].name = userRooms[u] => u \in Players(h)
      BY <1>4, <2>1, <3>1 DEF Matches, Indexed
    <3> QED
      BY <1>3, <1>6, <1>8, <3>1, <3>2
  <2> QED
    BY <2>1 DEF Indexed, Live, Players
<1>13. Numbered'
  BY <1>2, NumberedSame DEF Base
<1>14. Seated'
  BY <1>2, <1>8 DEF Base, Seated
<1>15. Waits'
  BY <1>2 DEF Base, Waits
<1>16. NoForgottenConnection'
  BY <1>2, <1>8 DEF Base, ConnectionsAreServed, NoForgottenConnection, Slots
<1>17. BrokenIsNoticed'
  <2>1. \A h \in Games : Running(h)' => Running(h)
    BY <1>3 DEF Running
  <2>2. ASSUME NEW d \in Conns, conn[d] = "gone"
        PROVE  /\ d # waiting /\ d \notin Slots(challenges)
               /\ \A h \in Games : Running(h)' /\ d \in game[h].seats => <<h, user(d)>> \in absent
    BY <2>1, <2>2 DEF Base, ConnectionsAreServed, BrokenIsNoticed
  <2> QED
    BY <1>2, <1>8, <2>2 DEF BrokenIsNoticed, Slots, Running
<1> QED
  BY <1>7, <1>9, <1>10, <1>11, <1>12, <1>13, <1>14, <1>15, <1>16, <1>17 DEF Base, Matches, ConnectionsAreServed
-----------------------------------------------------------------------------
(* The empty lobby.                                                        *)
LEMMA InitLobby ==
  ASSUME Init
  PROVE  Base
<1>1. TypeOK
  BY LobbyAssumption DEF Init, TypeOK, Unused
<1>2. Numbered
  <2>1. \A u \in Users : Opened(u) = {}
    BY DEF Init, Opened, Conns
  <2>2. 1 .. Cardinality({}) = {}
    BY FS_EmptySet
  <2> QED
    BY <2>1, <2>2 DEF Numbered
<1>3. Matches
  BY DEF Init, Matches, Invited, Unstarted, Named, Indexed, Live, Unused
<1>4. Seated /\ Waits
  BY DEF Init, Seated, Waits, Unused
<1>5. ConnectionsAreServed
  BY DEF Init, ConnectionsAreServed, NoForgottenConnection, BrokenIsNoticed, Running, Unused
<1> QED
  BY <1>1, <1>2, <1>3, <1>4, <1>5 DEF Base

(* Every step: of a user who connects, of the challenges, of a connection  *)
(* that ends, of a game that ends.                                         *)
LEMMA UserSteps ==
  ASSUME Base, NEW u \in Users,
         \/ Reconnect(u) \/ TurnedAway(u) \/ JoinQueue(u) \/ JoinBot(u)
         \/ \E ch \in challenges : JoinChallenge(u, ch)
  PROVE  Base'
<1>1. CASE Reconnect(u)
  BY <1>1, ReconnectKeeps
<1>2. CASE TurnedAway(u)
  BY <1>2, TurnedAwayKeeps
<1>3. CASE JoinQueue(u)
  <2>1. CanOpen(u) /\ ~inMatch(u)
    BY <1>3 DEF JoinQueue
  <2>2. Waiter(u) \/ QueuePaired(u)
    BY <1>3 DEF JoinQueue, Waiter, QueuePaired
  <2> QED
    BY <2>1, <2>2, WaiterKeeps, QueuePairs, PairedKeeps
<1>4. CASE JoinBot(u)
  <2>1. CanOpen(u)
    BY <1>4 DEF JoinBot
  <2> QED
    BY <1>4, <2>1, BotPairs, PairedKeeps
<1>5. ASSUME NEW ch \in challenges, JoinChallenge(u, ch)
      PROVE  Base'
  <2>1. CanOpen(u) /\ ~inMatch(u)
    BY <1>5 DEF JoinChallenge
  <2>2. InSlot(u, ch) \/ SlotPaired(u, ch)
    BY <1>5 DEF JoinChallenge, InSlot, SlotPaired
  <2> QED
    BY <2>1, <2>2, InSlotKeeps, SlotPairs, PairedKeeps
<1> QED
  BY <1>1, <1>2, <1>3, <1>4, <1>5

(* Challenges closed by whom they involve, by a block or by the timer; and *)
(* the other steps of the challenges over HTTP.                            *)
LEMMA ChallengeSteps ==
  ASSUME Base, \/ \E u, v \in Users : CreateChallenge(u, v) \/ CloseChallengesBetween(u, v)
               \/ \E u \in Users : CloseChallengesOf(u)
               \/ \E ch \in challenges : EndChallenge(ch)
  PROVE  Base'
<1>1. ASSUME NEW u \in Users, NEW v \in Users, CreateChallenge(u, v)
      PROVE  Base'
  BY <1>1, CreateChallengeKeeps
<1>2. ASSUME NEW u \in Users, NEW v \in Users, CloseChallengesBetween(u, v)
      PROVE  Base'
  <2>1. PICK S \in SUBSET challenges : S = {ch \in challenges : {ch.from, ch.to} = {u, v}}
    OBVIOUS
  <2> QED
    BY <1>2, <2>1, ClosedKeeps DEF CloseChallengesBetween
<1>3. ASSUME NEW u \in Users, CloseChallengesOf(u)
      PROVE  Base'
  <2>1. Involving({u}) \in SUBSET challenges
    BY DEF Involving
  <2> QED
    BY <1>3, <2>1, ClosedKeeps DEF CloseChallengesOf
<1>4. ASSUME NEW ch \in challenges, EndChallenge(ch)
      PROVE  Base'
  BY <1>4, ClosedKeeps DEF EndChallenge
<1> QED
  BY <1>1, <1>2, <1>3, <1>4

(* The steps of a connection, and of a game, that ends.                    *)
LEMMA EndingSteps ==
  ASSUME Base, \/ \E c \in Conns : LeaveQueue(c) \/ LeaveChallenge(c) \/ Leave(c)
               \/ \E g \in Games : EndGame(g) \/ RemoveRoom(g)
  PROVE  Base'
<1>1. ASSUME NEW c \in Conns, LeaveQueue(c) \/ LeaveChallenge(c) \/ Leave(c)
      PROVE  Base'
  BY <1>1, LeaveQueueKeeps, LeaveChallengeKeeps, LeaveKeeps
<1>2. ASSUME NEW g \in Games, EndGame(g) \/ RemoveRoom(g)
      PROVE  Base'
  BY <1>2, EndGameKeeps, RemoveRoomKeeps
<1> QED
  BY <1>1, <1>2

(* Every step, and stuttering.                                             *)
LEMMA NextLobby ==
  ASSUME Base, [Next]_vars
  PROVE  Base'
<1>1. CASE Next
  BY <1>1, UserSteps, ChallengeSteps, EndingSteps DEF Next
<1>2. CASE UNCHANGED vars
  <2>1. TypeOK'
    BY <1>2 DEF Base, TypeOK, vars
  <2>2. Numbered' /\ Seated' /\ Waits'
    BY <1>2 DEF Base, Numbered, Opened, Seated, Waits, vars
  <2>3. Matches'
    BY <1>2, MatchesSame DEF Base, vars
  <2>4. ConnectionsAreServed'
    BY <1>2 DEF Base, ConnectionsAreServed, NoForgottenConnection, BrokenIsNoticed, Slots, Running, vars
  <2> QED
    BY <2>1, <2>2, <2>3, <2>4 DEF Base
<1> QED
  BY <1>1, <1>2

(* The inductive invariant.                                                *)
LEMMA LobbyInv == Spec => []Base
BY InitLobby, NextLobby, PTL DEF Spec

(* No open connection is forgotten by the queue, the slots and the seats,  *)
(* and a broken one is noticed and served no more, however users connect   *)
(* at two doors at once and whatever name a room takes again (Manager).    *)
THEOREM ConnectionsServed == Spec => []ConnectionsAreServed
<1>1. Base => ConnectionsAreServed
  BY DEF Base
<1> QED
  BY <1>1, LobbyInv, PTL

(* The types of the lobby, with one open challenge for each challenger.    *)
THEOREM TypeCorrect == Spec => []TypeOK
<1>1. Base => TypeOK
  BY DEF Base
<1> QED
  BY <1>1, LobbyInv, PTL

(* A user who comes back is never led into a game of others: where index   *)
(* and map lead, the user has a seat (tryReconnectLocked trusts it:        *)
(* Reconnect seats nobody else and tells nobody).  So it is with two doors *)
(* and names taken again, where the game may be a later one of the user.   *)
LedToOwnGame ==
  \A u \in Users : userRooms[u] # NoRoom => \E g \in Games : g = rooms[userRooms[u]] /\ Live(g) /\ u \in Players(g)
THEOREM NobodyIsLedAstray == Spec => []LedToOwnGame
<1>1. ASSUME Base, NEW u \in Users, userRooms[u] # NoRoom
      PROVE  \E g \in Games : g = rooms[userRooms[u]] /\ Live(g) /\ u \in Players(g)
  <2>1. userRooms[u] \in RoomNames /\ rooms[userRooms[u]] # NoGame
    BY <1>1 DEF Base, TypeOK, Matches, Indexed
  <2>2. rooms[userRooms[u]] \in Games
    BY <1>1, <2>1 DEF Base, TypeOK
  <2> DEFINE g == rooms[userRooms[u]]
  <2>3. Live(g) /\ game[g].name = userRooms[u]
    BY <1>1, <2>1, <2>2 DEF Base, Matches, Named
  <2> QED
    BY <1>1, <2>2, <2>3 DEF Base, Matches, Indexed
<1>2. Base => LedToOwnGame
  BY <1>1 DEF LedToOwnGame
<1> QED
  BY <1>2, LobbyInv, PTL
=============================================================================

---------------------------- MODULE Gateway_proofs ----------------------------
(***************************************************************************)
(* Proofs about module Gateway, for any users, connections and number of   *)
(* matches, where a user waits at one door at a time (~OtherDoors).        *)
(*                                                                         *)
(* The invariant is in two halves, the matches and the connections.  The   *)
(* second is an operator of the connections, of who waits and of the open  *)
(* challenge, so that the steps inside a handler (a connection is opened,  *)
(* another is closed, a match begins) are lemmas one after the other.      *)
(***************************************************************************)
EXTENDS Gateway, TLAPS

(* Users, numbers and nobody: what the names of matches are made of. *)
Ids == Users \cup {Nobody} \cup Nat
Names == {"none", "room", "challenge", "bot"} \X Ids \X Ids
Connections == [user : Users \cup {Nobody}, socket : {"unused", "open", "closing"}, room : 0 .. Over]
Invitations == [from : Users \cup {Nobody}, to : Users \cup {Nobody}, slot : Conns \cup {None}]
Matches ==
  [status : {"unused", "active"}, name : Names, user : [Sides -> Users \cup {Nobody}],
   seat : [Sides -> Conns \cup {None, BotSeat}], absent : SUBSET (Users \cup {Nobody}),
   offer : SUBSET (Users \cup {Nobody}), turn : Sides]
Plays(r, u) == u # Nobody /\ (r.user["white"] = u \/ r.user["black"] = u)

(* The matches in course, their names and the index of the users agree.   *)
(* Only a match in course has a number under its name, and the index has  *)
(* no name that the map of rooms does not have: a new name is nobody's.   *)
RoomsTyped ==
  /\ room \in [RoomIds -> Matches]
  /\ NoName \notin DOMAIN rooms /\ rooms \in [DOMAIN rooms -> RoomIds \cup {0}]
  /\ userRooms \in [Users -> Names]
InCourse ==
  \A i \in RoomIds :
    /\ room[i].status = "unused" => room[i] = NotStarted
    /\ room[i].status = "active" =>
         /\ room[i].user["white"] # room[i].user["black"]
         /\ room[i].name \in DOMAIN rooms /\ rooms[room[i].name] = i
         /\ \A u \in Users : Plays(room[i], u) => userRooms[u] = room[i].name
         /\ \A s \in Sides : /\ room[i].seat[s] \in Conns => room[i].user[s] \in Users
                             /\ room[i].seat[s] = BotSeat => room[i].user[s] = Nobody
Named == \A n \in DOMAIN rooms : rooms[n] # 0 => room[rooms[n]].status = "active" /\ room[rooms[n]].name = n
Indexed ==
  \A u \in Users : userRooms[u] # NoName =>
    userRooms[u] \in DOMAIN rooms /\ (rooms[userRooms[u]] # 0 => Plays(room[rooms[userRooms[u]]], u))
Ends == \A n \in ended : n \in DOMAIN rooms /\ rooms[n] = 0
RoomsOk == RoomsTyped /\ InCourse /\ Named /\ Indexed /\ Ends

(* The connections cs, of which w waits in the queue and ch is the open    *)
(* challenge.  Of those in X it is not asked that somebody knows of them:  *)
(* a handler opens a connection before it gives it its place.              *)
ConnsTyped(cs, w, ch) == cs \in [Conns -> Connections] /\ w \in Conns \cup {None} /\ ch \in Invitations
OfUsers(cs) ==
  \A c \in Conns :
    /\ cs[c].socket = "unused" => cs[c].room = 0
    /\ cs[c].socket # "unused" => cs[c].user \in Users
    /\ cs[c].room \in RoomIds => room[cs[c].room].status = "active" /\ Plays(room[cs[c].room], cs[c].user)
Known(cs, w, ch, X) ==
  \A c \in Conns \ X : cs[c].socket = "open" =>
    \/ c = w \/ c = ch.slot
    \/ cs[c].room # 0 /\ (cs[c].room \in RoomIds => \E s \in Sides : room[cs[c].room].seat[s] = c)
(* Who waits, in the queue or in the slot, is in no match, and nobody      *)
(* waits in both.                                                          *)
InNoMatch(u) == \A i \in RoomIds : room[i].status = "active" => ~Plays(room[i], u)
Wait(cs, c) == cs[c].socket = "open" /\ cs[c].room = 0 /\ InNoMatch(cs[c].user)
Waits(cs, w, ch) ==
  /\ w # None => Wait(cs, w)
  /\ ch.slot # None => Wait(cs, ch.slot) /\ cs[ch.slot].user \in {ch.from, ch.to}
  /\ w # None /\ ch.slot # None => cs[w].user # cs[ch.slot].user
(* The seats: an open connection of its player, or one that is gone.       *)
AtSeat(cs, i, s) ==
  LET c == room[i].seat[s] IN
  \/ cs[c].socket = "open" /\ cs[c].room = i /\ cs[c].user = room[i].user[s] /\ room[i].user[s] \notin room[i].absent
  \/ cs[c].socket = "unused" /\ room[i].user[s] \in room[i].absent
Seated(cs) ==
  \A i \in RoomIds : room[i].status = "active" => \A s \in Sides : room[i].seat[s] \in Conns => AtSeat(cs, i, s)
ConnsOk(cs, w, ch, X) == ConnsTyped(cs, w, ch) /\ OfUsers(cs) /\ Known(cs, w, ch, X) /\ Waits(cs, w, ch) /\ Seated(cs)

IInv == RoomsOk /\ ConnsOk(conn, waiting, challenge, {})
-----------------------------------------------------------------------------
(* Where the matches stay as they are, so does what is said of them. *)
LEMMA SameRooms ==
  ASSUME room' = room, ConnsOk(conn', waiting', challenge', {})
  PROVE  ConnsOk(conn, waiting, challenge, {})'
BY DEF ConnsOk, ConnsTyped, OfUsers, Known, Wait, InNoMatch, Waits, AtSeat, Seated, Plays, Connections, Invitations, RoomIds, Over

(* A user who is not led back to a match is in none, and the index may     *)
(* forget what it has of them.                                             *)
LEMMA NotBack ==
  ASSUME RoomsOk, NEW u \in Users, ~CanReturn(u)
  PROVE  InNoMatch(u)
<1>1. ASSUME NEW i \in RoomIds, room[i].status = "active", Plays(room[i], u)
      PROVE  FALSE
  <2>1. userRooms[u] = room[i].name /\ room[i].name \in DOMAIN rooms /\ rooms[room[i].name] = i
    BY <1>1 DEF RoomsOk, InCourse
  <2>2. room[i].name # NoName
    BY <2>1 DEF RoomsOk, RoomsTyped
  <2> QED
    BY <1>1, <2>1, <2>2 DEF CanReturn, inMatch, RoomNamed, Running
<1> QED
  BY <1>1 DEF InNoMatch

(* The index forgets a user who is not led back: matches, names and index  *)
(* still agree.                                                            *)
LEMMA IndexForgets ==
  ASSUME RoomsOk, NEW u \in Users, ~CanReturn(u), userRooms' = Forgotten(u), UNCHANGED <<room, rooms, ended>>
  PROVE  RoomsOk'
<1>1. InNoMatch(u)
  BY NotBack
<1>2. NoName \in Names
  BY DEF NoName, Names, Ids
<1>3. userRooms' \in [Users -> Names] /\ userRooms'[u] = NoName /\ \A v \in Users \ {u} : userRooms'[v] = userRooms[v]
  BY <1>2 DEF RoomsOk, RoomsTyped, Forgotten
<1>4. RoomsTyped'
  BY <1>3 DEF RoomsOk, RoomsTyped, Matches, Names, Ids, RoomIds
<1>5. InCourse'
  BY <1>1, <1>3 DEF RoomsOk, InCourse, InNoMatch, Plays, NotStarted, NoName
<1>6. Named' /\ Ends'
  BY DEF RoomsOk, Named, Ends
<1>7. Indexed'
  BY <1>3 DEF RoomsOk, Indexed, Plays, NoName
<1> QED
  BY <1>4, <1>5, <1>6, <1>7 DEF RoomsOk
-----------------------------------------------------------------------------
(* A socket that is being closed keeps its user and its match. *)
LEMMA ClosingIs ==
  ASSUME NEW cs \in [Conns -> Connections], NEW S
  PROVE  LET ds == Closing(cs, S)
         IN  /\ ds \in [Conns -> Connections]
             /\ \A c \in Conns : /\ ds[c].user = cs[c].user /\ ds[c].room = cs[c].room
                                 /\ ds[c].socket = IF c \in S /\ cs[c].socket = "open" THEN "closing" ELSE cs[c].socket
BY DEF Closing, Connections

(* Connections without a match are closed, and wait no longer: the one in  *)
(* the queue, the one in the slot, or one that was never let in.           *)
LEMMA WaitersClosed ==
  ASSUME NEW cs, NEW w, NEW ch, NEW X, ConnsOk(cs, w, ch, X), NEW S, NEW v \in {w, None}, NEW ci \in Invitations,
         \A c \in S \cap Conns : cs[c].socket = "open" => cs[c].room = 0,
         v = w \/ w \in S, v # None => v \notin S,
         ci.slot = ch.slot \/ (ci.slot = None /\ ch.slot \in S \cup {None}),
         ci.slot # None => ci.slot \notin S /\ ci.from = ch.from /\ ci.to = ch.to
  PROVE  ConnsOk(Closing(cs, S), v, ci, X \ S)
<1> DEFINE ds == Closing(cs, S)
<1>1. /\ cs \in [Conns -> Connections] /\ w \in Conns \cup {None} /\ ch \in Invitations
      /\ OfUsers(cs) /\ Known(cs, w, ch, X) /\ Waits(cs, w, ch) /\ Seated(cs)
  BY DEF ConnsOk, ConnsTyped
<1>2. /\ ds \in [Conns -> Connections]
      /\ \A c \in Conns : /\ ds[c].user = cs[c].user /\ ds[c].room = cs[c].room
                          /\ ds[c].socket = IF c \in S /\ cs[c].socket = "open" THEN "closing" ELSE cs[c].socket
  BY <1>1, ClosingIs
<1> HIDE DEF ds
<1>3. ConnsTyped(ds, v, ci)
  BY <1>1, <1>2 DEF ConnsTyped
<1>4. OfUsers(ds)
  BY <1>1, <1>2 DEF OfUsers
<1>5. Known(ds, v, ci, X \ S)
  <2> SUFFICES ASSUME NEW c \in Conns \ (X \ S), ds[c].socket = "open"
               PROVE  \/ c = v \/ c = ci.slot
                      \/ ds[c].room # 0 /\ (ds[c].room \in RoomIds => \E s \in Sides : room[ds[c].room].seat[s] = c)
    BY DEF Known
  <2>1. c \notin S /\ c \notin X /\ cs[c].socket = "open" /\ ds[c].room = cs[c].room
    BY <1>2
  <2> QED
    BY <1>1, <2>1, GatewayAssumption DEF Known
<1>6. Waits(ds, v, ci)
  BY <1>1, <1>2 DEF Waits, Wait, Invitations
<1>7. Seated(ds)
  <2> SUFFICES ASSUME NEW i \in RoomIds, room[i].status = "active", NEW s \in Sides, room[i].seat[s] \in Conns
               PROVE  AtSeat(ds, i, s)
    BY DEF Seated
  <2>1. AtSeat(cs, i, s) /\ i # 0
    BY <1>1 DEF Seated, RoomIds
  <2> QED
    BY <1>2, <2>1 DEF AtSeat
<1> QED
  BY <1>3, <1>4, <1>5, <1>6, <1>7 DEF ConnsOk, ds

(* A connection is opened at a place that was free. *)
LEMMA ConnectionOpened ==
  ASSUME IInv, NEW u \in Users, NEW c \in Conns, Free(c)
  PROVE  /\ ConnsOk(Opened(u, c), waiting, challenge, {c})
         /\ Opened(u, c)[c] = [user |-> u, socket |-> "open", room |-> 0]
         /\ \A d \in Conns \ {c} : Opened(u, c)[d] = conn[d]
         /\ c # waiting /\ c # challenge.slot
<1> DEFINE cs == Opened(u, c)
<1>1. /\ conn \in [Conns -> Connections] /\ waiting \in Conns \cup {None} /\ challenge \in Invitations
      /\ OfUsers(conn) /\ Known(conn, waiting, challenge, {}) /\ Waits(conn, waiting, challenge) /\ Seated(conn)
  BY DEF IInv, ConnsOk, ConnsTyped
<1>2. [user |-> u, socket |-> "open", room |-> 0] \in Connections
  BY GatewayAssumption DEF Connections, Over
<1>3. /\ cs \in [Conns -> Connections] /\ cs[c] = [user |-> u, socket |-> "open", room |-> 0]
      /\ \A d \in Conns \ {c} : cs[d] = conn[d]
  BY <1>1, <1>2 DEF Opened, Fresh
<1>4. c # waiting /\ c # challenge.slot /\ \A i \in RoomIds : \A s \in Sides : room[i].seat[s] # c
  BY <1>1, GatewayAssumption DEF Free, Waits, Wait
<1> HIDE DEF cs
<1>5. OfUsers(cs)
  BY <1>1, <1>3 DEF OfUsers, RoomIds
<1>6. Known(cs, waiting, challenge, {c})
  BY <1>1, <1>3 DEF Known
<1>7. Waits(cs, waiting, challenge)
  BY <1>1, <1>3, <1>4 DEF Waits, Wait, Invitations
<1>8. Seated(cs)
  BY <1>1, <1>3, <1>4 DEF Seated, AtSeat
<1> QED
  BY <1>1, <1>3, <1>4, <1>5, <1>6, <1>7, <1>8 DEF ConnsOk, ConnsTyped, cs

(* It is put in the queue, or in the slot of a challenge of its user.      *)
LEMMA InTheQueue ==
  ASSUME NEW cs, NEW ch, NEW c \in Conns, ConnsOk(cs, None, ch, {c}), Wait(cs, c),
         ch.slot # None => cs[ch.slot].user # cs[c].user
  PROVE  ConnsOk(cs, c, ch, {})
BY GatewayAssumption DEF ConnsOk, ConnsTyped, Known, Waits

(* It takes the slot of an open challenge of its user, which was empty.    *)
LEMMA InTheSlot ==
  ASSUME NEW cs, NEW w, NEW ch, NEW c \in Conns, ConnsOk(cs, w, ch, {c}), Wait(cs, c), ch.slot = None,
         cs[c].user \in {ch.from, ch.to}, w # None => cs[w].user # cs[c].user
  PROVE  ConnsOk(cs, w, [ch EXCEPT !.slot = c], {})
<1> DEFINE ci == [ch EXCEPT !.slot = c]
<1>1. ci \in Invitations /\ ci.slot = c /\ ci.from = ch.from /\ ci.to = ch.to
  BY DEF ConnsOk, ConnsTyped, Invitations
<1> HIDE DEF ci
<1>2. ConnsOk(cs, w, ci, {})
  BY <1>1, GatewayAssumption DEF ConnsOk, ConnsTyped, Known, Waits
<1> QED
  BY <1>2 DEF ci
-----------------------------------------------------------------------------
(* newRoom, for two players who are in no match: the one who waited in the *)
(* queue waits no longer, and nobody is left in a challenge of theirs.     *)
Ready(cs, users, seats) ==
  /\ users \in [Sides -> Users \cup {Nobody}] /\ seats \in [Sides -> Conns \cup {BotSeat}]
  /\ users["white"] # users["black"]
  /\ \A s \in Sides :
       IF users[s] = Nobody THEN seats[s] = BotSeat
       ELSE seats[s] \in Conns /\ Wait(cs, seats[s]) /\ cs[seats[s]].user = users[s]
NameIsNew(name) == name \in Names \ {NoName} /\ name \notin DOMAIN rooms

(* newRoom: the new match is in course under its name and in the index of  *)
(* its players, and no other match changes.                                *)
LEMMA RoomsOfTheNew ==
  ASSUME RoomsOk, NEW cs, NEW users, NEW seats, Ready(cs, users, seats), NEW name, NameIsNew(name),
         CanStart, StartRoom(cs, name, users, seats), ended' = ended
  PROVE  /\ RoomsOk'
         /\ \A u : InNoMatch(u) /\ (\A s \in Sides : users[s] # u) => InNoMatch(u)'
         /\ NextRoom \in RoomIds /\ room[NextRoom].status = "unused"
         /\ room'[NextRoom] = [NotStarted EXCEPT !.status = "active", !.name = name, !.user = users, !.seat = seats]
         /\ \A j \in RoomIds \ {NextRoom} : room'[j] = room[j]
<1> DEFINE i == NextRoom
           r == [NotStarted EXCEPT !.status = "active", !.name = name, !.user = users, !.seat = seats]
<1>1. i \in RoomIds /\ room[i].status = "unused"
  BY DEF CanStart, NextRoom, Unused
<1> HIDE DEF i
<1>2. /\ r \in Matches /\ r.status = "active" /\ r.name = name /\ r.user = users /\ r.seat = seats /\ r.absent = {}
      /\ r.offer = {}
  BY DEF Ready, NameIsNew, Matches, NotStarted, Sides
<1>3. /\ room' = [room EXCEPT ![i] = r]
      /\ rooms' = [n \in DOMAIN rooms \cup {name} |-> IF n = name THEN i ELSE rooms[n]]
      /\ userRooms' = [u \in Users |-> IF \E s \in Sides : users[s] = u THEN name ELSE userRooms[u]]
  BY DEF StartRoom, i
<1> HIDE DEF r
<1>4. /\ RoomsTyped /\ InCourse /\ Named /\ Indexed /\ Ends
      /\ users["white"] # users["black"]
      /\ \A s \in Sides : users[s] \in Users => InNoMatch(users[s])
      /\ \A s \in Sides : (seats[s] \in Conns => users[s] \in Users) /\ (seats[s] = BotSeat => users[s] = Nobody)
      /\ name \in Names /\ name # NoName /\ name \notin DOMAIN rooms
  BY GatewayAssumption DEF RoomsOk, Ready, Wait, NameIsNew
<1>5. /\ room' \in [RoomIds -> Matches] /\ room'[i] = r /\ \A j \in RoomIds \ {i} : room'[j] = room[j]
  BY <1>1, <1>2, <1>3, <1>4 DEF RoomsTyped
<1>6. /\ DOMAIN rooms' = DOMAIN rooms \cup {name} /\ rooms'[name] = i
      /\ \A n \in DOMAIN rooms : rooms'[n] = rooms[n]
  BY <1>3, <1>4
<1>7. \A u \in Users : userRooms'[u] = IF \E s \in Sides : users[s] = u THEN name ELSE userRooms[u]
  BY <1>3
<1>8. \A u : Plays(r, u) <=> u # Nobody /\ \E s \in Sides : users[s] = u
  BY <1>2 DEF Plays, Sides
<1>9. RoomsTyped'
  <2>1. rooms' \in [DOMAIN rooms' -> RoomIds \cup {0}]
    BY <1>1, <1>3, <1>4 DEF RoomsTyped
  <2>2. NoName \notin DOMAIN rooms'
    BY <1>4, <1>6 DEF RoomsTyped
  <2>3. userRooms' \in [Users -> Names]
    BY <1>3, <1>4 DEF RoomsTyped
  <2> QED
    BY <1>5, <2>1, <2>2, <2>3 DEF RoomsTyped, Matches, Names, Ids, RoomIds, NoName, Sides
<1>10. InCourse'
  <2> SUFFICES ASSUME NEW j \in RoomIds
               PROVE  /\ room'[j].status = "unused" => room'[j] = NotStarted
                      /\ room'[j].status = "active" =>
                           /\ room'[j].user["white"] # room'[j].user["black"]
                           /\ room'[j].name \in DOMAIN rooms' /\ rooms'[room'[j].name] = j
                           /\ \A u \in Users : Plays(room'[j], u) => userRooms'[u] = room'[j].name
                           /\ \A s \in Sides : /\ room'[j].seat[s] \in Conns => room'[j].user[s] \in Users
                                               /\ room'[j].seat[s] = BotSeat => room'[j].user[s] = Nobody
    BY DEF InCourse, RoomIds, Plays, NotStarted, NoName, Sides
  <2>1. CASE j = i
    BY <1>1, <1>2, <1>4, <1>5, <1>6, <1>7, <1>8, <2>1 DEF Sides
  <2>2. CASE j # i
    <3>1. room'[j] = room[j]
      BY <1>5, <2>2
    <3>2. \A u \in Users : Plays(room[j], u) /\ room[j].status = "active" => userRooms'[u] = userRooms[u]
      BY <1>4, <1>7 DEF InNoMatch
    <3> QED
      BY <1>4, <1>6, <3>1, <3>2 DEF InCourse
  <2> QED
    BY <2>1, <2>2
<1>11. Named'
  <2> SUFFICES ASSUME NEW n \in DOMAIN rooms', rooms'[n] # 0
               PROVE  room'[rooms'[n]].status = "active" /\ room'[rooms'[n]].name = n
    BY DEF Named
  <2>1. CASE n = name
    BY <1>2, <1>5, <1>6, <2>1
  <2>2. CASE n # name
    <3>1. n \in DOMAIN rooms /\ rooms'[n] = rooms[n] /\ rooms[n] \in RoomIds
      BY <1>4, <1>6, <2>2 DEF RoomsTyped
    <3>2. rooms[n] # i
      BY <1>1, <1>4, <3>1 DEF Named
    <3> QED
      BY <1>4, <1>5, <3>1, <3>2 DEF Named
  <2> QED
    BY <2>1, <2>2
<1>12. Indexed'
  <2> SUFFICES ASSUME NEW u \in Users, userRooms'[u] # NoName
               PROVE  /\ userRooms'[u] \in DOMAIN rooms'
                      /\ rooms'[userRooms'[u]] # 0 => Plays(room'[rooms'[userRooms'[u]]], u)
    BY DEF Indexed, Plays, NoName
  <2>1. CASE \E s \in Sides : users[s] = u
    BY <1>5, <1>6, <1>7, <1>8, <2>1, GatewayAssumption
  <2>2. CASE ~\E s \in Sides : users[s] = u
    <3> DEFINE n == userRooms[u]
    <3>1. userRooms'[u] = n /\ n \in DOMAIN rooms /\ rooms'[n] = rooms[n] /\ rooms[n] \in RoomIds \cup {0}
      BY <1>4, <1>6, <1>7, <2>2 DEF Indexed, RoomsTyped
    <3> HIDE DEF n
    <3>2. rooms[n] # 0 => Plays(room[rooms[n]], u) /\ rooms[n] # i
      BY <1>1, <1>4, <3>1 DEF Indexed, Named, n
    <3> QED
      BY <1>5, <1>6, <3>1, <3>2
  <2> QED
    BY <2>1, <2>2
<1>13. Ends'
  BY <1>4, <1>6 DEF Ends
<1>14. \A u : InNoMatch(u) /\ (\A s \in Sides : users[s] # u) => InNoMatch(u)'
  BY <1>5, <1>8 DEF InNoMatch, Plays, RoomIds
<1> QED
  BY <1>1, <1>5, <1>9, <1>10, <1>11, <1>12, <1>13, <1>14 DEF RoomsOk, i, r
(* The same for the whole invariant: the two players take their seats, and *)
(* whoever is left in a challenge of theirs is closed.                     *)
LEMMA MatchStarts ==
  ASSUME RoomsOk, NEW cs, NEW w, NEW X, ConnsOk(cs, w, challenge, X),
         NEW users, NEW seats, Ready(cs, users, seats), NEW name, NameIsNew(name),
         CanStart, StartRoom(cs, name, users, seats), ended' = ended,
         X \subseteq {seats[s] : s \in Sides}, waiting' \in {w, None},
         w # None => IF waiting' = w THEN \A s \in Sides : cs[w].user # users[s] ELSE \E s \in Sides : seats[s] = w
  PROVE  IInv'
<1> DEFINE i == NextRoom
           r == room'[i]
           ds == conn'
           ci == challenge'
           seated(c) == \E s \in Sides : seats[s] = c
           involved == Involves({users[s] : s \in Sides})
           closed == involved /\ ~seated(challenge.slot)
           alone(u) == \A j \in RoomIds : room'[j].status = "active" => ~Plays(room'[j], u)
<1>1. /\ RoomsOk' /\ i \in RoomIds /\ room[i].status = "unused"
      /\ r = [NotStarted EXCEPT !.status = "active", !.name = name, !.user = users, !.seat = seats]
      /\ \A j \in RoomIds \ {i} : room'[j] = room[j]
      /\ \A u : InNoMatch(u) /\ (\A s \in Sides : users[s] # u) => InNoMatch(u)'
  <2> HIDE DEF involved, closed, seated, alone, ds, ci
  <2>1. /\ RoomsOk'
        /\ \A u : InNoMatch(u) /\ (\A s \in Sides : users[s] # u) => InNoMatch(u)'
        /\ NextRoom \in RoomIds /\ room[NextRoom].status = "unused"
        /\ room'[NextRoom] = [NotStarted EXCEPT !.status = "active", !.name = name, !.user = users, !.seat = seats]
        /\ \A j \in RoomIds \ {NextRoom} : room'[j] = room[j]
    BY RoomsOfTheNew
  <2> QED
    BY <2>1
<1>2. r.status = "active" /\ r.user = users /\ r.seat = seats /\ r.absent = {}
  BY <1>1 DEF NotStarted
<1>3. /\ cs \in [Conns -> Connections] /\ w \in Conns \cup {None} /\ challenge \in Invitations
      /\ OfUsers(cs) /\ Known(cs, w, challenge, X) /\ Waits(cs, w, challenge) /\ Seated(cs)
  BY DEF ConnsOk, ConnsTyped
<1>4. /\ users["white"] # users["black"]
      /\ \A s \in Sides : IF users[s] = Nobody THEN seats[s] = BotSeat
                          ELSE seats[s] \in Conns /\ Wait(cs, seats[s]) /\ cs[seats[s]].user = users[s]
      /\ \A s \in Sides : users[s] \in Users \cup {Nobody}
  BY DEF Ready
<1>5. /\ conn' = IF closed THEN Closing([c \in Conns |-> IF seated(c) THEN [cs[c] EXCEPT !.room = i] ELSE cs[c]], Slot)
                 ELSE [c \in Conns |-> IF seated(c) THEN [cs[c] EXCEPT !.room = i] ELSE cs[c]]
      /\ challenge' = IF involved THEN NoChallenge ELSE challenge
  <2>1. challenge.slot \notin {seats[s] : s \in Sides} <=> ~seated(challenge.slot)
    OBVIOUS
  <2> QED
    BY <2>1 DEF StartRoom, i
<1>6. i # 0 /\ i \in 0 .. Over
  BY <1>1, GatewayAssumption DEF RoomIds, Over
<1> HIDE DEF i, r
<1>7. /\ ds \in [Conns -> Connections]
      /\ \A c \in Conns : /\ ds[c].user = cs[c].user /\ ds[c].room = IF seated(c) THEN i ELSE cs[c].room
                          /\ ds[c].socket = IF closed /\ c = challenge.slot /\ c # None /\ cs[c].socket = "open" THEN "closing" ELSE cs[c].socket
  <2> DEFINE es == [c \in Conns |-> IF seated(c) THEN [cs[c] EXCEPT !.room = i] ELSE cs[c]]
  <2>1. /\ es \in [Conns -> Connections]
        /\ \A c \in Conns : /\ es[c].user = cs[c].user /\ es[c].room = (IF seated(c) THEN i ELSE cs[c].room)
                            /\ es[c].socket = cs[c].socket
    BY <1>3, <1>6 DEF Connections
  <2>2. conn' = IF closed THEN Closing(es, Slot) ELSE es
    BY <1>5
  <2>3. \A c \in Conns : c \in Slot <=> c = challenge.slot /\ c # None
    BY GatewayAssumption DEF Slot
  <2> HIDE DEF es, closed, seated
  <2>4. CASE closed
    <3> DEFINE fs == Closing(es, Slot)
    <3>1. /\ fs \in [Conns -> Connections]
          /\ \A c \in Conns : /\ fs[c].user = es[c].user /\ fs[c].room = es[c].room
                              /\ fs[c].socket = IF c \in Slot /\ es[c].socket = "open" THEN "closing" ELSE es[c].socket
      BY <2>1, ClosingIs
    <3> HIDE DEF fs
    <3> QED
      BY <2>1, <2>2, <2>3, <2>4, <3>1 DEF fs
  <2>5. CASE ~closed
    BY <2>1, <2>2, <2>5
  <2> QED
    BY <2>4, <2>5
<1>8. involved <=> \E s \in Sides : challenge.from = users[s] \/ challenge.to = users[s]
  BY DEF Involves
<1>9. \A c \in Conns : seated(c) => cs[c].socket = "open" /\ cs[c].room = 0 /\ cs[c].user \in Users
                                     /\ (\E s \in Sides : seats[s] = c /\ cs[c].user = users[s])
                                     /\ (\A s \in Sides : seats[s] = c => cs[c].user = users[s])
  BY <1>4, GatewayAssumption DEF Wait
<1>10. /\ challenge.slot # None => Wait(cs, challenge.slot) /\ cs[challenge.slot].user \in {challenge.from, challenge.to}
       /\ w # None => Wait(cs, w)
       /\ w # None /\ challenge.slot # None => cs[w].user # cs[challenge.slot].user
       /\ challenge.slot \in Conns \cup {None}
  BY <1>3 DEF Waits, Invitations
<1>11. ci \in Invitations /\ (ci = challenge \/ (ci.slot = None /\ involved))
  BY <1>3, <1>5 DEF NoChallenge, Invitations
<1>12. involved => ci.slot = None
  BY <1>5 DEF NoChallenge
<1>0. closed <=> involved /\ ~seated(challenge.slot)
  OBVIOUS
<1> HIDE DEF ds, ci, involved, closed, seated
<1>28. \A c \in Conns : /\ seated(c) => ds[c].user = cs[c].user /\ ds[c].room = i /\ ds[c].socket = cs[c].socket
                        /\ ~seated(c) => ds[c].room = cs[c].room
                        /\ ~seated(c) /\ ~(c = challenge.slot /\ c # None) => ds[c].socket = cs[c].socket
  BY <1>0, <1>7
<1>29. \A u : InNoMatch(u) /\ (\A s \in Sides : users[s] # u) => alone(u)
  BY <1>1 DEF InNoMatch, Plays, RoomIds
<1> HIDE DEF alone
<1>13. ConnsTyped(ds, waiting', ci)
  BY <1>3, <1>7, <1>11 DEF ConnsTyped
<1>14. \A c \in Conns : cs[c].room \in RoomIds => cs[c].room # i /\ room'[cs[c].room] = room[cs[c].room]
  BY <1>1, <1>3 DEF OfUsers
<1>15. \A c \in Conns : /\ ds[c].socket = "unused" => ds[c].room = 0
                        /\ ds[c].socket # "unused" => ds[c].user \in Users
                        /\ ds[c].room \in RoomIds => room'[ds[c].room].status = "active" /\ Plays(room'[ds[c].room], ds[c].user)
  <2> SUFFICES ASSUME NEW c \in Conns
               PROVE  /\ ds[c].socket = "unused" => ds[c].room = 0
                      /\ ds[c].socket # "unused" => ds[c].user \in Users
                      /\ ds[c].room \in RoomIds => room'[ds[c].room].status = "active" /\ Plays(room'[ds[c].room], ds[c].user)
    OBVIOUS
  <2>1. CASE seated(c)
    <3>1. \E s \in Sides : cs[c].user = users[s]
      BY <1>9, <2>1
    <3>2. ds[c].socket # "unused" /\ ds[c].user \in Users /\ ds[c].room = i /\ ds[c].user = cs[c].user
      BY <1>9, <1>28, <2>1
    <3>3. Plays(r, ds[c].user)
      BY <1>2, <3>1, <3>2, GatewayAssumption DEF Plays, Sides
    <3> QED
      BY <1>2, <3>2, <3>3 DEF r
  <2>2. CASE ~seated(c)
    <3>1. ds[c].room = cs[c].room /\ ds[c].user = cs[c].user /\ (ds[c].socket = "unused" <=> cs[c].socket = "unused")
      BY <1>7, <2>2
    <3> QED
      BY <1>3, <1>14, <3>1 DEF OfUsers
  <2> QED
    BY <2>1, <2>2
<1>16. \A c \in Conns : ds[c].socket = "open" =>
         \/ c = waiting' \/ c = ci.slot
         \/ ds[c].room # 0 /\ (ds[c].room \in RoomIds => \E s \in Sides : room'[ds[c].room].seat[s] = c)
  <2> SUFFICES ASSUME NEW c \in Conns, ds[c].socket = "open", c # waiting', c # ci.slot
               PROVE  ds[c].room # 0 /\ (ds[c].room \in RoomIds => \E s \in Sides : room'[ds[c].room].seat[s] = c)
    OBVIOUS
  <2>1. CASE seated(c)
    BY <1>2, <1>6, <1>28, <2>1 DEF r, seated
  <2>2. CASE ~seated(c)
    <3>1. ds[c].room = cs[c].room /\ cs[c].socket = "open" /\ c \notin X
      BY <1>7, <2>2 DEF seated
    <3>2. c # w
      BY <2>2 DEF seated
    <3>3. c # challenge.slot
      <4>1. CASE involved
        BY <1>0, <1>7, <2>2, <4>1, GatewayAssumption
      <4>2. CASE ~involved
        BY <1>11, <4>2
      <4> QED
        BY <4>1, <4>2
    <3>4. cs[c].room # 0 /\ (cs[c].room \in RoomIds => \E s \in Sides : room[cs[c].room].seat[s] = c)
      BY <1>3, <3>1, <3>2, <3>3 DEF Known
    <3> QED
      BY <1>14, <3>1, <3>4
  <2> QED
    BY <2>1, <2>2
<1>17. \A c \in Conns : Wait(cs, c) /\ (\A s \in Sides : cs[c].user # users[s]) => ~seated(c) /\ ds[c].room = 0 /\ alone(cs[c].user)
  BY <1>9, <1>28, <1>29 DEF Wait
<1>18. waiting' # None => /\ waiting' = w /\ w \in Conns /\ Wait(cs, w) /\ w # challenge.slot
                          /\ \A s \in Sides : cs[w].user # users[s]
  BY <1>3, <1>10, GatewayAssumption
<1>19. waiting' # None => ds[w].socket = "open" /\ ds[w].room = 0 /\ ds[w].user = cs[w].user /\ alone(ds[w].user)
  BY <1>7, <1>17, <1>18, <1>28 DEF Wait
<1>20. ci.slot # None => /\ ~involved /\ ci = challenge /\ challenge.slot \in Conns /\ Wait(cs, challenge.slot)
                         /\ \A s \in Sides : cs[challenge.slot].user # users[s]
  BY <1>8, <1>10, <1>11, <1>12
<1>30. ci.slot # None => /\ ds[ci.slot].socket = "open" /\ ds[ci.slot].room = 0 /\ ds[ci.slot].user = cs[ci.slot].user
                         /\ alone(ds[ci.slot].user)
  BY <1>0, <1>7, <1>17, <1>20 DEF Wait
<1>21. /\ waiting' # None => ds[waiting'].socket = "open" /\ ds[waiting'].room = 0 /\ alone(ds[waiting'].user)
       /\ ci.slot # None => /\ ds[ci.slot].socket = "open" /\ ds[ci.slot].room = 0 /\ alone(ds[ci.slot].user)
                            /\ ds[ci.slot].user \in {ci.from, ci.to}
       /\ waiting' # None /\ ci.slot # None => ds[waiting'].user # ds[ci.slot].user
  BY <1>10, <1>18, <1>19, <1>20, <1>30
<1>22. \A j \in RoomIds : room'[j].status = "active" => \A s \in Sides : room'[j].seat[s] \in Conns =>
         LET c == room'[j].seat[s] IN
         \/ ds[c].socket = "open" /\ ds[c].room = j /\ ds[c].user = room'[j].user[s] /\ room'[j].user[s] \notin room'[j].absent
         \/ ds[c].socket = "unused" /\ room'[j].user[s] \in room'[j].absent
  <2> SUFFICES ASSUME NEW j \in RoomIds, room'[j].status = "active", NEW s \in Sides, NEW c \in Conns, c = room'[j].seat[s]
               PROVE  \/ /\ ds[c].socket = "open" /\ ds[c].room = j /\ ds[c].user = room'[j].user[s]
                         /\ room'[j].user[s] \notin room'[j].absent
                      \/ ds[c].socket = "unused" /\ room'[j].user[s] \in room'[j].absent
    OBVIOUS
  <2>1. CASE j = i
    <3>1. c = seats[s] /\ seated(c)
      BY <1>2, <2>1 DEF r, seated
    <3>2. ds[c].socket = "open" /\ ds[c].room = i /\ ds[c].user = users[s]
      BY <1>9, <1>28, <3>1
    <3> QED
      BY <1>2, <2>1, <3>2 DEF r
  <2>2. CASE j # i
    <3>1. room'[j] = room[j] /\ AtSeat(cs, j, s) /\ j # 0
      BY <1>1, <1>3, <2>2 DEF Seated, RoomIds
    <3>2. ~seated(c) /\ ~(c = challenge.slot /\ c # None)
      BY <1>9, <1>10, <3>1 DEF AtSeat, Wait
    <3>3. ds[c].room = cs[c].room /\ ds[c].user = cs[c].user /\ ds[c].socket = cs[c].socket
      BY <1>7, <1>28, <3>2
    <3> QED
      BY <3>1, <3>3 DEF AtSeat
  <2> QED
    BY <2>1, <2>2
<1>23. ConnsTyped(conn, waiting, challenge)'
  BY <1>13 DEF ConnsTyped, Connections, Invitations, Over, ds, ci
<1>24. OfUsers(conn)'
  BY <1>15 DEF OfUsers, Plays, RoomIds, ds
<1>25. Known(conn, waiting, challenge, {})'
  BY <1>16 DEF Known, RoomIds, ds, ci
<1>26. Waits(conn, waiting, challenge)'
  BY <1>21 DEF Waits, Wait, InNoMatch, alone, Plays, RoomIds, ds, ci
<1>27. Seated(conn)'
  BY <1>22 DEF Seated, AtSeat, RoomIds, ds
<1> QED
  BY <1>1, <1>23, <1>24, <1>25, <1>26, <1>27 DEF IInv, ConnsOk
-----------------------------------------------------------------------------
(* opaqueId: a name that no match has. *)
LEMMA NewNamesAreNew ==
  ASSUME NEW u \in Users, NEW kind \in {"bot", "challenge"}, NewNames(kind, u) # {}
  PROVE  NameIsNew(NewName(kind, u))
<1>1. NewName(kind, u) \in NewNames(kind, u)
  BY DEF NewName
<1>2. \A name \in NewNames(kind, u) : name \notin DOMAIN rooms /\ \E n \in 1 .. MaxRooms + 1 : name = <<kind, n, u>>
  BY DEF NewNames
<1>3. \A n \in 1 .. MaxRooms + 1 : <<kind, n, u>> \in Names /\ <<kind, n, u>> # NoName
  BY GatewayAssumption DEF Names, Ids, NoName
<1> QED
  BY <1>1, <1>2, <1>3 DEF NameIsNew
-----------------------------------------------------------------------------
(* The doors, for a user who is in no match. *)
(* The connection is open, and those of the user that waited in the queue  *)
(* are closed.                                                             *)
LEMMA LeftTheQueue ==
  ASSUME IInv, NEW u \in Users, NEW c \in Conns, Free(c), ~CanReturn(u)
  PROVE  LET cs == Closing(Opened(u, c), OwnWaiting(u))
             w == IF OwnWaiting(u) = {} THEN waiting ELSE None
         IN  /\ ConnsOk(cs, w, challenge, {c}) /\ Wait(cs, c) /\ cs[c].user = u
             /\ w # None => cs[w].user # u /\ w # c /\ w = waiting
             /\ OwnWaiting(u) = IF w = waiting THEN {} ELSE {waiting}
             /\ \A d \in Conns \ {c} : cs[d].user = conn[d].user
             /\ c # challenge.slot /\ c # waiting
<1> DEFINE os == Opened(u, c)
           S == OwnWaiting(u)
           w == IF S = {} THEN waiting ELSE None
           cs == Closing(os, S)
<1>1. /\ ConnsOk(os, waiting, challenge, {c}) /\ os[c] = [user |-> u, socket |-> "open", room |-> 0]
      /\ \A d \in Conns \ {c} : os[d] = conn[d]
      /\ c # waiting /\ c # challenge.slot
  BY ConnectionOpened
<1>2. S = IF waiting # None /\ conn[waiting].user = u THEN {waiting} ELSE {}
  BY DEF OwnWaiting
<1>3. waiting \in Conns \cup {None} /\ challenge \in Invitations
  BY DEF IInv, ConnsOk, ConnsTyped
<1> HIDE DEF os, S
<1>4. /\ os \in [Conns -> Connections] /\ (waiting # None => Wait(os, waiting))
      /\ challenge.slot # None => Wait(os, challenge.slot)
      /\ waiting # None /\ challenge.slot # None => os[waiting].user # os[challenge.slot].user
  BY <1>1 DEF ConnsOk, ConnsTyped, Waits
<1>5. challenge.slot # None => challenge.slot \notin S
  BY <1>2, <1>4
<1>6. ConnsOk(cs, w, challenge, {c} \ S)
  BY <1>1, <1>2, <1>3, <1>4, <1>5, WaitersClosed DEF Wait
<1>7. {c} \ S = {c}
  BY <1>1, <1>2
<1>8. \A d \in Conns : cs[d].user = os[d].user /\ cs[d].room = os[d].room
                        /\ (d \notin S => cs[d].socket = os[d].socket)
  BY <1>4, ClosingIs
<1>9. InNoMatch(u)
  BY NotBack DEF IInv
<1> HIDE DEF cs
<1>10. Wait(cs, c) /\ cs[c].user = u
  BY <1>1, <1>2, <1>8, <1>9 DEF Wait
<1>11. w # None => cs[w].user # u /\ w # c /\ w = waiting
  BY <1>1, <1>2, <1>3, <1>8
<1>12. \A d \in Conns \ {c} : cs[d].user = conn[d].user
  BY <1>1, <1>8
<1>13. S = IF w = waiting THEN {} ELSE {waiting}
  BY <1>2, <1>3
<1> QED
  BY <1>1, <1>6, <1>7, <1>10, <1>11, <1>12, <1>13 DEF cs, S, os

(* Into the queue, or against the one who waits there. *)
LEMMA QueueJoined ==
  ASSUME IInv, ~OtherDoors, NEW u \in Users, NEW c \in Conns, Free(c), joinQueue(u, c), ended' = ended
  PROVE  IInv'
<1> DEFINE S == OwnWaiting(u)
           os == Opened(u, c)
           cs == Closing(os, S)
           w == IF S = {} THEN waiting ELSE None
<1>1. ~CanReturn(u) /\ (Doors(u) \/ waiting \in S)
  BY DEF joinQueue
<1>2. /\ ConnsOk(cs, w, challenge, {c}) /\ Wait(cs, c) /\ cs[c].user = u
      /\ w # None => cs[w].user # u /\ w # c /\ w = waiting
      /\ S = IF w = waiting THEN {} ELSE {waiting}
      /\ \A d \in Conns \ {c} : cs[d].user = conn[d].user
      /\ c # challenge.slot /\ c # waiting
  BY <1>1, LeftTheQueue
<1>3. /\ waiting \in Conns \cup {None} /\ challenge \in Invitations /\ Waits(conn, waiting, challenge) /\ RoomsOk
      /\ conn \in [Conns -> Connections]
  BY DEF IInv, ConnsOk, ConnsTyped
<1>4. waiting \in S \/ waiting = None => w = None
  BY <1>2
<1>5. challenge.slot # None => conn[challenge.slot].user # u
  BY <1>1, <1>3, GatewayAssumption DEF Doors, Slot, OwnWaiting, Waits, Invitations
<1>6. CASE waiting = None \/ waiting \in S
  <2>1. waiting' = c /\ conn' = cs /\ userRooms' = Forgotten(u) /\ challenge' = challenge /\ room' = room /\ rooms' = rooms
    BY <1>6 DEF joinQueue
  <2> HIDE DEF cs, os, S, w
  <2>2. challenge.slot # None => cs[challenge.slot].user # cs[c].user
    BY <1>2, <1>3, <1>5 DEF Invitations
  <2>3. ConnsOk(cs, c, challenge, {})
    BY <1>2, <1>4, <1>6, <2>2, InTheQueue
  <2>4. ConnsOk(conn', waiting', challenge', {})
    BY <2>1, <2>3
  <2> QED
    BY <1>1, <1>3, <2>1, <2>4, SameRooms, IndexForgets DEF IInv
<1>7. CASE ~(waiting = None \/ waiting \in S)
  <2> DEFINE name == <<"room", conn[waiting].user, u>>
             users == Pair(conn[waiting].user, u)
             seats == Pair(waiting, c)
  <2>1. CanStart /\ name \notin DOMAIN rooms /\ waiting' = None /\ StartRoom(os, name, users, seats)
    BY <1>7 DEF joinQueue
  <2>2. waiting \in Conns /\ S = {} /\ w = waiting
    BY <1>2, <1>3, <1>7
  <2>3. cs = os
    <3>1. os \in [Conns -> Connections]
      BY <1>1, ConnectionOpened DEF ConnsOk, ConnsTyped
    <3>2. Closing(os, {}) = os
      <4> HIDE DEF os
      <4> QED
        BY <3>1 DEF Closing
    <3> QED
      BY <2>2, <3>2
  <2> HIDE DEF cs, os, S, w
  <2>4. Wait(os, waiting) /\ os[waiting].user = conn[waiting].user /\ conn[waiting].user \in Users /\ conn[waiting].user # u
    <3>1. Waits(os, waiting, challenge) /\ OfUsers(os) /\ waiting # None
      BY <1>2, <2>2, <2>3, GatewayAssumption DEF ConnsOk
    <3> QED
      BY <1>2, <2>2, <2>3, <3>1 DEF Waits, Wait, OfUsers
  <2>5. Ready(os, users, seats)
    BY <1>2, <2>2, <2>3, <2>4, GatewayAssumption DEF Ready, Pair, Sides
  <2>6. NameIsNew(name)
    <3>1. name \in Names
      BY <2>4 DEF Names, Ids
    <3>2. name # NoName
      BY DEF NoName
    <3> QED
      BY <2>1, <3>1, <3>2 DEF NameIsNew
  <2>7. {c} \subseteq {seats[s] : s \in Sides} /\ \E s \in Sides : seats[s] = waiting
    BY DEF Pair, Sides
  <2>8. ConnsOk(os, waiting, challenge, {c}) /\ waiting' # waiting
    BY <1>2, <2>1, <2>2, <2>3, GatewayAssumption
  <2> HIDE DEF users, seats, name
  <2> QED
    BY <1>3, <2>1, <2>5, <2>6, <2>7, <2>8, MatchStarts
<1> QED
  BY <1>6, <1>7

(* Against a bot. *)
LEMMA BotJoined ==
  ASSUME IInv, NEW u \in Users, NEW c \in Conns, Free(c), joinBot(u, c), ended' = ended
  PROVE  IInv'
<1> DEFINE S == OwnWaiting(u)
           cs == Closing(Opened(u, c), S)
           w == IF S = {} THEN waiting ELSE None
           name == NewName("bot", u)
           users == Pair(u, Nobody)
           seats == Pair(c, BotSeat)
<1>1. /\ ~CanReturn(u) /\ CanStart /\ NewNames("bot", u) # {} /\ waiting' = w
      /\ StartRoom(cs, name, users, seats)
  BY DEF joinBot, LeavesQueue
<1>2. /\ ConnsOk(cs, w, challenge, {c}) /\ Wait(cs, c) /\ cs[c].user = u
      /\ w # None => cs[w].user # u /\ w # c /\ w = waiting
  BY <1>1, LeftTheQueue
<1>3. NameIsNew(name)
  BY <1>1, NewNamesAreNew
<1> HIDE DEF cs, w, S
<1>4. Ready(cs, users, seats)
  BY <1>2, GatewayAssumption DEF Ready, Pair, Sides
<1>5. {c} \subseteq {seats[s] : s \in Sides}
  BY DEF Pair, Sides
<1>6. w # None => \A s \in Sides : cs[w].user # users[s]
  <2>1. w # None => cs[w].user \in Users
    BY <1>2, GatewayAssumption DEF ConnsOk, ConnsTyped, OfUsers, Waits, Wait
  <2> QED
    BY <1>2, <2>1, GatewayAssumption DEF Pair
<1> HIDE DEF users, seats, name
<1> QED
  BY <1>1, <1>2, <1>3, <1>4, <1>5, <1>6, MatchStarts DEF IInv
(* Into the slot of a challenge, or against the one who waits there. *)
LEMMA ChallengeJoined ==
  ASSUME IInv, NEW u \in Users, NEW c \in Conns, Free(c), joinChallenge(u, c), ended' = ended
  PROVE  IInv'
<1> DEFINE S == OwnWaiting(u)
           cs == Closing(Opened(u, c), S)
           w == IF S = {} THEN waiting ELSE None
<1>1. ~CanReturn(u) /\ Involves({u}) /\ waiting' = w
  BY DEF joinChallenge, LeavesQueue
<1>2. /\ ConnsOk(cs, w, challenge, {c}) /\ Wait(cs, c) /\ cs[c].user = u
      /\ w # None => cs[w].user # u /\ w # c /\ w = waiting
      /\ \A d \in Conns \ {c} : cs[d].user = conn[d].user
      /\ c # challenge.slot
  BY <1>1, LeftTheQueue
<1>3. /\ challenge \in Invitations /\ RoomsOk
      /\ u \in {challenge.from, challenge.to}
  BY <1>1 DEF IInv, ConnsOk, ConnsTyped, Involves
<1>4. cs \in [Conns -> Connections] /\ w \in Conns \cup {None} /\ Waits(cs, w, challenge) /\ OfUsers(cs)
  BY <1>2 DEF ConnsOk, ConnsTyped
<1>5. CASE challenge.slot = None \/ conn[challenge.slot].user = u
  <2> DEFINE ds == Closing(cs, Slot)
             ci == [challenge EXCEPT !.slot = None]
  <2>1. conn' = ds /\ challenge' = [challenge EXCEPT !.slot = c] /\ userRooms' = Forgotten(u) /\ room' = room /\ rooms' = rooms
    BY <1>5 DEF joinChallenge
  <2>2. Slot = IF challenge.slot = None THEN {} ELSE {challenge.slot}
    BY DEF Slot
  <2>3. ci \in Invitations /\ ci.slot = None /\ ci.from = challenge.from /\ ci.to = challenge.to
    BY <1>3 DEF Invitations
  <2>4. challenge' = [ci EXCEPT !.slot = c]
    BY <1>3, <2>1 DEF Invitations
  <2> HIDE DEF cs, S, w, ci
  <2>5. w # None => w \notin Slot
    BY <1>4, <2>2 DEF Waits
  <2>6. \A d \in Slot \cap Conns : cs[d].socket = "open" => cs[d].room = 0
    BY <1>4, <2>2 DEF Waits, Wait
  <2>7. ConnsOk(ds, w, ci, {c} \ Slot)
    BY <1>2, <2>2, <2>3, <2>5, <2>6, WaitersClosed
  <2>8. {c} \ Slot = {c}
    BY <1>2, <2>2
  <2>9. \A d \in Conns : ds[d].user = cs[d].user /\ ds[d].room = cs[d].room /\ (d \notin Slot => ds[d].socket = cs[d].socket)
    BY <1>4, ClosingIs
  <2> HIDE DEF ds
  <2>10. Wait(ds, c) /\ ds[c].user = u
    BY <1>2, <2>2, <2>9 DEF Wait
  <2>11. w # None => ds[w].user # ds[c].user
    BY <1>2, <1>4, <2>9, <2>10
  <2>12. ConnsOk(ds, w, [ci EXCEPT !.slot = c], {})
    BY <1>3, <2>3, <2>7, <2>8, <2>10, <2>11, InTheSlot
  <2>13. ConnsOk(conn', waiting', challenge', {})
    BY <1>1, <2>1, <2>4, <2>12 DEF ds
  <2> QED
    BY <1>1, <1>3, <2>1, <2>13, SameRooms, IndexForgets DEF IInv
<1>6. CASE ~(challenge.slot = None \/ conn[challenge.slot].user = u)
  <2> DEFINE other == challenge.slot
             name == NewName("challenge", u)
             user(d) == IF d = c THEN u ELSE conn[d].user
  <2>1. /\ CanStart /\ NewNames("challenge", u) # {}
        /\ \E first \in Sides :
             LET a == IF first = "white" THEN other ELSE c
                 b == IF first = "white" THEN c ELSE other
             IN  StartRoom(cs, name, Pair(user(a), user(b)), Pair(a, b))
    BY <1>6 DEF joinChallenge
  <2>2. NameIsNew(name)
    BY <2>1, NewNamesAreNew
  <2> HIDE DEF cs, S, w, name
  <2>3. /\ other \in Conns /\ other # c /\ Wait(cs, other) /\ cs[other].user = conn[other].user
        /\ cs[other].user \in Users /\ cs[other].user # u
    BY <1>2, <1>3, <1>4, <1>6 DEF Waits, Wait, OfUsers, Invitations
  <2>4. user(c) = u /\ user(other) = cs[other].user
    BY <2>3
  <2>5. PICK a \in {c, other}, b \in {c, other} : a # b /\ StartRoom(cs, name, Pair(user(a), user(b)), Pair(a, b))
    BY <2>1, <2>3 DEF Sides
  <2> DEFINE users == Pair(user(a), user(b))
             seats == Pair(a, b)
  <2>6. Ready(cs, users, seats)
    BY <1>2, <2>3, <2>4, <2>5, GatewayAssumption DEF Ready, Pair, Sides
  <2>7. {c} \subseteq {seats[s] : s \in Sides}
    <3>1. a = c \/ b = c
      BY <2>5
    <3> QED
      BY <3>1 DEF Pair, Sides
  <2>8. w # None => \A s \in Sides : cs[w].user # users[s]
    BY <1>2, <1>4, <1>6, <2>3, <2>4 DEF Pair, Waits
  <2> HIDE DEF users, seats
  <2> QED
    BY <1>1, <1>2, <1>3, <2>1, <2>2, <2>5, <2>6, <2>7, <2>8, MatchStarts DEF users, seats
<1> QED
  BY <1>5, <1>6

(* Not let in: the challenge is closed, the deck is not valid. *)
LEMMA ConnectionRefused ==
  ASSUME IInv, NEW u \in Users, NEW c \in Conns, Free(c), Refused(u, c), ended' = ended
  PROVE  IInv'
<1> DEFINE cs == Opened(u, c)
           ds == Closing(cs, {c})
<1>1. /\ ~CanReturn(u) /\ conn' = ds /\ userRooms' = Forgotten(u) /\ waiting' = waiting /\ challenge' = challenge
      /\ room' = room /\ rooms' = rooms
  BY DEF Refused
<1>2. /\ ConnsOk(cs, waiting, challenge, {c}) /\ cs[c] = [user |-> u, socket |-> "open", room |-> 0]
      /\ c # waiting /\ c # challenge.slot
  BY ConnectionOpened
<1>3. challenge \in Invitations
  BY DEF IInv, ConnsOk, ConnsTyped
<1> HIDE DEF cs
<1>4. ConnsOk(ds, waiting, challenge, {c} \ {c})
  <2> DEFINE S == {c}
  <2>1. /\ \A d \in S \cap Conns : cs[d].socket = "open" => cs[d].room = 0
        /\ waiting \notin S /\ challenge.slot \notin S /\ ConnsOk(cs, waiting, challenge, S)
    BY <1>2
  <2> HIDE DEF S
  <2>2. ConnsOk(Closing(cs, S), waiting, challenge, S \ S)
    BY <1>3, <2>1, WaitersClosed
  <2> QED
    BY <2>2 DEF S
<1>5. ConnsOk(conn', waiting', challenge', {})
  <2>1. {c} \ {c} = {}
    OBVIOUS
  <2> QED
    BY <1>1, <1>4, <2>1
<1> QED
  BY <1>1, <1>5, SameRooms, IndexForgets DEF IInv

(* A challenge is made, in place of the former one, or is closed. *)
LEMMA ChallengeReplaced ==
  ASSUME IInv, conn' = Closing(conn, Slot), challenge' \in Invitations, challenge'.slot = None,
         UNCHANGED <<waiting, room, ended, rooms, userRooms>>
  PROVE  IInv'
<1>1. /\ ConnsOk(conn, waiting, challenge, {}) /\ challenge \in Invitations /\ waiting \in Conns \cup {None}
      /\ Waits(conn, waiting, challenge)
  BY DEF IInv, ConnsOk, ConnsTyped
<1>2. Slot = IF challenge.slot = None THEN {} ELSE {challenge.slot}
  BY DEF Slot
<1>3. waiting # None => waiting \notin Slot
  BY <1>1, <1>2 DEF Waits
<1>4. \A d \in Slot \cap Conns : conn[d].socket = "open" => conn[d].room = 0
  BY <1>1, <1>2 DEF Waits, Wait
<1> DEFINE ci == challenge'
<1>5. ci \in Invitations /\ ci.slot = None
  BY DEF Invitations
<1> HIDE DEF ci
<1>6. ConnsOk(Closing(conn, Slot), waiting, ci, {} \ Slot)
  BY <1>1, <1>2, <1>3, <1>4, <1>5, WaitersClosed
<1>7. ConnsOk(conn', waiting', challenge', {})
  BY <1>6 DEF ci
<1>8. RoomsOk'
  BY DEF IInv, RoomsOk, RoomsTyped, InCourse, Named, Indexed, Ends, Plays, RoomIds, Matches, Names, Ids, NoName, NotStarted
<1> QED
  BY <1>7, <1>8, SameRooms DEF IInv
-----------------------------------------------------------------------------
(* tryReconnect: the connection takes the seat of its user, and the one    *)
(* that had it is sent away.                                               *)
LEMMA Reconnected ==
  ASSUME IInv, NEW u \in Users, NEW c \in Conns, Free(c), tryReconnect(u, c), ended' = ended
  PROVE  IInv'
<1> DEFINE i == RoomNamed(userRooms[u])
           s == ColorOf(i, u)
           old == {room[i].seat[s]} \cap Conns
           cs == [Opened(u, c) EXCEPT ![c].room = i]
           ds == Closing(cs, old)
           r == [room[i] EXCEPT !.seat = [room[i].seat EXCEPT ![s] = c], !.absent = room[i].absent \ {u}]
<1>1. /\ conn' = ds /\ UNCHANGED <<waiting, challenge, rooms, userRooms>> /\ CanReturn(u)
      /\ room' = [room EXCEPT ![i].seat[s] = c, ![i].absent = @ \ {u}]
  BY DEF tryReconnect
<1>2. /\ RoomsTyped /\ InCourse /\ Named /\ Indexed /\ Ends
      /\ conn \in [Conns -> Connections] /\ waiting \in Conns \cup {None} /\ challenge \in Invitations
      /\ OfUsers(conn) /\ Known(conn, waiting, challenge, {}) /\ Waits(conn, waiting, challenge) /\ Seated(conn)
  BY DEF IInv, RoomsOk, ConnsOk, ConnsTyped
<1>3. i \in RoomIds /\ room[i].status = "active" /\ Plays(room[i], u) /\ i # 0 /\ i \in 0 .. Over
  <2>1. i \in RoomIds /\ room[i].status = "active" /\ userRooms[u] # NoName
    BY <1>1 DEF CanReturn, inMatch, Running
  <2>2. i # 0 /\ i \in 0 .. Over
    BY <2>1, GatewayAssumption DEF RoomIds, Over
  <2>3. userRooms[u] \in DOMAIN rooms /\ i = rooms[userRooms[u]]
    BY <1>2, <2>1 DEF Indexed, RoomNamed
  <2> QED
    BY <1>2, <2>1, <2>2, <2>3 DEF Indexed
<1>4. /\ Opened(u, c)[c] = [user |-> u, socket |-> "open", room |-> 0]
      /\ \A d \in Conns \ {c} : Opened(u, c)[d] = conn[d]
      /\ c # waiting /\ c # challenge.slot /\ Opened(u, c) \in [Conns -> Connections]
  BY ConnectionOpened DEF ConnsOk, ConnsTyped
<1>5. s \in Sides /\ room[i].user[s] = u
  BY <1>3 DEF ColorOf, Plays, Sides
<1>6. \A j \in RoomIds : \A t \in Sides : room[j].seat[t] # c
  BY DEF Free
<1>7. \A t \in Sides : room[i].user[t] = u => t = s
  BY <1>2, <1>3, <1>5 DEF InCourse, Sides
<1> HIDE DEF i, s
<1>8. /\ r \in Matches /\ r.status = "active" /\ r.name = room[i].name /\ r.user = room[i].user
      /\ r.seat \in [Sides -> Conns \cup {None, BotSeat}] /\ r.seat[s] = c /\ (\A t \in Sides \ {s} : r.seat[t] = room[i].seat[t])
      /\ r.absent = room[i].absent \ {u}
  <2>1. room[i] \in Matches
    BY <1>2, <1>3 DEF RoomsTyped
  <2> DEFINE seat == [room[i].seat EXCEPT ![s] = c]
             absent == room[i].absent \ {u}
  <2>2. seat \in [Sides -> Conns \cup {None, BotSeat}] /\ seat[s] = c /\ \A t \in Sides \ {s} : seat[t] = room[i].seat[t]
    BY <1>5, <2>1 DEF Matches
  <2>3. absent \in SUBSET (Users \cup {Nobody})
    BY <2>1 DEF Matches
  <2>4. r = [room[i] EXCEPT !.seat = seat, !.absent = absent]
    OBVIOUS
  <2> HIDE DEF seat, absent
  <2>5. r \in Matches /\ r.status = room[i].status /\ r.name = room[i].name /\ r.user = room[i].user /\ r.seat = seat /\ r.absent = absent
    BY <2>1, <2>2, <2>3, <2>4 DEF Matches
  <2> HIDE DEF r
  <2> QED
    BY <1>3, <2>2, <2>5 DEF absent
<1>9. room' \in [RoomIds -> Matches] /\ room'[i] = r /\ \A j \in RoomIds \ {i} : room'[j] = room[j]
  <2>1. room' = [room EXCEPT ![i] = r]
    BY <1>1, <1>2, <1>3 DEF RoomsTyped, Matches
  <2> HIDE DEF r
  <2> QED
    BY <1>2, <1>3, <1>8, <2>1 DEF RoomsTyped
<1> HIDE DEF r
<1>10. /\ cs \in [Conns -> Connections] /\ cs[c] = [user |-> u, socket |-> "open", room |-> i]
       /\ \A d \in Conns \ {c} : cs[d] = conn[d]
  BY <1>3, <1>4 DEF Connections
<1> HIDE DEF cs
<1>11. /\ ds \in [Conns -> Connections]
       /\ \A d \in Conns : /\ ds[d].user = cs[d].user /\ ds[d].room = cs[d].room
                           /\ ds[d].socket = IF d \in old /\ cs[d].socket = "open" THEN "closing" ELSE cs[d].socket
  BY <1>10, ClosingIs
<1>12. c \notin old /\ \A d \in old : d = room[i].seat[s] /\ d \in Conns
  BY <1>3, <1>5, <1>6
<1> HIDE DEF ds, old
<1>13. RoomsOk'
  <2>1. RoomsTyped'
    BY <1>1, <1>2, <1>9 DEF RoomsTyped, Matches, Names, Ids, RoomIds, NoName, Sides
  <2>2. InCourse'
    <3> SUFFICES ASSUME NEW j \in RoomIds
                 PROVE  /\ room'[j].status = "unused" => room'[j] = NotStarted
                        /\ room'[j].status = "active" =>
                             /\ room'[j].user["white"] # room'[j].user["black"]
                             /\ room'[j].name \in DOMAIN rooms /\ rooms[room'[j].name] = j
                             /\ \A v \in Users : Plays(room'[j], v) => userRooms[v] = room'[j].name
                             /\ \A t \in Sides : /\ room'[j].seat[t] \in Conns => room'[j].user[t] \in Users
                                                 /\ room'[j].seat[t] = BotSeat => room'[j].user[t] = Nobody
      BY <1>1 DEF InCourse, RoomIds, Plays, NotStarted, NoName, Sides
    <3>1. CASE j # i
      BY <1>2, <1>9, <3>1 DEF InCourse
    <3>2. CASE j = i
      <4>1. \A t \in Sides : /\ r.seat[t] \in Conns => r.user[t] \in Users
                             /\ r.seat[t] = BotSeat => r.user[t] = Nobody
        BY <1>2, <1>3, <1>5, <1>8, GatewayAssumption DEF InCourse
      <4>2. \A v \in Users : Plays(r, v) => Plays(room[i], v)
        BY <1>8 DEF Plays
      <4> QED
        BY <1>2, <1>3, <1>8, <1>9, <3>2, <4>1, <4>2 DEF InCourse
    <3> QED
      BY <3>1, <3>2
  <2>3. \A j \in RoomIds : room'[j].status = room[j].status /\ room'[j].name = room[j].name /\ room'[j].user = room[j].user
    BY <1>3, <1>8, <1>9
  <2>4. \A n \in DOMAIN rooms : rooms[n] # 0 => rooms[n] \in RoomIds
    BY <1>2 DEF RoomsTyped
  <2>5. Named' /\ Ends'
    BY <1>1, <1>2, <2>3, <2>4 DEF Named, Ends
  <2>6. \A j \in RoomIds : \A v : Plays(room'[j], v) <=> Plays(room[j], v)
    BY <2>3 DEF Plays
  <2>7. \A v \in Users : userRooms[v] # NoName =>
          userRooms[v] \in DOMAIN rooms /\ (rooms[userRooms[v]] # 0 => Plays(room'[rooms[userRooms[v]]], v))
    BY <1>2, <2>4, <2>6 DEF Indexed
  <2>8. Indexed'
    BY <1>1, <2>7 DEF Indexed, Plays, NoName
  <2> QED
    BY <2>1, <2>2, <2>5, <2>8 DEF RoomsOk
<1>14. \A j \in RoomIds : /\ room'[j].status = room[j].status
                          /\ \A v : Plays(room'[j], v) <=> Plays(room[j], v)
  BY <1>3, <1>8, <1>9 DEF Plays
<1>15. ConnsTyped(conn, waiting, challenge)'
  BY <1>1, <1>2, <1>11 DEF ConnsTyped, Connections, Invitations, Over
<1>16. OfUsers(conn)'
  <2>1. \A d \in Conns : /\ ds[d].socket = "unused" => ds[d].room = 0
                         /\ ds[d].socket # "unused" => ds[d].user \in Users
                         /\ ds[d].room \in RoomIds => room'[ds[d].room].status = "active" /\ Plays(room'[ds[d].room], ds[d].user)
    <3> SUFFICES ASSUME NEW d \in Conns
                 PROVE  /\ ds[d].socket = "unused" => ds[d].room = 0
                        /\ ds[d].socket # "unused" => ds[d].user \in Users
                        /\ ds[d].room \in RoomIds => room'[ds[d].room].status = "active" /\ Plays(room'[ds[d].room], ds[d].user)
      OBVIOUS
    <3>1. CASE d = c
      BY <1>3, <1>10, <1>11, <1>12, <1>14, <3>1
    <3>2. CASE d # c
      <4>1. /\ ds[d].room = conn[d].room /\ ds[d].user = conn[d].user
            /\ (ds[d].socket = "unused" <=> conn[d].socket = "unused")
        BY <1>10, <1>11, <3>2
      <4> QED
        BY <1>2, <1>14, <4>1 DEF OfUsers
    <3> QED
      BY <3>1, <3>2
  <2> QED
    BY <1>1, <2>1 DEF OfUsers, Plays, RoomIds
<1>17. Known(conn, waiting, challenge, {})'
  <2>1. ASSUME NEW d \in Conns, ds[d].socket = "open", d # waiting, d # challenge.slot
        PROVE  ds[d].room # 0 /\ (ds[d].room \in RoomIds => \E t \in Sides : room'[ds[d].room].seat[t] = d)
    <3>1. CASE d = c
      BY <1>3, <1>5, <1>8, <1>9, <1>10, <1>11, <3>1
    <3>2. CASE d # c
      <4>1. cs[d] = conn[d] /\ conn[d].socket = "open" /\ d \notin old /\ ds[d].room = conn[d].room
        BY <1>10, <1>11, <2>1, <3>2
      <4>2. conn[d].room # 0 /\ (conn[d].room \in RoomIds => \E t \in Sides : room[conn[d].room].seat[t] = d)
        BY <1>2, <2>1, <4>1 DEF Known
      <4>3. ASSUME NEW t \in Sides, conn[d].room = i, room[i].seat[t] = d
            PROVE  r.seat[t] = d
        BY <1>8, <4>1, <4>3 DEF old
      <4>4. CASE ds[d].room = i
        <5>1. PICK t \in Sides : room[i].seat[t] = d
          BY <1>3, <4>1, <4>2, <4>4
        <5>2. room'[i].seat[t] = d
          BY <1>9, <4>1, <4>3, <4>4, <5>1
        <5> QED
          BY <1>3, <4>4, <5>2
      <4>5. CASE ds[d].room # i
        BY <1>9, <4>1, <4>2, <4>5
      <4> QED
        BY <4>4, <4>5
    <3> QED
      BY <3>1, <3>2
  <2> QED
    BY <1>1, <2>1 DEF Known, RoomIds
<1>18. Waits(conn, waiting, challenge)'
  <2>1. \A d \in Conns \ {c} : Wait(conn, d) => d \notin old
    BY <1>2, <1>3, <1>5, <1>12 DEF Seated, AtSeat, Wait
  <2>2. \A d \in Conns \ {c} : Wait(conn, d) => ds[d].socket = "open" /\ ds[d].room = 0 /\ ds[d].user = conn[d].user
    BY <1>10, <1>11, <2>1 DEF Wait
  <2>3. \A d \in Conns \ {c} : Wait(conn, d) => \A j \in RoomIds : room'[j].status = "active" => ~Plays(room'[j], ds[d].user)
    BY <1>14, <2>2 DEF Wait, InNoMatch
  <2>4. /\ waiting # None => waiting \in Conns \ {c} /\ Wait(conn, waiting)
        /\ challenge.slot # None => challenge.slot \in Conns \ {c} /\ Wait(conn, challenge.slot)
                                    /\ conn[challenge.slot].user \in {challenge.from, challenge.to}
        /\ waiting # None /\ challenge.slot # None => conn[waiting].user # conn[challenge.slot].user
    BY <1>2, <1>4 DEF Waits, Invitations
  <2>5. \A d \in Conns \ {c} : Wait(conn, d) => Wait(conn, d)' /\ conn'[d].user = conn[d].user
    BY <1>1, <2>2, <2>3 DEF Wait, InNoMatch, Plays, RoomIds
  <2> QED
    BY <1>1, <2>4, <2>5 DEF Waits
<1>19. Seated(conn)'
  <2>1. ASSUME NEW j \in RoomIds, room'[j].status = "active", NEW t \in Sides, NEW d \in Conns, d = room'[j].seat[t]
        PROVE  \/ /\ ds[d].socket = "open" /\ ds[d].room = j /\ ds[d].user = room'[j].user[t]
                  /\ room'[j].user[t] \notin room'[j].absent
               \/ ds[d].socket = "unused" /\ room'[j].user[t] \in room'[j].absent
    <3>1. CASE j = i /\ t = s
      <4>1. d = c /\ room'[j].user[t] = u /\ u \notin room'[j].absent
        BY <1>5, <1>8, <1>9, <2>1, <3>1
      <4> QED
        BY <1>10, <1>11, <1>12, <3>1, <4>1
    <3>2. CASE ~(j = i /\ t = s)
      <4>1. /\ d = room[j].seat[t] /\ room[j].status = "active" /\ room'[j].user[t] = room[j].user[t]
            /\ room'[j].user[t] \in room'[j].absent <=> room[j].user[t] \in room[j].absent
        BY <1>3, <1>7, <1>8, <1>9, <2>1, <3>2
      <4>2. AtSeat(conn, j, t)
        BY <1>2, <2>1, <4>1 DEF Seated
      <4>3. d # c /\ cs[d] = conn[d]
        BY <1>6, <1>10, <4>1
      <4>4. d \in old => ~(conn[d].socket = "open")
        <5> SUFFICES ASSUME d \in old, conn[d].socket = "open"
                     PROVE  FALSE
          OBVIOUS
        <5>1. d = room[i].seat[s] /\ AtSeat(conn, i, s)
          BY <1>2, <1>3, <1>5, <1>12 DEF Seated
        <5>2. conn[d].room = i /\ conn[d].user = u /\ conn[d].room = j /\ conn[d].user = room[j].user[t]
          BY <1>5, <4>1, <4>2, <5>1 DEF AtSeat
        <5> QED
          BY <1>7, <3>2, <5>2
      <4>5. ds[d].socket = conn[d].socket /\ ds[d].room = conn[d].room /\ ds[d].user = conn[d].user
        BY <1>11, <4>3, <4>4
      <4> QED
        BY <4>1, <4>2, <4>5 DEF AtSeat
    <3> QED
      BY <3>1, <3>2
  <2> QED
    BY <1>1, <2>1 DEF Seated, AtSeat, RoomIds
<1> QED
  BY <1>13, <1>15, <1>16, <1>17, <1>18, <1>19 DEF IInv, ConnsOk
-----------------------------------------------------------------------------
(* The matches change, their players and names do not: what is said of     *)
(* names and of the index stays, and so does who is in a match.            *)
SamePlayers ==
  \A j \in RoomIds : room'[j].status = room[j].status /\ room'[j].name = room[j].name /\ room'[j].user = room[j].user

(* Then matches, names and index still agree, and nobody who waits has     *)
(* come into a match.                                                      *)
LEMMA PlayersStay ==
  ASSUME IInv, SamePlayers, room' \in [RoomIds -> Matches], UNCHANGED <<rooms, userRooms>>, ended' = ended,
         \A j \in RoomIds : room[j].status = "unused" => room'[j] = room[j],
         \A j \in RoomIds : room[j].status = "active" => \A s \in Sides :
           room'[j].seat[s] = room[j].seat[s] \/ room'[j].seat[s] = None \/ (room'[j].seat[s] = BotSeat /\ room[j].user[s] = Nobody)
  PROVE  /\ RoomsOk'
         /\ \A j \in RoomIds : \A v : Plays(room'[j], v) <=> Plays(room[j], v)
         /\ \A c \in Conns : Wait(conn, c) /\ conn'[c] = conn[c] => Wait(conn, c)'
<1>1. RoomsTyped /\ InCourse /\ Named /\ Indexed /\ Ends
  BY DEF IInv, RoomsOk
<1>2. \A j \in RoomIds : \A v : Plays(room'[j], v) <=> Plays(room[j], v)
  BY DEF SamePlayers, Plays
<1>3. \A n \in DOMAIN rooms : rooms[n] # 0 => rooms[n] \in RoomIds
  BY <1>1 DEF RoomsTyped
<1>4. RoomsTyped'
  BY <1>1 DEF RoomsTyped, Matches, Names, Ids, RoomIds, NoName, Sides
<1>5. InCourse'
  <2>1. ASSUME NEW j \in RoomIds
        PROVE  /\ room'[j].status = "unused" => room'[j] = NotStarted
               /\ room'[j].status = "active" =>
                    /\ room'[j].user["white"] # room'[j].user["black"]
                    /\ room'[j].name \in DOMAIN rooms /\ rooms[room'[j].name] = j
                    /\ \A v \in Users : Plays(room'[j], v) => userRooms[v] = room'[j].name
                    /\ \A t \in Sides : /\ room'[j].seat[t] \in Conns => room'[j].user[t] \in Users
                                        /\ room'[j].seat[t] = BotSeat => room'[j].user[t] = Nobody
    BY <1>1, <1>2, GatewayAssumption DEF InCourse, SamePlayers
  <2> QED
    BY <2>1 DEF InCourse, RoomIds, Plays, NotStarted, NoName, Sides
<1>6. Named' /\ Ends'
  BY <1>1, <1>3 DEF Named, Ends, SamePlayers
<1>7. Indexed'
  <2>1. \A v \in Users : userRooms[v] # NoName =>
          userRooms[v] \in DOMAIN rooms /\ (rooms[userRooms[v]] # 0 => Plays(room'[rooms[userRooms[v]]], v))
    BY <1>1, <1>2, <1>3 DEF Indexed
  <2> QED
    BY <2>1 DEF Indexed, Plays, NoName
<1>8. \A c \in Conns : Wait(conn, c) /\ conn'[c] = conn[c] => Wait(conn, c)'
  <2>1. \A v : InNoMatch(v) => \A j \in RoomIds : room'[j].status = "active" => ~Plays(room'[j], v)
    BY <1>2 DEF InNoMatch, SamePlayers
  <2>2. \A v : InNoMatch(v) => InNoMatch(v)'
    BY <2>1 DEF InNoMatch, Plays, RoomIds
  <2>3. ASSUME NEW c \in Conns, Wait(conn, c), conn'[c] = conn[c]
        PROVE  conn'[c].socket = "open" /\ conn'[c].room = 0 /\ InNoMatch(conn[c].user)
    BY <2>3 DEF Wait
  <2>4. ASSUME NEW c \in Conns, Wait(conn, c), conn'[c] = conn[c]
        PROVE  \A j \in RoomIds : room'[j].status = "active" => ~Plays(room'[j], conn'[c].user)
    BY <2>1, <2>3, <2>4
  <2> QED
    BY <2>3, <2>4 DEF Wait, InNoMatch, Plays, RoomIds
<1> QED
  BY <1>2, <1>4, <1>5, <1>6, <1>7, <1>8 DEF RoomsOk

(* A match goes on: a move, an offer, an answer, a bot that leaves or      *)
(* comes back.  Of the seats only that of the bot changes.                 *)
LEMMA MatchContinues ==
  ASSUME IInv, NEW i \in RoomIds, room[i].status = "active", NEW r \in Matches, room' = [room EXCEPT ![i] = r],
         r.status = "active", r.name = room[i].name, r.user = room[i].user,
         \A s \in Sides : r.seat[s] = room[i].seat[s] \/ (r.seat[s] = BotSeat /\ room[i].user[s] = Nobody),
         \A u \in Users : u \in r.absent <=> u \in room[i].absent,
         UNCHANGED <<conn, waiting, challenge, ended, rooms, userRooms>>
  PROVE  IInv'
<1>1. /\ RoomsTyped /\ InCourse
      /\ conn \in [Conns -> Connections] /\ waiting \in Conns \cup {None} /\ challenge \in Invitations
      /\ OfUsers(conn) /\ Known(conn, waiting, challenge, {}) /\ Waits(conn, waiting, challenge) /\ Seated(conn)
  BY DEF IInv, RoomsOk, ConnsOk, ConnsTyped
<1>2. room' \in [RoomIds -> Matches] /\ room'[i] = r /\ \A j \in RoomIds \ {i} : room'[j] = room[j]
  BY <1>1 DEF RoomsTyped
<1>3. SamePlayers
  BY <1>2 DEF SamePlayers
<1>4. /\ RoomsOk'
      /\ \A j \in RoomIds : \A v : Plays(room'[j], v) <=> Plays(room[j], v)
      /\ \A c \in Conns : Wait(conn, c) => Wait(conn, c)'
  BY <1>2, <1>3, PlayersStay
<1>5. ConnsTyped(conn, waiting, challenge)'
  BY <1>1 DEF ConnsTyped, Connections, Invitations, Over
<1>6. OfUsers(conn)'
  <2>1. \A c \in Conns : conn[c].room \in RoomIds => room'[conn[c].room].status = "active" /\ Plays(room'[conn[c].room], conn[c].user)
    BY <1>1, <1>3, <1>4 DEF OfUsers, SamePlayers
  <2> QED
    BY <1>1, <2>1 DEF OfUsers, Plays, RoomIds
<1>7. \A j \in RoomIds : room[j].status = "active" => \A s \in Sides : room[j].seat[s] \in Conns => room'[j].seat[s] = room[j].seat[s]
  BY <1>1, <1>2, GatewayAssumption DEF InCourse
<1>8. Known(conn, waiting, challenge, {})'
  <2>1. ASSUME NEW c \in Conns, conn[c].socket = "open", c # waiting, c # challenge.slot
        PROVE  conn[c].room # 0 /\ (conn[c].room \in RoomIds => \E s \in Sides : room'[conn[c].room].seat[s] = c)
    <3>1. conn[c].room # 0 /\ (conn[c].room \in RoomIds => \E s \in Sides : room[conn[c].room].seat[s] = c)
      BY <1>1, <2>1 DEF Known
    <3>2. conn[c].room \in RoomIds => room[conn[c].room].status = "active"
      BY <1>1 DEF OfUsers
    <3> QED
      BY <1>7, <3>1, <3>2
  <2> QED
    BY <2>1 DEF Known, RoomIds
<1>9. Waits(conn, waiting, challenge)'
  <2>1. /\ waiting # None => waiting \in Conns /\ Wait(conn, waiting)
        /\ challenge.slot # None => challenge.slot \in Conns /\ Wait(conn, challenge.slot)
    BY <1>1 DEF Waits, Invitations
  <2>2. /\ waiting # None => Wait(conn, waiting)'
        /\ challenge.slot # None => Wait(conn, challenge.slot)'
    BY <1>4, <2>1 DEF Wait
  <2> QED
    BY <1>1, <2>2 DEF Waits
<1>10. Seated(conn)'
  <2>1. ASSUME NEW j \in RoomIds, room'[j].status = "active", NEW s \in Sides, NEW c \in Conns, c = room'[j].seat[s]
        PROVE  \/ /\ conn[c].socket = "open" /\ conn[c].room = j /\ conn[c].user = room'[j].user[s]
                  /\ room'[j].user[s] \notin room'[j].absent
               \/ conn[c].socket = "unused" /\ room'[j].user[s] \in room'[j].absent
    <3>1. c = room[j].seat[s] /\ room[j].status = "active" /\ room'[j].user[s] = room[j].user[s]
      BY <1>2, <1>3, <2>1, GatewayAssumption DEF SamePlayers
    <3>2. AtSeat(conn, j, s) /\ room[j].user[s] \in Users
      BY <1>1, <3>1 DEF Seated, InCourse
    <3>3. room[j].user[s] \in room'[j].absent <=> room[j].user[s] \in room[j].absent
      BY <1>2, <3>2
    <3> QED
      BY <3>1, <3>2, <3>3 DEF AtSeat
  <2> QED
    BY <2>1 DEF Seated, AtSeat, RoomIds
<1> QED
  BY <1>4, <1>5, <1>6, <1>8, <1>9, <1>10 DEF IInv, ConnsOk
-----------------------------------------------------------------------------
(* A socket has closed: it leaves the queue, its slot and its seat. *)
LEMMA SocketClosed ==
  ASSUME IInv, NEW c \in Conns, onClose(c)
  PROVE  IInv'
<1> DEFINE i == conn[c].room
           u == conn[c].user
           fresh == [user |-> Nobody, socket |-> "unused", room |-> 0]
<1>1. /\ conn[c].socket \in {"open", "closing"} /\ conn' = [conn EXCEPT ![c] = fresh]
      /\ waiting' = IF waiting = c THEN None ELSE waiting
      /\ challenge' = IF challenge.slot # c THEN challenge
                      ELSE IF u = challenge.from THEN NoChallenge ELSE [challenge EXCEPT !.slot = None]
      /\ leave(c) /\ ended' = ended /\ UNCHANGED <<rooms, userRooms>>
  BY DEF onClose, Fresh
<1>2. /\ RoomsTyped /\ InCourse
      /\ conn \in [Conns -> Connections] /\ waiting \in Conns \cup {None} /\ challenge \in Invitations
      /\ OfUsers(conn) /\ Known(conn, waiting, challenge, {}) /\ Waits(conn, waiting, challenge) /\ Seated(conn)
  BY DEF IInv, RoomsOk, ConnsOk, ConnsTyped
<1>3. fresh \in Connections
  BY GatewayAssumption DEF Connections, Over
<1>4. conn' \in [Conns -> Connections] /\ conn'[c] = fresh /\ \A d \in Conns \ {c} : conn'[d] = conn[d]
  BY <1>1, <1>2, <1>3
<1>5. /\ challenge' \in Invitations /\ challenge'.slot # c
      /\ challenge'.slot # None => challenge' = challenge
      /\ challenge.slot # c => challenge' = challenge
  BY <1>1, <1>2, GatewayAssumption DEF Invitations, NoChallenge
<1>6. u \in Users /\ (i \in RoomIds => room[i].status = "active" /\ Plays(room[i], u))
  BY <1>1, <1>2 DEF OfUsers
<1> HIDE DEF fresh
(* It is at a seat of its own match only, and leaves it.                   *)
<1>7. \A j \in RoomIds : room[j].status = "active" => \A t \in Sides : room[j].seat[t] = c =>
        j = i /\ room[j].user[t] = u /\ conn[c].socket = "open"
  BY <1>1, <1>2 DEF Seated, AtSeat
<1>8. /\ room' \in [RoomIds -> Matches] /\ SamePlayers
      /\ \A j \in RoomIds : room[j].status = "unused" => room'[j] = room[j]
      /\ \A j \in RoomIds : room'[j].seat = room[j].seat
      /\ \A j \in RoomIds : \A v : (j # i \/ v # u) => (v \in room'[j].absent <=> v \in room[j].absent)
      /\ i \in RoomIds /\ (\E t \in Sides : room[i].seat[t] = c) => u \in room'[i].absent
      /\ \A j \in RoomIds : room[j].absent \subseteq room'[j].absent
      /\ ~(i \in RoomIds /\ \E t \in Sides : room[i].seat[t] = c) => room' = room
  <2>1. CASE Running(i) /\ SeatOf(c) # {}
    <3> DEFINE absent == room[i].absent \cup {u}
               r == [room[i] EXCEPT !.absent = absent]
    <3>1. i \in RoomIds /\ room[i].status = "active" /\ room[i] \in Matches
      BY <1>2, <2>1 DEF Running, RoomsTyped
    <3>2. absent \in SUBSET (Users \cup {Nobody})
      BY <1>6, <3>1 DEF Matches
    <3>3. room' = [room EXCEPT ![i] = r]
      <4>1. room' = [room EXCEPT ![i].absent = @ \cup {u}]
        BY <1>1, <2>1 DEF leave
      <4> QED
        BY <4>1
    <3> HIDE DEF absent
    <3>4. /\ r \in Matches /\ r.status = room[i].status /\ r.name = room[i].name /\ r.user = room[i].user
          /\ r.seat = room[i].seat /\ r.absent = absent
      BY <3>1, <3>2 DEF Matches
    <3> HIDE DEF r, i, u
    <3>5. room' \in [RoomIds -> Matches] /\ room'[i] = r /\ \A j \in RoomIds \ {i} : room'[j] = room[j]
      BY <1>2, <3>1, <3>3, <3>4 DEF RoomsTyped
    <3>6. SamePlayers
      BY <3>4, <3>5 DEF SamePlayers
    <3>8. \E t \in Sides : room[i].seat[t] = c
      BY <2>1 DEF SeatOf, i
    <3>9. room[i].absent \subseteq absent
      BY DEF absent
    <3>7. \A v : (v # u => (v \in absent <=> v \in room[i].absent)) /\ u \in absent
      BY DEF absent
    <3> QED
      BY <3>1, <3>4, <3>5, <3>6, <3>7, <3>8, <3>9
  <2>2. CASE ~(Running(i) /\ SeatOf(c) # {})
    <3>1. room' = room
      BY <1>1, <2>2 DEF leave
    <3>2. i \in RoomIds => ~\E t \in Sides : room[i].seat[t] = c
      BY <1>6, <2>2 DEF SeatOf, Running
    <3> QED
      BY <1>2, <3>1, <3>2 DEF SamePlayers, RoomsTyped
  <2> QED
    BY <2>1, <2>2
<1>9. /\ RoomsOk'
      /\ \A j \in RoomIds : \A v : Plays(room'[j], v) <=> Plays(room[j], v)
      /\ \A d \in Conns : Wait(conn, d) /\ conn'[d] = conn[d] => Wait(conn, d)'
  BY <1>1, <1>8, PlayersStay
<1> HIDE DEF i, u
<1>10. ConnsTyped(conn, waiting, challenge)'
  BY <1>1, <1>2, <1>4, <1>5 DEF ConnsTyped, Connections, Invitations, Over
<1>11. OfUsers(conn)'
  <2>1. ASSUME NEW d \in Conns
        PROVE  /\ conn'[d].socket = "unused" => conn'[d].room = 0
               /\ conn'[d].socket # "unused" => conn'[d].user \in Users
               /\ conn'[d].room \in RoomIds => room'[conn'[d].room].status = "active" /\ Plays(room'[conn'[d].room], conn'[d].user)
    <3>1. CASE d = c
      BY <1>4, <3>1, GatewayAssumption DEF fresh, RoomIds
    <3>2. CASE d # c
      BY <1>2, <1>4, <1>8, <1>9, <3>2 DEF OfUsers, SamePlayers
    <3> QED
      BY <3>1, <3>2
  <2> QED
    BY <2>1 DEF OfUsers, Plays, RoomIds
<1>12. Known(conn, waiting, challenge, {})'
  <2>1. ASSUME NEW d \in Conns, conn'[d].socket = "open", d # waiting', d # challenge'.slot
        PROVE  conn'[d].room # 0 /\ (conn'[d].room \in RoomIds => \E s \in Sides : room'[conn'[d].room].seat[s] = d)
    <3>1. d # c /\ conn'[d] = conn[d]
      BY <1>4, <2>1 DEF fresh
    <3>2. d # waiting /\ d # challenge.slot
      BY <1>1, <1>5, <2>1, <3>1
    <3> QED
      BY <1>2, <1>8, <2>1, <3>1, <3>2 DEF Known
  <2> QED
    BY <2>1 DEF Known, RoomIds
<1>13. Waits(conn, waiting, challenge)'
  <2>1. /\ waiting' # None => waiting' = waiting /\ waiting \in Conns \ {c} /\ Wait(conn, waiting)
        /\ challenge'.slot # None => challenge' = challenge /\ challenge.slot \in Conns \ {c} /\ Wait(conn, challenge.slot)
    BY <1>1, <1>2, <1>5 DEF Waits, Invitations
  <2>2. \A d \in Conns \ {c} : Wait(conn, d) => Wait(conn, d)' /\ conn'[d].user = conn[d].user
    BY <1>4, <1>9
  <2>3. /\ waiting' # None => Wait(conn, waiting)' /\ conn'[waiting'].user = conn[waiting].user
        /\ challenge'.slot # None => Wait(conn, challenge.slot)' /\ conn'[challenge'.slot].user = conn[challenge.slot].user
    BY <2>1, <2>2 DEF Wait
  <2> QED
    BY <1>2, <2>1, <2>3 DEF Waits
<1>14. Seated(conn)'
  <2>1. ASSUME NEW j \in RoomIds, room'[j].status = "active", NEW s \in Sides, NEW d \in Conns, d = room'[j].seat[s]
        PROVE  \/ /\ conn'[d].socket = "open" /\ conn'[d].room = j /\ conn'[d].user = room'[j].user[s]
                  /\ room'[j].user[s] \notin room'[j].absent
               \/ conn'[d].socket = "unused" /\ room'[j].user[s] \in room'[j].absent
    <3>1. d = room[j].seat[s] /\ room[j].status = "active" /\ room'[j].user[s] = room[j].user[s]
      BY <1>8, <2>1 DEF SamePlayers
    <3>2. AtSeat(conn, j, s)
      BY <1>2, <3>1 DEF Seated
    <3>3. CASE d = c
      <4>1. j = i /\ room[j].user[s] = u /\ room[i].seat[s] = c
        BY <1>7, <3>1, <3>3
      <4>2. u \in room'[i].absent
        BY <1>8, <4>1
      <4>3. conn'[d].socket = "unused"
        BY <1>4, <3>3 DEF fresh
      <4> QED
        BY <3>1, <4>1, <4>2, <4>3
    <3>4. CASE d # c
      <4>1. conn'[d] = conn[d]
        BY <1>4, <3>4
      <4>2. CASE j # i \/ room[j].user[s] # u
        BY <1>8, <3>1, <3>2, <4>1, <4>2 DEF AtSeat
      <4>3. CASE j = i /\ room[j].user[s] = u
        <5>1. CASE conn[d].socket = "unused"
          <6>1. room[j].user[s] \in room[j].absent
            BY <3>1, <3>2, <5>1 DEF AtSeat
          <6>2. \A v \in room[j].absent : v \in room'[j].absent
            BY <1>8
          <6> QED
            BY <3>1, <4>1, <5>1, <6>1, <6>2
        <5>2. CASE conn[d].socket # "unused"
          <6>1. \A t \in Sides : room[j].user[t] = u => t = s
            BY <1>2, <3>1, <4>3 DEF InCourse, Sides
          <6>2. ~\E t \in Sides : room[i].seat[t] = c
            BY <1>7, <3>1, <3>4, <4>3, <6>1
          <6>3. room' = room
            BY <1>8, <6>2
          <6> QED
            BY <3>1, <3>2, <4>1, <5>2, <6>3 DEF AtSeat
        <5> QED
          BY <5>1, <5>2
      <4> QED
        BY <4>2, <4>3
    <3> QED
      BY <3>3, <3>4
  <2> QED
    BY <2>1 DEF Seated, AtSeat, RoomIds
<1> QED
  BY <1>9, <1>10, <1>11, <1>12, <1>13, <1>14 DEF IInv, ConnsOk
-----------------------------------------------------------------------------
(* finish: the match is over, its name stays until onEnded. *)
LEMMA MatchEnds ==
  ASSUME IInv, NEW i \in RoomIds, room[i].status = "active", finish(i), UNCHANGED <<waiting, challenge, userRooms>>
  PROVE  IInv'
<1> DEFINE name == room[i].name
           cs == [c \in Conns |-> IF conn[c].room = i THEN [conn[c] EXCEPT !.room = Over] ELSE conn[c]]
<1>1. /\ room' = [room EXCEPT ![i] = NotStarted] /\ ended' = {name} /\ rooms' = [rooms EXCEPT ![name] = 0]
      /\ conn' = cs
  BY DEF finish
<1>2. /\ RoomsTyped /\ InCourse /\ Named /\ Indexed /\ Ends
      /\ conn \in [Conns -> Connections] /\ waiting \in Conns \cup {None} /\ challenge \in Invitations
      /\ OfUsers(conn) /\ Known(conn, waiting, challenge, {}) /\ Waits(conn, waiting, challenge) /\ Seated(conn)
  BY DEF IInv, RoomsOk, ConnsOk, ConnsTyped
<1>3. NotStarted \in Matches /\ NotStarted.status = "unused"
  BY DEF NotStarted, Matches, NoName, Names, Ids, Sides
<1>4. Over \in 0 .. Over /\ Over # 0 /\ Over \notin RoomIds /\ i # 0
  BY GatewayAssumption DEF Over, RoomIds
<1>5. /\ room' \in [RoomIds -> Matches] /\ room'[i] = NotStarted /\ \A j \in RoomIds \ {i} : room'[j] = room[j]
  BY <1>1, <1>2, <1>3 DEF RoomsTyped
<1>6. name \in DOMAIN rooms /\ rooms[name] = i
  BY <1>2 DEF InCourse
<1> HIDE DEF name
<1>7. /\ DOMAIN rooms' = DOMAIN rooms /\ rooms' \in [DOMAIN rooms -> RoomIds \cup {0}] /\ rooms'[name] = 0
      /\ \A n \in DOMAIN rooms \ {name} : rooms'[n] = rooms[n]
  BY <1>1, <1>2, <1>6 DEF RoomsTyped
<1>8. /\ cs \in [Conns -> Connections]
      /\ \A c \in Conns : /\ cs[c].user = conn[c].user /\ cs[c].socket = conn[c].socket
                          /\ cs[c].room = IF conn[c].room = i THEN Over ELSE conn[c].room
  BY <1>2, <1>4 DEF Connections
<1> HIDE DEF cs
<1>9. \A n \in DOMAIN rooms \ {name} : rooms[n] # 0 => rooms[n] \in RoomIds \ {i}
  BY <1>2 DEF RoomsTyped, Named, name
<1>10. RoomsTyped'
  BY <1>2, <1>5, <1>7 DEF RoomsTyped, Matches, Names, Ids, RoomIds, NoName, Sides
<1>11. InCourse'
  <2>1. ASSUME NEW j \in RoomIds
        PROVE  /\ room'[j].status = "unused" => room'[j] = NotStarted
               /\ room'[j].status = "active" =>
                    /\ room'[j].user["white"] # room'[j].user["black"]
                    /\ room'[j].name \in DOMAIN rooms' /\ rooms'[room'[j].name] = j
                    /\ \A v \in Users : Plays(room'[j], v) => userRooms[v] = room'[j].name
                    /\ \A t \in Sides : /\ room'[j].seat[t] \in Conns => room'[j].user[t] \in Users
                                        /\ room'[j].seat[t] = BotSeat => room'[j].user[t] = Nobody
    BY <1>2, <1>3, <1>5, <1>6, <1>7 DEF InCourse
  <2> QED
    BY <2>1 DEF InCourse, RoomIds, Plays, NotStarted, NoName, Sides
<1>12. Named'
  BY <1>2, <1>5, <1>7, <1>9 DEF Named
<1>13. Indexed'
  <2>1. \A v \in Users : userRooms[v] # NoName =>
          userRooms[v] \in DOMAIN rooms' /\ (rooms'[userRooms[v]] # 0 => Plays(room'[rooms'[userRooms[v]]], v))
    BY <1>2, <1>5, <1>7, <1>9 DEF Indexed
  <2> QED
    BY <2>1 DEF Indexed, Plays, NoName
<1>14. Ends'
  BY <1>1, <1>6, <1>7 DEF Ends
<1>15. ConnsTyped(conn, waiting, challenge)'
  BY <1>1, <1>2, <1>8 DEF ConnsTyped, Connections, Invitations, Over
<1>16. OfUsers(conn)'
  <2>1. \A d \in Conns : /\ cs[d].socket = "unused" => cs[d].room = 0
                         /\ cs[d].socket # "unused" => cs[d].user \in Users
                         /\ cs[d].room \in RoomIds => room'[cs[d].room].status = "active" /\ Plays(room'[cs[d].room], cs[d].user)
    BY <1>2, <1>4, <1>5, <1>8 DEF OfUsers
  <2> QED
    BY <1>1, <2>1 DEF OfUsers, Plays, RoomIds
<1>17. Known(conn, waiting, challenge, {})'
  <2>1. ASSUME NEW d \in Conns, cs[d].socket = "open", d # waiting, d # challenge.slot
        PROVE  cs[d].room # 0 /\ (cs[d].room \in RoomIds => \E s \in Sides : room'[cs[d].room].seat[s] = d)
    BY <1>2, <1>4, <1>5, <1>8, <2>1 DEF Known
  <2> QED
    BY <1>1, <2>1 DEF Known, RoomIds
<1>18. Waits(conn, waiting, challenge)'
  <2>1. \A v : InNoMatch(v) => \A j \in RoomIds : room'[j].status = "active" => ~Plays(room'[j], v)
    BY <1>3, <1>5 DEF InNoMatch
  <2>2. \A d \in Conns : Wait(conn, d) => /\ cs[d].socket = "open" /\ cs[d].room = 0 /\ cs[d].user = conn[d].user
                                          /\ \A j \in RoomIds : room'[j].status = "active" => ~Plays(room'[j], cs[d].user)
    BY <1>4, <1>8, <2>1 DEF Wait
  <2>3. \A d \in Conns : Wait(conn, d) => Wait(conn, d)' /\ conn'[d].user = conn[d].user
    BY <1>1, <2>2 DEF Wait, InNoMatch, Plays, RoomIds
  <2>4. /\ waiting # None => waiting \in Conns /\ Wait(conn, waiting)
        /\ challenge.slot # None => challenge.slot \in Conns /\ Wait(conn, challenge.slot)
                                    /\ conn[challenge.slot].user \in {challenge.from, challenge.to}
        /\ waiting # None /\ challenge.slot # None => conn[waiting].user # conn[challenge.slot].user
    BY <1>2 DEF Waits, Invitations
  <2> QED
    BY <1>1, <2>3, <2>4 DEF Waits
<1>19. Seated(conn)'
  <2>1. ASSUME NEW j \in RoomIds, room'[j].status = "active", NEW s \in Sides, NEW d \in Conns, d = room'[j].seat[s]
        PROVE  \/ /\ cs[d].socket = "open" /\ cs[d].room = j /\ cs[d].user = room'[j].user[s]
                  /\ room'[j].user[s] \notin room'[j].absent
               \/ cs[d].socket = "unused" /\ room'[j].user[s] \in room'[j].absent
    <3>1. j # i /\ room'[j] = room[j]
      BY <1>3, <1>5, <2>1
    <3>2. AtSeat(conn, j, s)
      BY <1>2, <2>1, <3>1 DEF Seated
    <3> QED
      BY <1>8, <2>1, <3>1, <3>2 DEF AtSeat
  <2> QED
    BY <1>1, <2>1 DEF Seated, AtSeat, RoomIds
<1> QED
  BY <1>10, <1>11, <1>12, <1>13, <1>14, <1>15, <1>16, <1>17, <1>18, <1>19 DEF IInv, ConnsOk, RoomsOk

(* onEnded: the match leaves the map and the index; its name is free. *)
LEMMA NameForgotten ==
  ASSUME IInv, NEW name \in ended, onEnded(name)
  PROVE  IInv'
<1>1. /\ ended' = ended \ {name} /\ rooms' = [n \in DOMAIN rooms \ {name} |-> rooms[n]]
      /\ userRooms' = [u \in Users |-> IF userRooms[u] = name THEN NoName ELSE userRooms[u]]
      /\ UNCHANGED <<conn, waiting, challenge, room>>
  BY DEF onEnded
<1>2. RoomsTyped /\ InCourse /\ Named /\ Indexed /\ Ends /\ ConnsOk(conn, waiting, challenge, {})
  BY DEF IInv, RoomsOk
<1>3. name \in DOMAIN rooms /\ rooms[name] = 0 /\ name # NoName
  BY <1>2 DEF Ends, RoomsTyped
<1>4. /\ DOMAIN rooms' = DOMAIN rooms \ {name} /\ \A n \in DOMAIN rooms \ {name} : rooms'[n] = rooms[n]
  BY <1>1
<1>5. NoName \in Names
  BY DEF NoName, Names, Ids
<1>6. userRooms' \in [Users -> Names] /\ \A u \in Users : userRooms'[u] = IF userRooms[u] = name THEN NoName ELSE userRooms[u]
  BY <1>1, <1>2, <1>5 DEF RoomsTyped
<1>7. \A j \in RoomIds : room[j].status = "active" => room[j].name # name
  BY <1>2, <1>3 DEF InCourse, RoomIds
<1>8. RoomsTyped'
  <2>1. rooms' \in [DOMAIN rooms' -> RoomIds \cup {0}]
    BY <1>1, <1>2 DEF RoomsTyped
  <2> QED
    BY <1>1, <1>2, <1>4, <1>6, <2>1 DEF RoomsTyped, Matches, Names, Ids, RoomIds, NoName, Sides
<1>9. InCourse'
  <2>1. ASSUME NEW j \in RoomIds
        PROVE  /\ room[j].status = "unused" => room[j] = NotStarted
               /\ room[j].status = "active" =>
                    /\ room[j].user["white"] # room[j].user["black"]
                    /\ room[j].name \in DOMAIN rooms' /\ rooms'[room[j].name] = j
                    /\ \A v \in Users : Plays(room[j], v) => userRooms'[v] = room[j].name
                    /\ \A t \in Sides : /\ room[j].seat[t] \in Conns => room[j].user[t] \in Users
                                        /\ room[j].seat[t] = BotSeat => room[j].user[t] = Nobody
    BY <1>2, <1>4, <1>6, <1>7 DEF InCourse
  <2> QED
    BY <1>1, <2>1 DEF InCourse, RoomIds, Plays, NotStarted, NoName, Sides
<1>10. Named' /\ Ends'
  BY <1>1, <1>2, <1>4 DEF Named, Ends
<1>11. Indexed'
  <2>1. \A v \in Users : userRooms'[v] # NoName =>
          userRooms'[v] \in DOMAIN rooms' /\ (rooms'[userRooms'[v]] # 0 => Plays(room[rooms'[userRooms'[v]]], v))
    BY <1>2, <1>4, <1>6 DEF Indexed
  <2> QED
    BY <1>1, <2>1 DEF Indexed, Plays, NoName
<1>12. ConnsOk(conn', waiting', challenge', {})
  BY <1>1, <1>2
<1> QED
  BY <1>1, <1>8, <1>9, <1>10, <1>11, <1>12, SameRooms DEF IInv, RoomsOk

(* restart: the sockets of a match are cut, its seats wait for the players. *)
LEMMA MatchRestored ==
  ASSUME IInv, NEW i \in RoomIds, restart(i)
  PROVE  IInv'
<1> DEFINE cut == {room[i].seat[s] : s \in Sides} \cap Conns
           fresh == [user |-> Nobody, socket |-> "unused", room |-> 0]
           none == Pair(None, None)
           r == [room[i] EXCEPT !.seat = none]
<1>1. /\ room[i].status = "active" /\ conn' = [c \in Conns |-> IF c \in cut THEN fresh ELSE conn[c]]
      /\ room' = [room EXCEPT ![i].seat = none]
      /\ UNCHANGED <<waiting, challenge, ended, rooms, userRooms>>
  BY DEF restart, Running, Fresh
<1>2. /\ RoomsTyped /\ InCourse
      /\ conn \in [Conns -> Connections] /\ waiting \in Conns \cup {None} /\ challenge \in Invitations
      /\ OfUsers(conn) /\ Known(conn, waiting, challenge, {}) /\ Waits(conn, waiting, challenge) /\ Seated(conn)
  BY DEF IInv, RoomsOk, ConnsOk, ConnsTyped
<1>3. none \in [Sides -> Conns \cup {None, BotSeat}] /\ \A s \in Sides : none[s] = None
  BY DEF Pair
<1> HIDE DEF none
<1>4. /\ r \in Matches /\ r.status = room[i].status /\ r.name = room[i].name /\ r.user = room[i].user
      /\ r.absent = room[i].absent /\ r.seat = none
  <2>1. room[i] \in Matches
    BY <1>2 DEF RoomsTyped
  <2> QED
    BY <1>3, <2>1 DEF Matches
<1>5. room' \in [RoomIds -> Matches] /\ room'[i] = r /\ \A j \in RoomIds \ {i} : room'[j] = room[j]
  <2>1. room' = [room EXCEPT ![i] = r]
    BY <1>1
  <2> HIDE DEF r
  <2> QED
    BY <1>2, <1>4, <2>1 DEF RoomsTyped
<1> HIDE DEF r
<1>6. fresh \in Connections /\ fresh.socket = "unused" /\ fresh.room = 0
  BY GatewayAssumption DEF Connections, Over
<1> HIDE DEF fresh
<1>7. conn' \in [Conns -> Connections] /\ \A c \in Conns : conn'[c] = IF c \in cut THEN fresh ELSE conn[c]
  BY <1>1, <1>2, <1>6
<1>8. SamePlayers /\ \A j \in RoomIds : room[j].status = "unused" => room'[j] = room[j]
  BY <1>1, <1>4, <1>5 DEF SamePlayers
<1>9. /\ RoomsOk'
      /\ \A j \in RoomIds : \A v : Plays(room'[j], v) <=> Plays(room[j], v)
      /\ \A d \in Conns : Wait(conn, d) /\ conn'[d] = conn[d] => Wait(conn, d)'
  <2>1. \A j \in RoomIds : \A s \in Sides : room'[j].seat[s] = room[j].seat[s] \/ room'[j].seat[s] = None
    BY <1>3, <1>4, <1>5
  <2> QED
    BY <1>1, <1>5, <1>8, <2>1, PlayersStay
<1>10. \A d \in cut : d \in Conns /\ \E s \in Sides : room[i].seat[s] = d /\ AtSeat(conn, i, s)
  BY <1>1, <1>2 DEF Seated
<1>11. \A d \in cut : conn[d].socket = "unused" \/ (conn[d].socket = "open" /\ conn[d].room = i)
  BY <1>10 DEF AtSeat
<1>12. ConnsTyped(conn, waiting, challenge)'
  BY <1>1, <1>2, <1>7 DEF ConnsTyped, Connections, Invitations, Over
<1>13. OfUsers(conn)'
  <2>1. ASSUME NEW d \in Conns
        PROVE  /\ conn'[d].socket = "unused" => conn'[d].room = 0
               /\ conn'[d].socket # "unused" => conn'[d].user \in Users
               /\ conn'[d].room \in RoomIds => room'[conn'[d].room].status = "active" /\ Plays(room'[conn'[d].room], conn'[d].user)
    <3>1. CASE d \in cut
      BY <1>6, <1>7, <3>1 DEF RoomIds
    <3>2. CASE d \notin cut
      <4>1. conn'[d] = conn[d]
        BY <1>7, <3>2
      <4>2. /\ conn[d].socket = "unused" => conn[d].room = 0
            /\ conn[d].socket # "unused" => conn[d].user \in Users
            /\ conn[d].room \in RoomIds => room[conn[d].room].status = "active" /\ Plays(room[conn[d].room], conn[d].user)
        BY <1>2 DEF OfUsers
      <4>3. \A j \in RoomIds : room'[j].status = room[j].status
        BY <1>8 DEF SamePlayers
      <4> QED
        BY <1>9, <4>1, <4>2, <4>3
    <3> QED
      BY <3>1, <3>2
  <2> QED
    BY <2>1 DEF OfUsers, Plays, RoomIds
<1>14. Known(conn, waiting, challenge, {})'
  <2>1. ASSUME NEW d \in Conns, conn'[d].socket = "open", d # waiting, d # challenge.slot
        PROVE  conn'[d].room # 0 /\ (conn'[d].room \in RoomIds => \E s \in Sides : room'[conn'[d].room].seat[s] = d)
    <3>1. d \notin cut /\ conn'[d] = conn[d]
      BY <1>6, <1>7, <2>1
    <3>2. conn[d].room # 0 /\ (conn[d].room \in RoomIds => \E s \in Sides : room[conn[d].room].seat[s] = d)
      BY <1>2, <2>1, <3>1 DEF Known
    <3>3. conn[d].room # i
      BY <3>1, <3>2
    <3> QED
      BY <1>5, <3>1, <3>2, <3>3
  <2> QED
    BY <1>1, <2>1 DEF Known, RoomIds
<1>15. Waits(conn, waiting, challenge)'
  <2>1. \A d \in Conns : Wait(conn, d) => conn'[d] = conn[d] /\ Wait(conn, d)'
    <3>1. i # 0
      BY DEF RoomIds
    <3>2. \A d \in Conns : Wait(conn, d) => d \notin cut
      BY <1>11, <3>1 DEF Wait
    <3> QED
      BY <1>7, <1>9, <3>2
  <2>2. /\ waiting # None => waiting \in Conns /\ Wait(conn, waiting)
        /\ challenge.slot # None => challenge.slot \in Conns /\ Wait(conn, challenge.slot)
    BY <1>2 DEF Waits, Invitations
  <2>3. /\ waiting # None => Wait(conn, waiting)' /\ conn'[waiting] = conn[waiting]
        /\ challenge.slot # None => Wait(conn, challenge.slot)' /\ conn'[challenge.slot] = conn[challenge.slot]
    BY <1>1, <2>1, <2>2 DEF Wait
  <2> QED
    BY <1>1, <1>2, <2>3 DEF Waits
<1>16. Seated(conn)'
  <2>1. ASSUME NEW j \in RoomIds, room'[j].status = "active", NEW s \in Sides, NEW d \in Conns, d = room'[j].seat[s]
        PROVE  \/ /\ conn'[d].socket = "open" /\ conn'[d].room = j /\ conn'[d].user = room'[j].user[s]
                  /\ room'[j].user[s] \notin room'[j].absent
               \/ conn'[d].socket = "unused" /\ room'[j].user[s] \in room'[j].absent
    <3>1. j # i /\ room'[j] = room[j]
      BY <1>3, <1>4, <1>5, <2>1, GatewayAssumption
    <3>2. AtSeat(conn, j, s)
      BY <1>2, <2>1, <3>1 DEF Seated
    <3>3. CASE d \notin cut
      BY <1>7, <2>1, <3>1, <3>2, <3>3 DEF AtSeat
    <3>4. CASE d \in cut
      BY <1>6, <1>7, <1>11, <2>1, <3>1, <3>2, <3>4 DEF AtSeat
    <3> QED
      BY <3>3, <3>4
  <2> QED
    BY <2>1 DEF Seated, AtSeat, RoomIds
<1> QED
  BY <1>9, <1>12, <1>13, <1>14, <1>15, <1>16 DEF IInv, ConnsOk
-----------------------------------------------------------------------------
(* A new connection, at any door. *)
LEMMA Arrived ==
  ASSUME IInv, ~OtherDoors, NEW u \in Users, NEW c \in Conns, onConnection(u, c)
  PROVE  IInv'
<1>1. Free(c) /\ ended' = ended
  BY DEF onConnection
<1>2. CASE tryReconnect(u, c)
  BY <1>1, <1>2, Reconnected
<1>3. CASE joinQueue(u, c)
  BY <1>1, <1>3, QueueJoined
<1>4. CASE joinChallenge(u, c)
  BY <1>1, <1>4, ChallengeJoined
<1>5. CASE joinBot(u, c)
  BY <1>1, <1>5, BotJoined
<1>6. CASE Refused(u, c)
  BY <1>1, <1>6, ConnectionRefused
<1> QED
  BY <1>2, <1>3, <1>4, <1>5, <1>6 DEF onConnection

(* A challenge is made, or it is declined, cancelled or expires. *)
LEMMA ChallengeMade ==
  ASSUME IInv, Challenges
  PROVE  IInv'
<1>1. /\ NoChallenge \in Invitations /\ NoChallenge.slot = None
      /\ \A from, to \in Users : LET ch == [from |-> from, to |-> to, slot |-> None] IN ch \in Invitations /\ ch.slot = None
  BY DEF NoChallenge, Invitations
<1>2. CASE closeChallenge
  BY <1>1, <1>2, ChallengeReplaced DEF closeChallenge
<1>3. ASSUME NEW from \in Users, NEW to \in Users, create(from, to)
      PROVE  IInv'
  BY <1>1, <1>3, ChallengeReplaced DEF create
<1> QED
  BY <1>2, <1>3 DEF Challenges

(* What a player, or the bot, does in a match ends it or goes on with it. *)
LEMMA MatchGoesOn ==
  ASSUME IInv, NEW i \in RoomIds, room[i].status = "active", NEW r \in Matches, GoesOn(i, r),
         r.status = "active", r.name = room[i].name, r.user = room[i].user,
         \A s \in Sides : r.seat[s] = room[i].seat[s] \/ (r.seat[s] = BotSeat /\ room[i].user[s] = Nobody),
         \A u \in Users : u \in r.absent <=> u \in room[i].absent,
         UNCHANGED <<waiting, challenge, userRooms>>
  PROVE  IInv'
BY MatchContinues DEF GoesOn

(* A move, an offer of a draw, the answer to one, or a resignation.        *)
LEMMA PlayersMessage ==
  ASSUME IInv, NEW i \in RoomIds, room[i].status = "active", NEW u \in Users \cup {Nobody},
         handleMove(i, u) \/ handleDrawOffer(i, u) \/ handleDrawResponse(i, u) \/ handleResign(i),
         UNCHANGED <<waiting, challenge, userRooms>>
  PROVE  IInv'
<1> DEFINE m == room[i]
           moved == [m EXCEPT !.turn = Other(ColorOf(i, u)), !.offer = Lapsed(m.offer, u)]
<1>1. CASE finish(i)
  BY <1>1, MatchEnds
<1>2. m \in Matches
  BY DEF IInv, RoomsOk, RoomsTyped
<1>3. CASE GoesOn(i, moved)
  <2>1. moved.offer = Lapsed(m.offer, u) /\ Lapsed(m.offer, u) \subseteq m.offer /\ Other(ColorOf(i, u)) \in Sides
    BY <1>2 DEF Lapsed, Other, Sides, Matches
  <2>2. moved \in Matches
    BY <1>2, <2>1 DEF Matches
  <2>3. /\ moved.status = "active" /\ moved.name = m.name /\ moved.user = m.user /\ moved.seat = m.seat
        /\ moved.absent = m.absent
    BY <1>2 DEF Matches
  <2> HIDE DEF moved
  <2> QED
    BY <1>3, <2>2, <2>3, MatchGoesOn
<1>4. ASSUME NEW S \in SUBSET (Users \cup {Nobody}), GoesOn(i, [m EXCEPT !.offer = S])
      PROVE  IInv'
  <2> DEFINE r == [m EXCEPT !.offer = S]
  <2>1. /\ r \in Matches /\ r.status = "active" /\ r.name = m.name /\ r.user = m.user /\ r.seat = m.seat
        /\ r.absent = m.absent
    BY <1>2 DEF Matches
  <2>2. GoesOn(i, r)
    BY <1>4
  <2> HIDE DEF r
  <2> QED
    BY <2>1, <2>2, MatchGoesOn
<1> QED
  BY <1>1, <1>3, <1>4 DEF handleMove, handleDrawOffer, handleDrawResponse, handleResign

(* A message comes by a connection of a player, replaced or not.           *)
LEMMA FrameReceived ==
  ASSUME IInv, NEW c \in Conns, onFrame(c)
  PROVE  IInv'
<1>1. conn[c].room \in RoomIds /\ room[conn[c].room].status = "active" /\ conn[c].socket # "unused"
  BY DEF onFrame, Speaks, Running
<1>2. conn[c].user \in Users
  BY <1>1 DEF IInv, ConnsOk, OfUsers
<1> QED
  BY <1>1, <1>2, PlayersMessage DEF onFrame

(* The bot plays, leaves after a move, and comes back. *)
LEMMA BotDoes ==
  ASSUME IInv, NEW i \in RoomIds, BotActs(i) \/ BotReturns(i)
  PROVE  IInv'
<1> DEFINE m == room[i]
<1>1. m.status = "active" /\ UNCHANGED <<waiting, challenge, userRooms>>
  BY DEF BotActs, BotReturns, Running
<1>2. m \in Matches
  BY DEF IInv, RoomsOk, RoomsTyped
<1>3. CASE handleMove(i, Nobody) \/ handleDrawOffer(i, Nobody) \/ handleDrawResponse(i, Nobody)
  BY <1>1, <1>3, PlayersMessage
<1>4. CASE GoesOn(i, [m EXCEPT !.absent = m.absent \cup {Nobody}])
  <2> DEFINE r == [m EXCEPT !.absent = m.absent \cup {Nobody}]
  <2>1. /\ r \in Matches /\ r.status = "active" /\ r.name = m.name /\ r.user = m.user /\ r.seat = m.seat
        /\ r.absent = m.absent \cup {Nobody}
    BY <1>1, <1>2 DEF Matches
  <2>2. GoesOn(i, r)
    BY <1>4
  <2> HIDE DEF r
  <2> QED
    BY <1>1, <2>1, <2>2, MatchGoesOn, GatewayAssumption
<1>5. ASSUME NEW s \in Sides, m.user[s] = Nobody, GoesOn(i, [m EXCEPT !.seat[s] = BotSeat, !.absent = m.absent \ {Nobody}])
      PROVE  IInv'
  <2> DEFINE r == [m EXCEPT !.seat[s] = BotSeat, !.absent = m.absent \ {Nobody}]
  <2>1. m.seat \in [Sides -> Conns \cup {None, BotSeat}]
    BY <1>2 DEF Matches
  <2>2. [m.seat EXCEPT ![s] = BotSeat] \in [Sides -> Conns \cup {None, BotSeat}]
    BY <2>1
  <2>3. /\ r \in Matches /\ r.status = "active" /\ r.name = m.name /\ r.user = m.user
        /\ r.seat = [m.seat EXCEPT ![s] = BotSeat] /\ r.absent = m.absent \ {Nobody}
    BY <1>1, <1>2, <2>2 DEF Matches
  <2>4. \A t \in Sides : r.seat[t] = m.seat[t] \/ (r.seat[t] = BotSeat /\ m.user[t] = Nobody)
    BY <1>5, <2>1, <2>3
  <2>5. GoesOn(i, r)
    BY <1>5
  <2> HIDE DEF r
  <2> QED
    BY <1>1, <2>3, <2>4, <2>5, MatchGoesOn, GatewayAssumption
<1> QED
  BY <1>3, <1>4, <1>5 DEF BotActs, BotReturns

(* Nobody is absent from a place where no match is. *)
LEMMA NobodyCameBack ==
  ASSUME IInv, NEW i \in RoomIds, AbandonTimer(i)
  PROVE  IInv'
<1>1. room[i].absent # {} /\ finish(i) /\ UNCHANGED <<waiting, challenge, userRooms>>
  BY DEF AbandonTimer
<1>2. room[i].status = "active"
  BY <1>1 DEF IInv, RoomsOk, RoomsTyped, InCourse, NotStarted, Matches
<1> QED
  BY <1>1, <1>2, MatchEnds

(* At the start there is no match, and no connection.                      *)
LEMMA Initially ==
  ASSUME Init
  PROVE  IInv
<1>1. Fresh \in Connections /\ Fresh.socket = "unused" /\ Fresh.room = 0
  BY GatewayAssumption DEF Fresh, Connections, Over
<1>2. NoName \in Names /\ NoChallenge \in Invitations /\ NoChallenge.slot = None
  BY DEF NoName, Names, Ids, NoChallenge, Invitations
<1>3. NotStarted \in Matches /\ NotStarted.status = "unused"
  BY <1>2 DEF NotStarted, Matches, Sides
<1>4. DOMAIN rooms = {} /\ ended = {} /\ \A i \in RoomIds : room[i] = NotStarted
  BY DEF Init
<1>5. RoomsTyped
  BY <1>2, <1>3 DEF Init, RoomsTyped
<1>6. RoomsOk
  BY <1>3, <1>4, <1>5 DEF RoomsOk, InCourse, Named, Indexed, Ends, Init
<1>7. \A c \in Conns : conn[c] = Fresh
  BY DEF Init
<1>8. ConnsTyped(conn, waiting, challenge)
  BY <1>1, <1>2 DEF Init, ConnsTyped
<1>9. waiting = None /\ challenge.slot = None
  BY <1>2 DEF Init
<1>10. OfUsers(conn) /\ Known(conn, waiting, challenge, {}) /\ Waits(conn, waiting, challenge) /\ Seated(conn)
  BY <1>1, <1>3, <1>4, <1>7, <1>9 DEF OfUsers, Known, Waits, Seated, RoomIds
<1> QED
  BY <1>6, <1>8, <1>10 DEF IInv, ConnsOk

(* Every step of the gateway keeps the invariant.                          *)
LEMMA EveryStep ==
  ASSUME IInv, ~OtherDoors, [Next]_vars
  PROVE  IInv'
<1>1. CASE Connect
  BY <1>1, Arrived DEF Connect
<1>2. CASE Close
  BY <1>2, SocketClosed DEF Close
<1>3. CASE Challenges
  BY <1>3, ChallengeMade
<1>4. CASE Frame
  BY <1>4, FrameReceived DEF Frame
<1>5. CASE Timers
  BY <1>5, NobodyCameBack, BotDoes, MatchRestored DEF Timers
<1>6. CASE Removal
  BY <1>6, NameForgotten DEF Removal
<1>7. CASE UNCHANGED vars
  <2>1. UNCHANGED <<conn, waiting, challenge, room, ended, rooms, userRooms>>
    BY <1>7 DEF vars
  <2>2. RoomsOk'
    BY <2>1 DEF IInv, RoomsOk, RoomsTyped, InCourse, Named, Indexed, Ends, Plays, Matches, Names, Ids, RoomIds, NotStarted, NoName
  <2>3. ConnsOk(conn', waiting', challenge', {})
    BY <2>1 DEF IInv
  <2> QED
    BY <2>1, <2>2, <2>3, SameRooms DEF IInv
<1> QED
  BY <1>1, <1>2, <1>3, <1>4, <1>5, <1>6, <1>7 DEF Next
-----------------------------------------------------------------------------
(* What the invariant says of connections and of seats.                    *)

(* NoForgottenConnection follows from the invariant.                       *)
LEMMA KnownOf ==
  ASSUME IInv
  PROVE  NoForgottenConnection
<1>1. /\ conn \in [Conns -> Connections] /\ waiting \in Conns \cup {None} /\ challenge.slot \in Conns \cup {None}
      /\ Known(conn, waiting, challenge, {}) /\ Waits(conn, waiting, challenge)
  BY DEF IInv, ConnsOk, ConnsTyped, Invitations
<1>2. ASSUME NEW c \in Conns, Live(c)
      PROVE  \/ c = waiting \/ c = challenge.slot
             \/ conn[c].room # 0 /\ (Running(conn[c].room) => SeatOf(c) # {})
  <2>1. CASE c = waiting \/ c = challenge.slot
    BY <2>1
  <2>2. CASE conn[c].room # 0 /\ (conn[c].room \in RoomIds => \E s \in Sides : room[conn[c].room].seat[s] = c)
    BY <2>2 DEF Running, SeatOf
  <2> QED
    BY <1>1, <1>2, <2>1, <2>2 DEF Known, Live
<1>3. \A c \in {waiting, challenge.slot} \ {None} : Live(c)
  BY <1>1 DEF Waits, Wait, Live
<1> QED
  BY <1>2, <1>3 DEF NoForgottenConnection

(* AbsentAreTimed follows from the invariant.                              *)
LEMMA TimedAre ==
  ASSUME IInv
  PROVE  AbsentAreTimed
<1>1. \A i \in RoomIds : Running(i) => \A s \in Sides : room[i].seat[s] \in Conns => AtSeat(conn, i, s)
  BY DEF IInv, ConnsOk, Seated, Running
<1> QED
  BY <1>1 DEF AbsentAreTimed, AtSeat, Live

-----------------------------------------------------------------------------
(* The turn of a match goes over by a move, and by nothing else.           *)
TurnKept == \A i \in RoomIds : room[i].status = "active" /\ room'[i].status = "active" => room'[i].turn = room[i].turn
OfferOfMover == \A i \in RoomIds :
  room[i].status = "active" /\ room'[i].status = "active" /\ room'[i].turn # room[i].turn =>
    room'[i].offer \subseteq {room[i].user[room[i].turn]}

(* A step that changes one match keeps the turns, when that match keeps    *)
(* its own, ends, or was not in course.                                    *)
LEMMA OneTurnKept ==
  ASSUME IInv, NEW i \in RoomIds, NEW r, room' = [room EXCEPT ![i] = r],
         r.turn = room[i].turn \/ r.status = "unused" \/ room[i].status = "unused"
  PROVE  TurnKept
<1>1. room \in [RoomIds -> Matches]
  BY DEF IInv, RoomsOk, RoomsTyped
<1>2. room'[i] = r /\ \A j \in RoomIds \ {i} : room'[j] = room[j]
  BY <1>1
<1> QED
  BY <1>2 DEF TurnKept

(* A new connection gives the turn to nobody.                              *)
LEMMA ArrivalKeepsTurns ==
  ASSUME IInv, NEW u \in Users, NEW c \in Conns, onConnection(u, c)
  PROVE  TurnKept
<1>1. room \in [RoomIds -> Matches]
  BY DEF IInv, RoomsOk, RoomsTyped
<1>2. CASE room' = room
  BY <1>2 DEF TurnKept
<1>3. ASSUME CanStart, NEW cs, NEW name, NEW users, NEW seats, StartRoom(cs, name, users, seats)
      PROVE  TurnKept
  <2>1. NextRoom \in RoomIds /\ room[NextRoom].status = "unused"
    BY <1>3 DEF CanStart, NextRoom, Unused
  <2> QED
    BY <1>3, <2>1, OneTurnKept DEF StartRoom
<1>4. CASE tryReconnect(u, c)
  <2> DEFINE i == RoomNamed(userRooms[u])
             r == [room[i] EXCEPT !.seat = [room[i].seat EXCEPT ![ColorOf(i, u)] = c], !.absent = room[i].absent \ {u}]
  <2>1. i \in RoomIds /\ room' = [room EXCEPT ![i] = r]
    BY <1>4 DEF tryReconnect, CanReturn, inMatch, Running
  <2>2. r.turn = room[i].turn
    BY <1>1, <2>1 DEF Matches
  <2> HIDE DEF r, i
  <2> QED
    BY <2>1, <2>2, OneTurnKept
<1>5. CASE joinQueue(u, c) \/ joinChallenge(u, c) \/ joinBot(u, c) \/ Refused(u, c)
  BY <1>2, <1>3, <1>5 DEF joinQueue, joinChallenge, joinBot, Refused
<1> QED
  BY <1>4, <1>5 DEF onConnection

(* What is said in a match, or by its bot, by a player of the match.       *)
LEMMA SaidInMatch ==
  ASSUME IInv, NEW i \in RoomIds, room[i].status = "active", NEW u, Plays(room[i], u) \/ (u = Nobody /\ BotSides(i) # {}),
         handleMove(i, u) \/ handleDrawOffer(i, u) \/ handleDrawResponse(i, u) \/ handleResign(i)
  PROVE  OfferOfMover
<1> DEFINE m == room[i]
           moved == [m EXCEPT !.turn = Other(ColorOf(i, u)), !.offer = Lapsed(m.offer, u)]
<1>1. room \in [RoomIds -> Matches] /\ m \in Matches
  BY DEF IInv, RoomsOk, RoomsTyped
<1>2. TurnKept => OfferOfMover
  BY DEF TurnKept, OfferOfMover
<1>3. CASE finish(i)
  BY <1>2, <1>3, OneTurnKept DEF finish, NotStarted
<1>4. ASSUME NEW S, GoesOn(i, [m EXCEPT !.offer = S])
      PROVE  OfferOfMover
  BY <1>1, <1>2, <1>4, OneTurnKept DEF GoesOn, Matches
<1>5. CASE m.turn = ColorOf(i, u) /\ GoesOn(i, moved)
  <2>1. m.user["white"] = u \/ m.user["black"] = u
    <3>1. CASE u = Nobody /\ BotSides(i) # {}
      <4>1. \A s \in Sides : m.seat[s] = BotSeat => m.user[s] = Nobody
        BY DEF IInv, RoomsOk, InCourse
      <4> QED
        BY <3>1, <4>1 DEF BotSides, Sides
    <3> QED
      BY <3>1 DEF Plays
  <2>2. m.user[m.turn] = u
    BY <1>5, <2>1 DEF ColorOf
  <2>3. moved.offer \subseteq {u}
    BY <1>1 DEF Matches, Lapsed
  <2>4. room'[i] = moved /\ \A j \in RoomIds \ {i} : room'[j] = room[j]
    BY <1>1, <1>5 DEF GoesOn
  <2> HIDE DEF moved
  <2> QED
    BY <2>2, <2>3, <2>4 DEF OfferOfMover
<1> QED
  BY <1>3, <1>4, <1>5 DEF handleMove, handleDrawOffer, handleDrawResponse, handleResign

(* No step but a move gives the turn, and after one only an offer of the   *)
(* mover may stand.                                                        *)
LEMMA OffersStep ==
  ASSUME IInv, [Next]_vars
  PROVE  OfferOfMover
<1>1. room \in [RoomIds -> Matches]
  BY DEF IInv, RoomsOk, RoomsTyped
<1>2. TurnKept => OfferOfMover
  BY DEF TurnKept, OfferOfMover
<1>3. CASE room' = room
  BY <1>3 DEF OfferOfMover
<1>4. CASE Connect
  BY <1>2, <1>4, ArrivalKeepsTurns DEF Connect
<1>5. CASE Close
  <2> SUFFICES ASSUME NEW c \in Conns, leave(c)
               PROVE  OfferOfMover
    BY <1>5 DEF Close, onClose
  <2> DEFINE i == conn[c].room
             r == [room[i] EXCEPT !.absent = room[i].absent \cup {conn[c].user}]
  <2>1. room' = room \/ (i \in RoomIds /\ room' = [room EXCEPT ![i] = r])
    BY DEF leave, Running
  <2>2. i \in RoomIds => r.turn = room[i].turn
    BY <1>1 DEF Matches
  <2> HIDE DEF r, i
  <2> QED
    BY <1>2, <1>3, <2>1, <2>2, OneTurnKept
<1>6. CASE Challenges
  BY <1>3, <1>6 DEF Challenges, closeChallenge, create
<1>7. CASE Frame
  <2> SUFFICES ASSUME NEW c \in Conns, onFrame(c)
               PROVE  OfferOfMover
    BY <1>7 DEF Frame
  <2>1. conn[c].room \in RoomIds /\ room[conn[c].room].status = "active" /\ Plays(room[conn[c].room], conn[c].user)
    BY DEF onFrame, Speaks, Running, IInv, ConnsOk, OfUsers
  <2> QED
    BY <2>1, SaidInMatch DEF onFrame
<1>8. CASE Timers
  <2> SUFFICES ASSUME NEW i \in RoomIds, AbandonTimer(i) \/ BotActs(i) \/ BotReturns(i) \/ restart(i)
               PROVE  OfferOfMover
    BY <1>8 DEF Timers
  <2>1. CASE AbandonTimer(i)
    BY <1>2, <2>1, OneTurnKept DEF AbandonTimer, finish, NotStarted
  <2>2. CASE BotActs(i)
    <3>1. room[i].status = "active" /\ BotSides(i) # {}
      BY <2>2 DEF BotActs, Running
    <3>2. CASE handleMove(i, Nobody) \/ handleDrawOffer(i, Nobody) \/ handleDrawResponse(i, Nobody)
      BY <3>1, <3>2, SaidInMatch
    <3>3. CASE GoesOn(i, [room[i] EXCEPT !.absent = room[i].absent \cup {Nobody}])
      BY <1>1, <1>2, <3>3, OneTurnKept DEF GoesOn, Matches
    <3> QED
      BY <2>2, <3>2, <3>3 DEF BotActs
  <2>3. CASE BotReturns(i)
    <3> PICK s \in Sides : GoesOn(i, [room[i] EXCEPT !.seat[s] = BotSeat, !.absent = room[i].absent \ {Nobody}])
      BY <2>3 DEF BotReturns
    <3> DEFINE r == [room[i] EXCEPT !.seat[s] = BotSeat, !.absent = room[i].absent \ {Nobody}]
    <3>1. room' = [room EXCEPT ![i] = r]
      BY DEF GoesOn
    <3>2. r.turn = room[i].turn
      BY <1>1 DEF Matches
    <3> HIDE DEF r
    <3> QED
      BY <1>2, <3>1, <3>2, OneTurnKept
  <2>4. CASE restart(i)
    <3>1. room' = [room EXCEPT ![i] = [room[i] EXCEPT !.seat = Pair(None, None)]]
      BY <2>4 DEF restart
    <3> QED
      BY <1>1, <1>2, <3>1, OneTurnKept DEF Matches
  <2> QED
    BY <2>1, <2>2, <2>3, <2>4
<1>9. CASE Removal
  BY <1>3, <1>9 DEF Removal, onEnded
<1>10. CASE UNCHANGED vars
  BY <1>3, <1>10 DEF vars
<1> QED
  BY <1>4, <1>5, <1>6, <1>7, <1>8, <1>9, <1>10 DEF Next
-----------------------------------------------------------------------------
(* An open connection waits, or has its seat, and only open ones wait.     *)
THEOREM NoneForgotten ==
  ASSUME ~OtherDoors
  PROVE  Spec => []NoForgottenConnection
<1>1. Init => IInv
  BY Initially
<1>2. IInv /\ [Next]_vars => IInv'
  BY EveryStep
<1>3. IInv => NoForgottenConnection
  BY KnownOf
<1> QED
  BY <1>1, <1>2, <1>3, PTL DEF Spec

(* A player without a connection is timed, one at the seat is not.         *)
THEOREM AbsentTimed ==
  ASSUME ~OtherDoors
  PROVE  Spec => []AbsentAreTimed
<1>1. Init => IInv
  BY Initially
<1>2. IInv /\ [Next]_vars => IInv'
  BY EveryStep
<1>3. IInv => AbsentAreTimed
  BY TimedAre
<1> QED
  BY <1>1, <1>2, <1>3, PTL DEF Spec

(* After a move only an offer of the one who moved may stand.              *)
THEOREM OffersLapse ==
  ASSUME ~OtherDoors
  PROVE  Spec => OfferLapses
<1>1. Init => IInv
  BY Initially
<1>2. IInv /\ [Next]_vars => IInv'
  BY EveryStep
<1>3. IInv /\ [Next]_vars =>
        [\A i \in RoomIds : (Running(i) /\ room'[i].status = "active" /\ room'[i].turn # room[i].turn) =>
           room'[i].offer \subseteq {room[i].user[room[i].turn]}]_vars
  BY OffersStep DEF OfferOfMover, Running
<1> QED
  BY <1>1, <1>2, <1>3, PTL DEF Spec, OfferLapses
===============================================================================

-------------------------------- MODULE Social --------------------------------
(***************************************************************************)
(* Friends, blocks, presence and challenges before they are taken up: the  *)
(* handlers of the REST server (rest/friends.ts, store/friends.ts,         *)
(* store/challenges.ts, app.ts), one at a time, what the screens offer of  *)
(* them (Friends.tsx, HomeCards.tsx, PlayerProfile.tsx, AddOpponent.tsx,   *)
(* Settings.tsx), and the presence of one device (presence.ts,             *)
(* ChallengeBanner.tsx), whose requests overtake one another on the way.   *)
(***************************************************************************)
EXTENDS Naturals, FiniteSets

CONSTANTS People, Me,     \* Me is the user of the device
          AllFriends,     \* whoever is not blocked may be challenged
          MaxFriends,     \* MAX_FRIENDS_PER_USER
          MaxPendingOut,  \* MAX_PENDING_OUT
          MaxHandled,     \* bound: requests that change something in the server
          MaxSignals      \* bound: presence signals of the device

VARIABLES links,      \* of friendship, asked for or accepted
          blocks,     \* <<blocker, blocked>>
          gone,       \* users deleted
          hidden,     \* users with hidePresence
          seen,       \* users heard of lately
          playing,    \* users in a match
          challenges, \* open
          signals,    \* presence signals sent by the device: [1..n -> where it is]
          incoming,   \* challenges shown
          dismissed,  \* challenges answered here, not to be shown
          answered,   \* ghost: every challenge answered here
          latest,     \* ghost: the latest answer read, in the order the server gave them
          overtaken,  \* ghost: an answer was read after a later one
          left        \* what the bounds still allow
server == <<links, blocks, gone, hidden, seen, playing, challenges>>
device == <<signals, incoming, dismissed, answered, latest, overtaken>>
vars == <<server, device, left>>

link(a, b) == {l \in links : {l.requester, l.addressee} = {a, b}}
linksOf(u) == {l \in links : u \in {l.requester, l.addressee}}
IsAccepted(a, b) == \E l \in link(a, b) : l.status = "accepted"
Pending(a, b) == \E l \in link(a, b) : l.status = "pending" /\ l.requester = a
hiddenFor(u) == {v \in People : {<<u, v>>, <<v, u>>} \cap blocks # {}}
findById(u) == u \notin gone
friendsOf(u) == {v \in People : v # u /\ IsAccepted(u, v)}
pendingOut(u) == {v \in People : v # u /\ Pending(u, v)}
isFriend(a, b) == a # b /\ b \notin hiddenFor(a) /\ (AllFriends \/ IsAccepted(a, b))
inMatch(u) == u \in playing
challengesBetween(a, b) == {c \in challenges : {c.from, c.to} = {a, b}}
challengesOf(u) == {c \in challenges : u \in {c.from, c.to}}

(***************************************************************************)
(* What each request is answered, and what it does when it is "ok".        *)
(***************************************************************************)
RequestOutcome(me, to) ==
  IF to = me THEN "self"
  ELSE IF ~findById(to) \/ to \in hiddenFor(me) THEN "no_player"
  ELSE IF IsAccepted(me, to) THEN "already"
  ELSE IF Pending(me, to) THEN "pending"
  ELSE IF Cardinality(friendsOf(me)) >= MaxFriends THEN "limit"
  ELSE IF Cardinality(friendsOf(to)) >= MaxFriends THEN "their_limit"
  ELSE IF ~Pending(to, me) /\ Cardinality(pendingOut(me)) >= MaxPendingOut THEN "pending_limit"
  ELSE "ok"
(* Mutant: accepting looks at one's own limit alone.                       *)
AcceptOutcomeOwnLimit(me, other) ==
  IF ~Pending(other, me) THEN "absent" ELSE IF Cardinality(friendsOf(me)) >= MaxFriends THEN "limit" ELSE "ok"
AcceptOutcome(me, other) ==
  IF ~Pending(other, me) THEN "absent"
  ELSE IF Cardinality(friendsOf(me)) >= MaxFriends THEN "limit"
  ELSE IF Cardinality(friendsOf(other)) >= MaxFriends THEN "their_limit"
  ELSE "ok"
DeleteOutcome(me, other, status) == IF \E l \in link(me, other) : l.status = status THEN "ok" ELSE "absent"
BlockOutcome(me, target) == IF target = me THEN "self" ELSE IF ~findById(target) THEN "no_player" ELSE "ok"
UnblockOutcome(me, target) == IF <<me, target>> \in blocks THEN "ok" ELSE "absent"
ChallengeOutcome(self, to) ==
  IF to = self THEN "self"
  ELSE IF ~isFriend(self, to) \/ ~findById(to) THEN "no_player"
  ELSE IF ~findById(self) THEN "error"
  ELSE IF inMatch(self) THEN "self_busy"
  ELSE IF to \in hidden THEN "offline"
  ELSE IF inMatch(to) THEN "busy"
  ELSE IF to \notin seen THEN "offline"
  ELSE "ok"

Handled(u) ==
  /\ left.handled > 0 /\ left' = [left EXCEPT !.handled = @ - 1]
  /\ u \notin gone
  /\ UNCHANGED device
Accepted(from, to) == (links \ link(from, to)) \cup {[requester |-> from, addressee |-> to, status |-> "accepted"]}

request(me, to) ==
  /\ RequestOutcome(me, to) = "ok"
  /\ links' = IF Pending(to, me) THEN Accepted(to, me)
              ELSE links \cup {[requester |-> me, addressee |-> to, status |-> "pending"]}
  /\ UNCHANGED <<blocks, gone, hidden, seen, playing, challenges>>
accept(me, other) ==
  /\ AcceptOutcome(me, other) = "ok" /\ links' = Accepted(other, me)
  /\ UNCHANGED <<blocks, gone, hidden, seen, playing, challenges>>
deleteLink(me, other) ==
  /\ \E status \in {"pending", "accepted"} : DeleteOutcome(me, other, status) = "ok"
  /\ links' = links \ link(me, other)
  /\ UNCHANGED <<blocks, gone, hidden, seen, playing, challenges>>
block(me, target) ==
  /\ BlockOutcome(me, target) = "ok"
  /\ blocks' = blocks \cup {<<me, target>>}
  /\ links' = links \ link(me, target)
  /\ challenges' = challenges \ challengesBetween(me, target)
  /\ UNCHANGED <<gone, hidden, seen, playing>>
unblock(me, target) ==
  /\ UnblockOutcome(me, target) = "ok" /\ blocks' = blocks \ {<<me, target>>}
  /\ UNCHANGED <<links, gone, hidden, seen, playing, challenges>>
createChallenge(self, to) ==
  /\ ChallengeOutcome(self, to) = "ok"
  /\ challenges' = {c \in challenges : c.from # self} \cup {[id |-> left.handled, from |-> self, to |-> to]}
  /\ seen' = seen \cup {self}
  /\ UNCHANGED <<links, blocks, gone, hidden, playing>>
deleteChallenge(self, c) ==
  /\ self \in {c.from, c.to}
  /\ challenges' = challenges \ {c}
  /\ UNCHANGED <<links, blocks, gone, hidden, seen, playing>>
updatePrivacy(u) ==
  /\ hidden' = (hidden \ {u}) \cup ({u} \ hidden)
  /\ UNCHANGED <<links, blocks, gone, seen, playing, challenges>>
deleteAccount(u) ==
  /\ ~inMatch(u)
  /\ links' = links \ linksOf(u)
  /\ blocks' = {b \in blocks : u \notin {b[1], b[2]}}
  /\ challenges' = challenges \ challengesOf(u)
  /\ seen' = seen \ {u} /\ hidden' = hidden \cup {u} /\ gone' = gone \cup {u}
  /\ UNCHANGED playing

(* Matches start, from a challenge or elsewhere, and end: the gateway's.   *)
matchStarted(a, b) ==
  /\ {a, b} \cap playing = {}
  /\ playing' = playing \cup {a, b}
  /\ challenges' = challenges \ (challengesOf(a) \cup challengesOf(b))
  /\ UNCHANGED <<links, blocks, gone, hidden, seen>>
matchEnded(a) ==
  /\ a \in playing /\ playing' = playing \ {a}
  /\ UNCHANGED <<links, blocks, gone, hidden, seen, challenges>>
Touch(u) == u \notin seen /\ seen' = seen \cup {u} /\ UNCHANGED <<links, blocks, gone, hidden, playing, challenges>>
Fade(u) == u \in seen /\ seen' = seen \ {u} /\ UNCHANGED <<links, blocks, gone, hidden, playing, challenges>>
expireChallenge ==
  /\ left.handled > 0 /\ left' = [left EXCEPT !.handled = @ - 1]
  /\ \E c \in challenges : challenges' = challenges \ {c}
  /\ UNCHANGED <<links, blocks, gone, hidden, seen, playing, device>>

Handlers(u) ==
  /\ Handled(u)
  /\ \/ \E v \in People \ {u} : \/ request(u, v) \/ accept(u, v) \/ deleteLink(u, v) \/ block(u, v) \/ unblock(u, v)
                                \/ createChallenge(u, v) \/ (v \notin gone /\ matchStarted(u, v))
     \/ \E c \in challenges : deleteChallenge(u, c)
     \/ updatePrivacy(u) \/ deleteAccount(u) \/ matchEnded(u) \/ Touch(u) \/ Fade(u)

(***************************************************************************)
(* What the screens offer of another user, from a list just read.          *)
(***************************************************************************)
statusOf(u) == IF u \in hidden THEN "offline" ELSE IF u \in playing THEN "playing" ELSE IF u \in seen THEN "online" ELSE "offline"
relationTo(me, u) ==
  IF IsAccepted(me, u) THEN "friend" ELSE IF Pending(u, me) THEN "incoming" ELSE IF Pending(me, u) THEN "outgoing" ELSE "none"
others(me) == IF AllFriends THEN {u \in People \ (gone \cup {me}) : link(me, u) = {} /\ u \notin hiddenFor(me)} ELSE {}
challengeable(me) == friendsOf(me) \cup others(me)
search(me) == People \ (gone \cup {me} \cup hiddenFor(me))
(* The status is known of those in the list; the relation too, else none.  *)
relationOf(me, u) ==
  [relation |-> relationTo(me, u), status |-> IF link(me, u) # {} \/ u \in others(me) THEN statusOf(u) ELSE "unknown"]

canChallenge(me) == ~inMatch(me)
FriendRow(me, u) == IF statusOf(u) = "online" /\ canChallenge(me) THEN {"challenge"} ELSE {}
RelationAction(relation) ==
  CASE relation = "friend" -> {} [] relation = "outgoing" -> {"cancel"} [] relation = "incoming" -> {"accept", "decline"} [] OTHER -> {"request"}
Friends(me, u) ==
  (IF u \in challengeable(me) THEN FriendRow(me, u) ELSE {})
  \cup (IF link(me, u) # {} \/ u \in others(me) THEN RelationAction(relationTo(me, u)) ELSE {})
SearchResults(me, u) == IF u \in search(me) THEN RelationAction(relationTo(me, u)) ELSE {}
FriendsCard(me, u) == IF u \in challengeable(me) THEN FriendRow(me, u) ELSE {}
PlayerProfile(me, u) ==
  LET r == relationOf(me, u)
  IN  IF <<me, u>> \in blocks THEN {"unblock"}
      ELSE {"block"} \cup RelationAction(r.relation)
           \cup (IF r.status = "online" /\ canChallenge(me) THEN {"challenge"} ELSE {})
           \cup (IF r.relation = "friend" THEN {"remove"} ELSE {})
AddOpponent(me, u) ==
  LET r == relationOf(me, u)
  IN  CASE r.relation \in {"friend", "outgoing"} -> {} [] r.relation = "incoming" -> {"accept"} [] OTHER -> {"request"}
BlockedPlayers(me, u) == IF <<me, u>> \in blocks THEN {"unblock"} ELSE {}
OutcomeOf(action, me, u) ==
  CASE action = "request" -> RequestOutcome(me, u)
    [] action = "accept" -> AcceptOutcome(me, u)
    [] action \in {"cancel", "decline"} -> DeleteOutcome(me, u, "pending")
    [] action = "remove" -> DeleteOutcome(me, u, "accepted")
    [] action = "challenge" -> ChallengeOutcome(me, u)
    [] action = "block" -> BlockOutcome(me, u)
    [] action = "unblock" -> UnblockOutcome(me, u)

(***************************************************************************)
(* The presence of the device: a signal is sent every few seconds, when    *)
(* the page shows again and after a challenge; its answer brings the open  *)
(* challenges, as they were when the server saw it.                        *)
(***************************************************************************)
received == {c.id : c \in {d \in challenges : d.to = Me}}
sendPresence ==
  /\ left.signals > 0 /\ left' = [left EXCEPT !.signals = @ - 1]
  /\ Me \notin gone
  /\ signals' = [n \in DOMAIN signals \cup {Cardinality(DOMAIN signals) + 1} |->
                   IF n \in DOMAIN signals THEN signals[n] ELSE [at |-> "out", open |-> {}, stamp |-> 0]]
  /\ UNCHANGED <<server, incoming, dismissed, answered, latest, overtaken>>
presenceHandler(n) ==
  /\ signals[n].at = "out"
  /\ signals' = [signals EXCEPT ![n] = [at |-> "back", open |-> received, stamp |-> Cardinality({m \in DOMAIN signals : signals[m].stamp > 0}) + 1]]
  /\ seen' = seen \cup {Me}
  /\ UNCHANGED <<links, blocks, gone, hidden, playing, challenges, incoming, dismissed, answered, latest, overtaken, left>>
lose(n) ==
  /\ signals[n].at # "done"
  /\ signals' = [signals EXCEPT ![n].at = "done", ![n].open = {}]
  /\ UNCHANGED <<server, incoming, dismissed, answered, latest, overtaken, left>>
refresh(n) ==
  /\ signals[n].at = "back"
  /\ signals' = [signals EXCEPT ![n].at = "done", ![n].open = {}]
  /\ LET open == signals[n].open
     IN  dismissed' = dismissed \cap open /\ incoming' = open \ dismissed'
  /\ overtaken' = (overtaken \/ signals[n].stamp < latest)
  /\ latest' = IF signals[n].stamp > latest THEN signals[n].stamp ELSE latest
  /\ UNCHANGED <<server, answered, left>>
(* Accept, whose match starts when the socket is there, or decline, whose  *)
(* request is on its way; either may be lost.                              *)
dismiss(id) ==
  /\ id \in incoming /\ canChallenge(Me)
  /\ dismissed' = dismissed \cup {id} /\ incoming' = incoming \ {id}
  /\ answered' = answered \cup {id}
  /\ UNCHANGED <<server, signals, latest, overtaken, left>>

(* A user of before may have been asked already.                           *)
LinksAtFirst == {{}} \cup {{[requester |-> u, addressee |-> Me, status |-> "pending"]} : u \in People \ {Me}}
Init ==
  /\ links \in LinksAtFirst /\ blocks = {} /\ gone = {} /\ hidden = {} /\ seen = People /\ playing = {} /\ challenges = {}
  /\ signals = [n \in {} |-> [at |-> "done", open |-> {}, stamp |-> 0]]
  /\ incoming = {} /\ dismissed = {} /\ answered = {} /\ latest = 0 /\ overtaken = FALSE
  /\ left = [handled |-> MaxHandled, signals |-> MaxSignals]
Next ==
  \/ expireChallenge \/ sendPresence
  \/ \E u \in People : Handlers(u)
  \/ \E n \in DOMAIN signals : presenceHandler(n) \/ lose(n) \/ refresh(n)
  \/ \E id \in incoming : dismiss(id)
Spec == Init /\ [][Next]_vars
-----------------------------------------------------------------------------
(* Two users have one link at most, and none across a block; an open       *)
(* challenge is between two who are not blocked and do not play ("chi      *)
(* gioca non riceve sfide"); one who challenges has one challenge; nobody  *)
(* exceeds the limits, requests that cross and cancellations included; and *)
(* a deleted user has no links nor challenges.                             *)
SocialSound ==
  /\ \A u, v \in People : u # v =>
       /\ Cardinality(link(u, v)) <= 1
       /\ v \in hiddenFor(u) => link(u, v) = {} /\ challengesBetween(u, v) = {}
  /\ \A u \in People :
       /\ Cardinality(friendsOf(u)) <= MaxFriends /\ Cardinality(pendingOut(u)) <= MaxPendingOut
       /\ u \in playing => challengesOf(u) = {}
       /\ Cardinality({c \in challenges : c.from = u}) <= 1
  /\ \A u \in gone : linksOf(u) = {} /\ challengesOf(u) = {}

(* What the screens offer of a user, from a list just read, the server     *)
(* does not refuse, limits aside: no request to a friend or to one who     *)
(* asked or was asked already, no challenge to one who is hidden, away or  *)
(* playing.  Not so two buttons: the challenge that a profile offers of    *)
(* one who only asked, or was asked, to be a friend; and the request after *)
(* a match with one who is blocked.                                        *)
Limits == {"ok", "limit", "their_limit", "pending_limit"}
Offered(me, u) ==
  Friends(me, u) \cup SearchResults(me, u) \cup FriendsCard(me, u) \cup PlayerProfile(me, u) \cup BlockedPlayers(me, u)
  \cup (IF <<me, u>> \in blocks THEN {} ELSE AddOpponent(me, u))
OfferedIsAccepted ==
  \A me \in People \ gone : \A u \in People \ (gone \cup {me}) : <<u, me>> \notin blocks =>
     \A action \in Offered(me, u) :
        OutcomeOf(action, me, u) \in Limits \/ (action = "challenge" /\ relationTo(me, u) \in {"incoming", "outgoing"})

(* A challenge answered from here is not shown again, as long as answers   *)
(* are read in the order the server gave them.                             *)
AnsweredStaysAway == ~overtaken => incoming \cap answered = {}
=============================================================================

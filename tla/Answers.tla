-------------------------------- MODULE Answers --------------------------------
(***************************************************************************)
(* A page of the client and what it knows from the REST server: the hooks  *)
(* that ask for a list and show it (useFriends, useBlocks, useUserSearch,  *)
(* useCollection, useDecks, useLeaderboard, RecentGames, the catalog), the *)
(* adapter that reads the answers (adapter.ts, 5 and 7), the actions the   *)
(* entries offer, and the texts the server refuses with (serverTexts.ts).  *)
(*                                                                         *)
(* Requests under way answer in any order; one field of an answer may be   *)
(* other than the adapter expects, as in Wire.                             *)
(***************************************************************************)
EXTENDS Naturals, Texts

CONSTANTS Entries,        \* what the list of the page may hold
          NoEntry,
          MaxAsks,        \* bound: requests of the page for its list
          MaxListChanges, \* bound: changes of the list in the server, and of the actions
          MaxFailures     \* bound: answers damaged, refused or lost

VARIABLES page,    \* the page shown: never changes
          listed,  \* the list in the server: [Entries -> what each entry says, or Gone]
          asks,    \* the requests for the list whose answer is awaited: a set
          view,    \* the hook's state: [kind, items, query]
          query,   \* the text searched for
          act,     \* the action under way: [on, does, at, seen, text, items, damage]
          told,    \* the outcome of the last action as the page has it
          sent,    \* ghost: the list of the answer last applied, with its damage
          left     \* what the bounds still allow
vars == <<page, listed, asks, view, query, act, told, sent, left>>

Gone == "gone"
(* What an entry says, as far as an action depends on it.                  *)
Says ==
  [friends |-> {"online", "playing", "offline"}, search |-> {"none", "friend", "incoming", "outgoing"}, blocks |-> {"blocked"},
   collection |-> {"owned", "missing"}, decks |-> {"valid", "draft"}, leaderboard |-> {"ranked"}, games |-> {"played"},
   catalog |-> {"castable"}]
Pages == DOMAIN Says
Queries == {"", "a", "an", "ann"}
Empty == [e \in Entries |-> Gone]

(***************************************************************************)
(* How the adapter reads a field (zod's schemas), as Wire.Readers.         *)
(***************************************************************************)
Damages == {"odd", "bad", "null", "absent"}
Reading(odd, bad, null, absent) == [odd |-> odd, bad |-> bad, null |-> null, absent |-> absent]
Readers ==
  [required |-> Reading("refused", "refused", "refused", "refused"),  \* an id, a name, a number from a minimum up
   plain    |-> Reading("kept", "refused", "refused", "refused"),     \* any text, number or flag
   optional |-> Reading("refused", "refused", "refused", "ignored"),
   nullable |-> Reading("kept", "refused", "emptied", "emptied"),     \* a list whose entries are read apart, an optional list
   whole    |-> Reading("refused", "refused", "emptied", "emptied"),  \* a list whose entries must all be read
   nonNull  |-> Reading("refused", "refused", "emptied", "refused"),
   listed   |-> Reading("refused", "refused", "ignored", "ignored"),
   tagged   |-> Reading("repaired", "refused", "ignored", "ignored"),
   openEnum |-> Reading("repaired", "refused", "refused", "refused"),
   loose    |-> Reading("emptied", "emptied", "emptied", "emptied")]
F(name, reader) == [name |-> name, reader |-> reader]
normalizeFriendList ==
  [head |-> {F("friends", "nullable"), F("others", "nullable"), F("incoming", "nullable"), F("outgoing", "nullable"),
             F("online", "required"), F("max_friends", "optional")},
   entry |-> {F("id", "required"), F("username", "required"), F("elo", "plain"), F("status", "openEnum")}, apart |-> TRUE]
normalizeUserSearch ==
  [head |-> {F("data", "nullable")},
   entry |-> {F("id", "required"), F("username", "required"), F("elo", "plain"), F("relation", "openEnum")}, apart |-> TRUE]
normalizeBlocks == [head |-> {F("data", "whole")}, entry |-> {F("id", "required"), F("username", "required")}, apart |-> FALSE]
normalizeCollection ==
  [head |-> {F("cards", "nullable"), F("owned", "required"), F("total", "required")},
   entry |-> {F("spell_id", "required"), F("copies", "required"), F("max_copies", "required")}, apart |-> TRUE]
normalizeDeckList ==
  [head |-> {F("decks", "nullable"), F("max_decks", "required"), F("deck_size", "required")},
   entry |-> {F("id", "required"), F("name", "required"), F("cards", "whole"), F("size", "required"), F("valid", "plain"),
              F("active", "plain"), F("updated_at", "plain")}, apart |-> TRUE]
normalizeLeaderboard ==
  [head |-> {F("data", "whole")},
   entry |-> {F("rank", "plain"), F("id", "required"), F("username", "required"), F("elo", "plain")}, apart |-> FALSE]
normalizeGameHistory ==
  [head |-> {F("data", "whole")},
   entry |-> {F("id", "required"), F("white_id", "optional"), F("black_id", "optional"), F("rated", "optional"),
              F("white_deleted", "optional"), F("white_bot", "loose"), F("white", "plain"), F("result", "openEnum"),
              F("time_control", "plain"), F("pgn", "plain"), F("played_at", "plain")}, apart |-> FALSE]
(* The catalog never fails: what is not a list is an empty one.            *)
normalizeSpellCatalog ==
  [head |-> {F("spells", "loose")},
   entry |-> {F("id", "required"), F("name", "required"), F("mana_cost", "required"), F("phases", "required"),
              F("targets", "nonNull"), F("effects", "required"), F("tags", "listed"), F("rarity", "tagged"),
              F("limits", "listed")}, apart |-> TRUE]
Normalizers ==
  [friends |-> normalizeFriendList, search |-> normalizeUserSearch, blocks |-> normalizeBlocks, collection |-> normalizeCollection,
   decks |-> normalizeDeckList, leaderboard |-> normalizeLeaderboard, games |-> normalizeGameHistory, catalog |-> normalizeSpellCatalog]

(* One damaged field, of the answer itself or of one entry: what is made   *)
(* of it is all that tells one field from another.                         *)
Intact == [of |-> NoEntry, how |-> "kept"]
DamagesIn(fields, of) == {[of |-> of, how |-> Readers[f.reader][as]] : f \in fields, as \in Damages}
DamagesOf(items) ==
  DamagesIn(Normalizers[page].head, NoEntry) \cup UNION {DamagesIn(Normalizers[page].entry, e) : e \in {x \in Entries : items[x] # Gone}}
(* What an entry says when that very field is not understood: offline is   *)
(* not challenged, and an unknown relation is none.                        *)
Repaired(e, items) ==
  CASE page = "friends" -> "offline" [] page = "search" -> "none" [] OTHER -> items[e]
normalize(items, damage) ==
  LET inEntry == damage.of # NoEntry
      Of(list) == [ok |-> TRUE, items |-> list]
  IN  CASE damage.how = "refused" ->
             IF inEntry /\ Normalizers[page].apart THEN Of([items EXCEPT ![damage.of] = Gone]) ELSE [ok |-> FALSE, items |-> Empty]
        [] damage.how = "repaired" -> Of([items EXCEPT ![damage.of] = Repaired(damage.of, items)])
        [] damage.how = "emptied" /\ ~inEntry -> Of(Empty)
        [] OTHER -> Of(items)

(***************************************************************************)
(* The server: the list, and what an action on an entry is answered.       *)
(***************************************************************************)
Done == "done"
Outcomes(e, does) ==
  LET there == listed[e]
  IN  CASE does = "challenge" -> CASE there = "online" -> {Done, "challengeSelfBusy"} [] there = "playing" -> {"challengeTargetBusy", "challengeSelfBusy"}
                                   [] there = "offline" -> {"challengeOffline", "challengeSelfBusy"} [] OTHER -> {"challengeNoPlayer"}
        [] does = "request" -> CASE there = "friend" -> {"friendAlready"} [] there = "outgoing" -> {"friendPending"}
                                 [] there = "incoming" -> {Done, "friendLimit", "friendTheirLimit"} [] there = Gone -> {"challengeNoPlayer"}
                                 [] OTHER -> {Done, "friendLimit", "friendTheirLimit", "friendPendingLimit"}
        [] does = "accept" -> IF there = "incoming" THEN {Done, "friendLimit", "friendTheirLimit"} ELSE {"friendRequestAbsent"}
        [] does = "deleteRequest" -> {IF there \in {"incoming", "outgoing"} THEN Done ELSE "friendRequestAbsent"}
        [] does = "unblock" -> {IF there = "blocked" THEN Done ELSE "blockAbsent"}
        [] does = "activate" -> {CASE there = "valid" -> Done [] there = "draft" -> "deckNotValid" [] OTHER -> "deckNotFound"}
(* The refusals that do not depend on the entry.                           *)
Busy == {"challengeSelfBusy", "friendLimit", "friendTheirLimit", "friendPendingLimit"}
After(e, does) ==
  CASE does \in {"request", "accept"} -> [listed EXCEPT ![e] = IF @ = "incoming" THEN "friend" ELSE "outgoing"]
    [] does = "deleteRequest" -> [listed EXCEPT ![e] = "none"]
    [] does = "unblock" -> [listed EXCEPT ![e] = Gone]
    [] OTHER -> listed
(* What the page offers on an entry: a challenge, a request or its answer, *)
(* an unblocking, the deck to play with.                                   *)
Offers(e) ==
  LET is == view.items[e]
  IN  IF view.kind # "ready" THEN {}
      ELSE CASE page = "friends" /\ is = "online" -> {"challenge"}
             [] page = "search" /\ is = "none" -> {"request"}
             [] page = "search" /\ is = "incoming" -> {"accept", "deleteRequest"}
             [] page = "search" /\ is = "outgoing" -> {"deleteRequest"}
             [] page = "blocks" /\ is = "blocked" -> {"unblock"}
             [] page = "decks" /\ is = "valid" -> {"activate"}
             [] OTHER -> {}

Spend(what) == left[what] > 0 /\ left' = [left EXCEPT ![what] = @ - 1]
ListChanges(e) ==
  /\ Spend("changes")
  /\ \E s \in (Says[page] \cup {Gone}) \ {listed[e]} : listed' = [listed EXCEPT ![e] = s]
  /\ UNCHANGED <<page, asks, view, query, act, told, sent>>

(***************************************************************************)
(* A request for the list: held by the timer of the search, out, or back.  *)
(* The answer to one whose effect was cleaned up is dropped (active), so   *)
(* the request is forgotten when it is.                                    *)
(***************************************************************************)
NewAsk(at) == [n |-> left.asks, of |-> query', at |-> at, text |-> Done, items |-> Empty, damage |-> Intact]
(* Mutant: requests for another text are still answered.                   *)
DeactivatedNever == asks
Deactivated == {}
Back(a, text, items, damage) ==
  asks' = (asks \ {a}) \cup {[a EXCEPT !.at = "back", !.text = text, !.items = items, !.damage = damage]}
Serve(a) ==
  /\ a.at = "out"
  /\ \/ Back(a, Done, listed, Intact) /\ UNCHANGED left
     \/ /\ Spend("failures")
        /\ \/ \E d \in DamagesOf(listed) : Back(a, Done, listed, d)
           \/ \E text \in {"network", "dbError"} : Back(a, text, Empty, Intact)
  /\ UNCHANGED <<page, listed, view, query, act, told, sent>>

(* The hooks.  Only the friends keep what they show when a refresh fails;  *)
(* the catalog falls back on the one the client carries.                   *)
Show(kind, items, of) == view' = [kind |-> kind, items |-> items, of |-> of]
Read(a) ==
  /\ a.at = "back"
  /\ asks' = asks \ {a}
  /\ LET n == normalize(a.items, a.damage)
         keeps == page = "friends" /\ view.kind = "ready"
     IN  CASE a.text = Done /\ n.ok -> Show("ready", n.items, a.of) /\ sent' = [items |-> a.items, harmed |-> a.damage.of]
           [] (a.text # Done \/ ~n.ok) /\ keeps -> UNCHANGED <<view, sent>>
           [] OTHER -> /\ Show(IF page = "catalog" THEN "ready" ELSE "error", Empty, a.of)
                       /\ sent' = [items |-> Empty, harmed |-> NoEntry]
  /\ UNCHANGED <<page, listed, query, act, told, left>>
(* The timer of the friends.                                               *)
refresh ==
  /\ page = "friends" /\ Spend("asks") /\ query' = query
  /\ asks' = asks \cup {NewAsk("out")}
  /\ UNCHANGED <<page, listed, view, act, told, sent>>
retry ==
  /\ view.kind = "error" /\ page \in {"friends", "collection", "decks", "leaderboard"}
  /\ Spend("asks") /\ query' = query
  /\ Show("loading", Empty, query)
  /\ asks' = Deactivated \cup {NewAsk("out")}
  /\ UNCHANGED <<page, listed, act, told, sent>>
(* Another text is typed, or the search is repeated: it goes out when no   *)
(* other key is pressed for a while.                                       *)
SearchAgain ==
  /\ Spend("asks")
  /\ IF view.kind = "ready" THEN UNCHANGED view ELSE Show("loading", Empty, query')
  /\ asks' = Deactivated \cup {NewAsk("timer")}
Typed(q) ==
  /\ page = "search" /\ q # query /\ query' = q
  /\ CASE q = "" -> Show("idle", Empty, q) /\ asks' = Deactivated /\ UNCHANGED left
       [] q = "a" -> Show("short", Empty, q) /\ asks' = Deactivated /\ UNCHANGED left
       [] OTHER -> SearchAgain
  /\ UNCHANGED <<page, listed, act, told, sent>>
TimerFires(a) ==
  /\ a.at = "timer"
  /\ asks' = (asks \ {a}) \cup {[a EXCEPT !.at = "out"]}
  /\ UNCHANGED <<page, listed, view, query, act, told, sent, left>>

(***************************************************************************)
(* An action on an entry.  seen: what the answer shown said of it, when it *)
(* was not the entry damaged.                                              *)
(***************************************************************************)
Unknown == "unknown"
NoAct == [on |-> NoEntry, does |-> "nothing", at |-> "none", seen |-> Unknown, text |-> Done, items |-> Empty, damage |-> Intact]
Act(e, does) ==
  /\ act = NoAct /\ Spend("acts")
  /\ act' = [NoAct EXCEPT !.on = e, !.does = does, !.at = "out", !.seen = IF sent.harmed = e THEN Unknown ELSE sent.items[e]]
  /\ told' = NoCode
  /\ UNCHANGED <<page, listed, asks, view, query, sent>>
AnswersWithList == page \in {"blocks", "decks"}
ServeAct ==
  /\ act.at = "out"
  /\ \E text \in Outcomes(act.on, act.does) :
       /\ listed' = IF text = Done THEN After(act.on, act.does) ELSE listed
       /\ \E damage \in {Intact} \cup (IF AnswersWithList /\ text = Done /\ left.failures > 0 THEN DamagesOf(listed') ELSE {}) :
            /\ left' = IF damage = Intact THEN left ELSE [left EXCEPT !.failures = @ - 1]
            /\ act' = [act EXCEPT !.at = "back", !.seen = IF @ = listed[act.on] THEN @ ELSE Unknown, !.text = text,
                                  !.items = IF AnswersWithList THEN listed' ELSE Empty, !.damage = damage]
  /\ UNCHANGED <<page, asks, view, query, told, sent>>
(* The answer to an action on blocks and decks is the new list, which is   *)
(* shown; the search is repeated.                                          *)
run ==
  /\ act.at = "back"
  /\ LET n == normalize(act.items, act.damage)
     IN  /\ told' = CASE act.text # Done -> interpretHttpResponse(act.text) [] AnswersWithList /\ ~n.ok -> "invalid_response" [] OTHER -> NoCode
         /\ IF AnswersWithList /\ told' = NoCode
            THEN Show("ready", n.items, query) /\ sent' = [items |-> act.items, harmed |-> act.damage.of] ELSE UNCHANGED <<view, sent>>
  /\ act' = [NoAct EXCEPT !.at = "told", !.text = act.text]
  /\ UNCHANGED <<page, listed, asks, query, left>>
(* Whoever acted goes on; a search that was acted on is repeated.          *)
onDone ==
  /\ act.at = "told"
  /\ act' = NoAct /\ told' = NoCode
  /\ IF page = "search" /\ told = NoCode /\ query \notin {"", "a"} THEN query' = query /\ SearchAgain
     ELSE UNCHANGED <<query, view, asks, left>>
  /\ UNCHANGED <<page, listed, sent>>

Init ==
  /\ page \in Pages
  /\ listed \in [Entries -> Says[page] \cup {Gone}]
  /\ query = ""
  /\ asks = IF page = "search" THEN {}
            ELSE {[n |-> MaxAsks, of |-> "", at |-> "out", text |-> Done, items |-> Empty, damage |-> Intact]}
  /\ view = [kind |-> IF page = "search" THEN "idle" ELSE "loading", items |-> Empty, of |-> ""]
  /\ act = NoAct /\ told = NoCode
  /\ sent = [items |-> Empty, harmed |-> NoEntry]
  /\ left = [asks |-> IF page = "search" THEN MaxAsks ELSE MaxAsks - 1, changes |-> MaxListChanges, acts |-> MaxListChanges, failures |-> MaxFailures]
Next ==
  \/ \E a \in asks : Serve(a) \/ Read(a) \/ TimerFires(a)
  \/ \E e \in Entries : ListChanges(e) \/ (\E does \in Offers(e) : Act(e, does))
  \/ \E q \in Queries : Typed(q)
  \/ refresh \/ retry \/ ServeAct \/ run \/ onDone
Spec == Init /\ [][Next]_vars
-----------------------------------------------------------------------------
(* A page never waits for an answer that does not come: with nothing under *)
(* way it shows a list or an error, and the results of a search are those  *)
(* of the text typed (the effects' active flags, useUserSearch).           *)
PageSettles ==
  asks = {} => /\ view.kind # "loading"
                  /\ page = "search" /\ view.kind = "ready" => view.of = query

(* Of a list read, every entry is as the server had it but one that was    *)
(* damaged, or none is ("una voce malformata si scarta con un warning").   *)
DamageIsContained ==
  view.kind = "ready" =>
    \/ \A e \in Entries \ {sent.harmed} : view.items[e] = sent.items[e]
    \/ sent.harmed = NoEntry /\ view.items = Empty

(* What a page offers the server does, unless the entry changed since or   *)
(* was damaged; and its refusal is the one the page tells.                 *)
RefusalsAreTold ==
  /\ act.at = "back" /\ act.seen # Unknown => act.text \in Busy \cup {Done}
  /\ act.at = "told" /\ act.text # Done => told = HTTP[act.text]
=============================================================================

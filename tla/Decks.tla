--------------------------------- MODULE Decks ---------------------------------
(***************************************************************************)
(* The decks of one user: the store of the server (store/decks.ts), and    *)
(* the screen that lists and edits them (Decks.tsx, useDecks.ts,           *)
(* deckEditor.ts), whose requests are answered in any order while the user *)
(* goes on editing.                                                        *)
(***************************************************************************)
EXTENDS Naturals, FiniteSets, Functions, FiniteSetsExt

CONSTANTS Spells,        \* of the catalog
          rarity,        \* [Spells -> {"common", "rare", "legendary"}]
          DeckSize, MaxDecks,
          MaxWrites,     \* bound: requests that change decks
          MaxLost,       \* bound: requests lost
          MaxEdits       \* bound: cards put in, taken out, decks completed or cleared

VARIABLES decks,     \* the rows of the server: [id, cards, active, stamp]
          stamp,     \* the clock of the store, and its last id
          state,     \* of useDecks: [kind, list]
          requests,  \* under way
          editor,    \* [deck |-> id, cards |-> draft, stamp |-> of the deck edited, busy]
          latest,    \* ghost: the latest answer read, in the order the server gave them
          stale,     \* ghost: an answer was read after a later one, or never
          lateEdit,  \* ghost: the draft changed while its deck was being saved
          lost,      \* ghost: edits the user did not give up are gone
          left       \* what the bounds still allow
vars == <<decks, stamp, state, requests, editor, latest, stale, lateEdit, lost, left>>

deckTotal(cards) == MapThenSumSet(LAMBDA s : cards[s], Spells)
NoCards == [s \in Spells |-> 0]

maxCopies(s) == CASE rarity[s] = "common" -> 3 [] rarity[s] = "rare" -> 2 [] rarity[s] = "legendary" -> 1
starterCopies(s) == CASE rarity[s] = "common" -> maxCopies(s) [] rarity[s] = "rare" -> 1 [] rarity[s] = "legendary" -> 0
owned == [s \in Spells |-> starterCopies(s)]
copyCap(s) == IF owned[s] < maxCopies(s) THEN owned[s] ELSE maxCopies(s)

(***************************************************************************)
(* The server.  What is wrong with a deck, other than its size, keeps it   *)
(* from being saved; its size only from being played.                      *)
(***************************************************************************)
blockingProblem(cards) == \E s \in Spells : cards[s] > maxCopies(s) \/ cards[s] > owned[s]
isValid(cards) == ~blockingProblem(cards) /\ deckTotal(cards) = DeckSize
Filled(cards) ==
  LET Room == {d \in [Spells -> 0..3] :
                 /\ \A s \in Spells : d[s] >= cards[s] /\ (d[s] > cards[s] => d[s] <= copyCap(s))
                 /\ deckTotal(d) <= DeckSize}
  IN  IF deckTotal(cards) > DeckSize THEN cards
      ELSE CHOOSE d \in Room : \A e \in Room : deckTotal(e) <= deckTotal(d)
starterDeck == Filled(NoCards)

row(id, cards, active, at) == [id |-> id, cards |-> cards, active |-> active, stamp |-> at]
Only(rows, id) == {[d EXCEPT !.active = (d.id = id)] : d \in rows}
insert(rows, cards, active, at) ==
  (IF active THEN {[d EXCEPT !.active = FALSE] : d \in rows} ELSE rows) \cup {row(at, cards, active, at)}
userDecks == IF decks = {} THEN insert({}, starterDeck, isValid(starterDeck), 1) ELSE decks
Ids(rows) == {d.id : d \in rows}
The(rows, id) == CHOOSE d \in rows : d.id = id
(* Mutant: the deck put in use after a removal is the latest, valid or not.*)
mostRecent(rows) == {d \in rows : \A e \in rows : e.stamp <= d.stamp}
mostRecentValid(rows) == {d \in rows : isValid(d.cards) /\ \A e \in rows : isValid(e.cards) => e.stamp <= d.stamp}

(* A write is refused, or leaves the rows and the answer.                  *)
Refused(rows) == [ok |-> FALSE, rows |-> rows]
Done(rows) == [ok |-> TRUE, rows |-> rows]
create(rows, cards, clock) ==
  IF blockingProblem(cards) \/ Cardinality(rows) >= MaxDecks THEN Refused(rows) ELSE Done(insert(rows, cards, FALSE, clock))
update(rows, d, cards, clock) ==
  IF blockingProblem(cards) \/ (d.active /\ ~isValid(cards)) THEN Refused(rows)
  ELSE Done((rows \ {d}) \cup {[d EXCEPT !.cards = cards, !.stamp = clock]})
remove(rows, target, clock) ==
  LET rest == rows \ {target}
      next == mostRecentValid(rest)
  IN  CASE rest = {} -> Refused(rows)
        [] rest # {} /\ ~target.active -> Done(rest)
        [] rest # {} /\ target.active /\ next # {} -> Done({[d EXCEPT !.active = d \in next] : d \in rest})
        [] OTHER -> Done(insert(rest, starterDeck, TRUE, clock))
activate(rows, d) == IF isValid(d.cards) THEN Done(Only(rows, d.id)) ELSE Refused(rows)
Outcome(r) ==
  LET rows == userDecks
      clock == stamp + (IF decks = {} THEN 2 ELSE 1)
  IN
  IF r.op \in {"update", "remove", "activate"} /\ r.id \notin Ids(rows) THEN Refused(rows)
  ELSE CASE r.op = "list" -> Done(rows)
         [] r.op = "create" -> create(rows, r.cards, clock)
         [] r.op = "update" -> update(rows, The(rows, r.id), r.cards, clock)
         [] r.op = "remove" -> remove(rows, The(rows, r.id), clock)
         [] r.op = "activate" -> activate(rows, The(rows, r.id))

(***************************************************************************)
(* The requests.                                                           *)
(***************************************************************************)
call(op, id, cards) == [op |-> op, id |-> id, cards |-> cards, at |-> "out", ok |-> FALSE, rows |-> {}, served |-> 0,
                        number |-> left.writes]
Serve(r) ==
  /\ r.at = "out"
  /\ LET o == Outcome(r)
     IN  /\ decks' = o.rows
         /\ stamp' = stamp + (IF decks = {} THEN 2 ELSE 1)
         /\ requests' = (requests \ {r}) \cup {[r EXCEPT !.at = "back", !.ok = o.ok, !.rows = o.rows, !.served = stamp']}
  /\ UNCHANGED <<state, latest, editor, stale, lateEdit, lost, left>>
(* Lost before the server sees it, or after; who asked cannot tell.        *)
Lose(r) ==
  /\ left.lost > 0 /\ left' = [left EXCEPT !.lost = @ - 1]
  /\ requests' = (requests \ {r}) \cup {[r EXCEPT !.at = "back", !.ok = FALSE]}
  /\ stale' = (stale \/ r.at = "back")
  /\ UNCHANGED <<decks, stamp, state, latest, editor, lateEdit, lost>>
Send(op, id, cards) ==
  /\ left.writes > 0 /\ left' = [left EXCEPT !.writes = @ - 1]
  /\ requests' = requests \cup {call(op, id, cards)}
  /\ UNCHANGED <<decks, stamp, state, latest, stale, lateEdit, lost>>

(***************************************************************************)
(* The editor: the draft of one deck, mounted anew when the deck shown is  *)
(* another, or was saved since.                                            *)
(***************************************************************************)
NoEditor == [deck |-> 0, cards |-> NoCards, stamp |-> 0, busy |-> FALSE]
Shown == state.list
Edited == The(Shown, editor.deck)
isDirty == editor.deck # 0 /\ editor.cards # Edited.cards
OnDeck(d) == [deck |-> d.id, cards |-> d.cards, stamp |-> d.stamp, busy |-> FALSE]
Chosen(list) == LET active == {d \in list : d.active} IN IF active # {} THEN CHOOSE d \in active : TRUE ELSE CHOOSE d \in list : TRUE
(* What is mounted once the list is the given one.                         *)
Mounted(list, e) ==
  IF list = {} THEN NoEditor
  ELSE IF e.deck \notin Ids(list) THEN OnDeck(Chosen(list))
  ELSE IF The(list, e.deck).stamp # e.stamp THEN OnDeck(The(list, e.deck)) ELSE e

Edit(cards) ==
  /\ editor.deck # 0 /\ left.edits > 0 /\ cards # editor.cards
  /\ left' = [left EXCEPT !.edits = @ - 1]
  /\ editor' = [editor EXCEPT !.cards = cards]
  /\ lateEdit' = (lateEdit \/ \E r \in requests : r.op = "update" /\ r.id = editor.deck)
  /\ UNCHANGED <<decks, stamp, state, latest, requests, stale, lost>>
poolState(s) ==
  IF owned[s] = 0 THEN "locked"
  ELSE IF editor.cards[s] >= copyCap(s) THEN "max"
  ELSE IF deckTotal(editor.cards) >= DeckSize THEN "full" ELSE "available"
addCard(s) == poolState(s) = "available" /\ Edit([editor.cards EXCEPT ![s] = @ + 1])
removeCard(s) == editor.cards[s] > 0 /\ Edit([editor.cards EXCEPT ![s] = @ - 1])
autofill == deckTotal(editor.cards) < DeckSize /\ Edit(Filled(editor.cards))
clear == Edit(NoCards)

Busy(e) == [e EXCEPT !.busy = TRUE]
activeNeedsValid == Edited.active /\ deckTotal(editor.cards) # DeckSize
save ==
  /\ editor.deck # 0 /\ isDirty /\ ~activeNeedsValid /\ ~editor.busy
  /\ Send("update", editor.deck, editor.cards) /\ editor' = Busy(editor)
use ==
  /\ editor.deck # 0 /\ ~Edited.active /\ isValid(Edited.cards) /\ ~isDirty /\ ~editor.busy
  /\ Send("activate", editor.deck, NoCards) /\ editor' = Busy(editor)
destroy ==
  /\ editor.deck # 0 /\ Cardinality(Shown) > 1
  /\ Send("remove", editor.deck, NoCards) /\ editor' = Busy(editor)
newDeck ==
  /\ state.kind = "ready" /\ Cardinality(Shown) < MaxDecks
  /\ Send("create", 0, NoCards) /\ UNCHANGED editor
(* Another deck, with unsaved edits given up in the dialog.                *)
select(d) ==
  /\ d.id # editor.deck /\ editor' = OnDeck(d)
  /\ UNCHANGED <<decks, stamp, state, latest, requests, stale, lateEdit, lost, left>>
retry ==
  /\ state.kind = "error" /\ ~\E r \in requests : r.op = "list"
  /\ state' = [kind |-> "loading", list |-> {}]
  /\ requests' = requests \cup {call("list", 0, NoCards)}
  /\ UNCHANGED <<decks, stamp, latest, editor, stale, lateEdit, lost, left>>

(* What each part of the screen lets do.                                   *)
PoolGrid == \E s \in Spells : addCard(s)
DeckRows == \E s \in Spells : addCard(s) \/ removeCard(s)
DeckMenu == use \/ destroy
DeckListPage == newDeck \/ \E d \in Shown : select(d)
DesktopEditor == DeckListPage \/ PoolGrid \/ DeckRows \/ autofill \/ clear \/ save \/ use \/ destroy
MobileEditor == DeckMenu \/ PoolGrid \/ DeckRows \/ autofill \/ save

putDeck(d) == {e \in Shown : e.id # d.id} \cup {d}
ReplyDeck(r) == The(r.rows, IF r.op = "create" THEN r.served ELSE r.id)
ListAfter(r) == IF r.op \in {"create", "update"} THEN putDeck(ReplyDeck(r)) ELSE r.rows
(* After a creation the screen goes to the new deck, and after a removal   *)
(* to the one in use, asking first if there are unsaved edits.             *)
Destination(r, list) == OnDeck(IF r.op = "create" THEN The(list, r.served) ELSE Chosen(list))
EditorsAfter(r, list) ==
  IF r.op \in {"create", "remove"}
  THEN {Destination(r, list)} \cup (IF isDirty /\ editor.deck # r.id THEN {Mounted(list, editor)} ELSE {})
  ELSE {Mounted(list, editor)}
Released(e, r) == IF r.id = e.deck THEN [e EXCEPT !.busy = FALSE] ELSE e
GivenUp == \E q \in requests : q.op = "remove" /\ q.id = editor.deck
Keeps(e) == e.deck = editor.deck /\ e.cards = editor.cards
Read(r) ==
  /\ r.at = "back"
  /\ requests' = requests \ {r}
  /\ IF r.ok /\ (r.op = "list" \/ state.kind = "ready")
     THEN LET list == ListAfter(r)
          IN  /\ state' = [kind |-> "ready", list |-> list]
              /\ \E e \in EditorsAfter(r, list) : editor' = Released(e, r)
              /\ lost' = (lost \/ (isDirty /\ ~GivenUp /\ ~Keeps(Mounted(list, editor))))
              /\ stale' = (stale \/ r.served < latest)
              /\ latest' = IF r.served > latest THEN r.served ELSE latest
     ELSE /\ state' = IF r.op = "list" THEN [kind |-> "error", list |-> {}] ELSE state
          /\ editor' = Released(editor, r)
          /\ UNCHANGED <<lost, stale, latest>>
  /\ UNCHANGED <<decks, stamp, lateEdit, left>>

Init ==
  /\ decks = {} /\ stamp = 0
  /\ state = [kind |-> "loading", list |-> {}]
  /\ editor = NoEditor
  /\ latest = 0 /\ stale = FALSE /\ lateEdit = FALSE /\ lost = FALSE
  /\ left = [writes |-> MaxWrites, lost |-> MaxLost, edits |-> MaxEdits]
  /\ requests = {[op |-> "list", id |-> 0, cards |-> NoCards, at |-> "out", ok |-> FALSE, rows |-> {}, served |-> 0, number |-> 0]}
Next == DeckListPage \/ DesktopEditor \/ MobileEditor \/ retry \/ \E r \in requests : Serve(r) \/ Lose(r) \/ Read(r)
Spec == Init /\ [][Next]_vars
-----------------------------------------------------------------------------
(* Once a user has decks, exactly one is active and it can be played,      *)
(* whatever is deleted, emptied or activated in any order; every deck      *)
(* saved holds cards owned, and no deck comes in excess of the limit.      *)
AlwaysADeckToPlay ==
  decks # {} =>
    /\ Cardinality({d \in decks : d.active}) = 1
    /\ \A d \in decks : ~blockingProblem(d.cards) /\ (d.active => isValid(d.cards))
    /\ Cardinality(decks) <= MaxDecks /\ Cardinality(Ids(decks)) = Cardinality(decks)

(* With nothing under way the screen shows the decks of the server, unless *)
(* an answer was lost or overtaken; and edits go only if the user gives    *)
(* them up, or made them while the deck was being saved.                   *)
EditorIsFaithful ==
  /\ requests = {} /\ state.kind = "ready" /\ ~stale => state.list = decks
  /\ lost => lateEdit \/ stale
=============================================================================

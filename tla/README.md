# CheckMage in TLA+

CheckMage is chess with spells: two players share a board, each has a deck, a
hand and mana, and a turn is a cycle of phases (draw, main 1, move, main 2,
end). The repository holds it twice over. A Go server (`src/server/`) keeps
every game in memory, plays it over WebSockets and stores it in PostgreSQL. The
TypeScript project (`src/client/`) holds the client, and a second server, ported
from the Go one handler by handler, that the client is developed and tested
against (`src/client/mock-server/`), with a REST API of its own and virtual
opponents. This directory holds TLA+ models of both, the TLC runs that check
them and theorems that TLAPS checks.

Go paths below are relative to `src/server/internal/`, TypeScript paths to
`src/client/mock-server/` (the client's server) or `src/client/src/` (the client).

- [Inventory](#inventory)
- [Modules](#modules)
- [Runs](#runs)
- [Findings](#findings)
- [What is known not to hold](#what-is-known-not-to-hold)
- [Fairness](#fairness)
- [Proofs](#proofs)
- [What is not modelled](#what-is-not-modelled)
- [Plan](#plan)
- [Running it](#running-it)

## Inventory

### The components and their state

| Component | Code | State | Operations |
|---|---|---|---|
| Phase machine | Go `phase/` | none | `Next`, `AllowedActions` |
| Match engine | Go `match/`, `spells/`; `game/match.ts` | turn, phase, active player; per player deck, hand, discard pile, mana, casts of the turn | `Advance`, `AutoAdvance`, `CastSpell`, draws |
| Room | Go `game/room.go`, `special.go` | board, match, second move, draw offer, strikes, connections, timers, the end; all under `r.mu` | the handlers of `HandleMessage`, `Leave`, `Reconnect`, `finishLocked`, `announceEnd` |
| Phase clock | Go `game/clock.go` | time left of the phase key | `runTimer`, `expirePhase` (a goroutine) |
| Manager, challenges | Go `game/manager.go`, `challenges.go` | queue, rooms by name, index user to room, open challenges; under `m.mu` | join, leave, create, cancel, decline, expire, `RemoveRoom`, `Shutdown` |
| Live store, archive | Go `db/livematch.go`, `db/db.go` | one row per running match, sequence numbers; games, ELO | asynchronous snapshots, save at shutdown, deletion, load, `SaveGame` |
| Gateway | `ws/gateway.ts`, `store/challenges.ts` | queue, challenges, matches by name, index by user, bots | connection, close, frames, end of a match, restart |
| Room of the client's server | `game/room.ts`, `special.ts` | FEN, tracker, match, graveyards, extra move, offers, absences | `handleMove`, `handleCastSpell`, `handlePassPhase`, `expirePhase`, `leave`, `reconnect` |
| Board | `game/fen.ts`, `engine.ts` | a FEN | the edits spells make; chess.js behind them |
| Effects | `game/tracker.ts`, `targets.ts`, `runes.ts`, `squares.ts`, `playerEffects.ts` | identities, durations on pieces and squares, shields, runes | move, add, remove, tick, targets, reactions |
| Bots | `scenarios/bot.ts`, `botPolicy.ts`, `index.ts` | what it heard, what was refused, its timer | react, act, offers, departures |
| REST server | `rest/app.ts`, `rest/friends.ts`, `store/`, `auth/jwt.ts` | users, tokens, links, blocks, presence, decks | its routes |
| Connection and session | `ws/connection.ts`, `store/matchSession.ts` | generation, socket, timers; what is waited for, the saved match | open, retry, close, send, resume |
| Store of a match | `ws/protocol.ts`, `ws/dispatch.ts`, `api/adapter.ts`, `store/matchStore.ts` | the match as the frames describe it | decode, dispatch, `applyServerEvent` |
| Account | `store/authStore.ts`, `api/http.ts` | tokens, stored tokens, status | login, renewal, logout, expiry, deletion |
| Friends and presence | `store/presence.ts`, `screens/Friends/`, `screens/Player/`, `app/ChallengeBanner.tsx` | lists, signals, dismissed challenges | requests, blocks, challenges |
| Decks | `screens/Decks/` | list, editor | edit, save, activate, delete |
| Board and hand | `game/`, `spells/`, `screens/Match/` | selection, drag, promotion, spell being aimed, notice | taps, drags, casts |

`PROJECT.json` lists every component with its files, the ones left out too.

### How they interact

**Go.** A WebSocket request makes a `Client`, calls the manager (queue, challenge
or bot) and starts its `ReadPump`. The manager, under `m.mu`, pairs it (`newRoom`) or
seats it in its running game (`tryReconnectLocked`, which takes `r.mu` to ask `isActive`
and again inside `Reconnect`). From then on the `ReadPump` calls
`Room.HandleMessage`, whose handlers take `r.mu`, change match and board, prepare a
snapshot for the live store (`persist`, written by a goroutine) and send messages after
the unlock. The clock goroutine of the room, the two abandonment timers and
`announceEnd` do the same. When a game ends, a goroutine saves it, deletes its row
and calls `RemoveRoom`, at any later time. A broken connection passes through
`LeaveQueue`, `LeaveChallenge` and `Room.Leave`, three critical sections. At shutdown the
manager saves every room; at start it loads the rows.

**TypeScript.** Everything is a callback that runs to its end. The client asks for a
ticket over REST, opens a socket with it, and reads frames: the adapter decodes each
field, the store applies it, the screen renders it, computes by its own copy of the
rules what may be picked up or aimed at, and sends intents. The connection opens
another socket when one breaks; `matchSession` joins it to the sign-in and to the
note of the match left on the device. On the other side `gateway.ts` seats
connections in rooms, and a bot sits in a room as a connection of its own: it hears
every frame while the handler that sends it still runs, and acts from a timer.

### What is hard, and what makes each part correct

- **Match engine.** A cast runs its effects before it pays; effects draw, discard and
  give mana; a phase change may run through several phases. Right means: no card is
  lost or doubled, no mana is spent that was not there, every turn has its draw, and
  the match stops exactly where its player can act.
- **Room.** Four kinds of goroutine act on one game, each looking, releasing the lock
  and coming back. Right means: a game ends once and stays ended, everybody present
  learns of it, board and match agree on whose turn it is, a stale decision (an old
  timer, phase key or draw offer) changes nothing, and no phase or absence lasts for ever.
- **Manager, challenges, gateway.** A user may have many connections, some of them
  broken without knowing. Right means: one game per user, a way back to it while
  it runs, and no connection left open and forgotten.
- **Live store.** Snapshots are written out of order and the process may stop between
  any two statements. Right means: the row only goes forward, a finished match does
  not come back, and nothing is lost that shutdown was to keep.
- **Spells on the board.** The position is kept three times (a FEN, the identities and
  effects of `tracker.ts`, and chess.js), and about thirty effects change it by
  different code. Right means: the three agree, the position stays one of chess, effects last
  as long as they say, and a player who must move can.
- **The client's view.** It is made from partial frames, over sockets that break. Right
  means: when everything is read it shows the match as it is, a loss is reported, what waits
  for an answer has one to come, and what it lets its user do is what the server accepts.
- **REST.** Answers overtake each other; tokens expire under several requests at once;
  two users act on one link. Right means: the session and the lists end up as the
  server has them, and nobody ends in two states at once.

## Modules

| Module | Lines of code it stands for | What it is |
|---|---|---|
| `Phases` | Go | the phases, what each allows, and `NextRest`: where a match may rest (operators only) |
| `TurnCycle` | abstract | whose turn and which phase, as the clients see it |
| `Match`, `MCMatch` | Go | the card game: piles, mana, draws, casts, `AutoAdvance`. Implements `TurnCycle` |
| `Room` | Go | one game, the goroutines that act on it and their interleavings |
| `Lobby`, `MCLobby` | Go | the manager and the challenges, with all their connections |
| `Durable`, `LiveStore` | Go | what the row of a match promises; snapshots, writes, shutdown, crash, restart. Implements `Durable` |
| `Board` | TS | a FEN as a record; what `fen.ts` does to it, what chess.js promises of it |
| `Tracker` | TS | identities, durations, shields, squares and runes (extends `Board`) |
| `SpellRoom` | TS | the four handlers of a room with every effect (extends `Tracker`) |
| `Highlights`, `MCSpellRoom` | TS | the client's copy of the rules, held against `SpellRoom`; the catalogue and eleven small matches |
| `Gateway` | TS | connections, queue, challenges, bots, reconnections, rooms and their ends |
| `Wire` | TS | the frames of each handler, decoded field by field, applied to the store |
| `MatchStore` | TS | `applyServerEvent` (operators only) |
| `ClientSession` | TS | connection, session and store against a server that answers and drops (extends `MatchStore`) |
| `Account` | TS | tokens and accounts, both ends |
| `Social` | TS | friends, blocks, presence, challenges before they are taken up, both ends |
| `Decks` | TS | the decks of a user, both ends |
| `Screen` | TS | the piece held, the promotion, the spell being aimed, the notice |
| `Bot` | TS | the virtual opponent and what it sees of its room |
| `Answers`, `Texts` | TS | the lists of the pages, from the request to the screen, and what a refusal is told as; the tables of texts and codes (operators only) |
| `ClientParts`, `MCClientParts` | | `Wire` and the six from `Account` to `Answers`, one at a time in one run |
| `Match_proofs`, `Room_proofs`, `Lobby_proofs`, `Gateway_proofs`, `LiveStore_proofs`, `ClientSession_proofs`, `ClientParts_proofs`, `ClientView_proofs` | | the proofs |

In a Go module one action is one critical section, with everything the handler does before it
unlocks; a goroutine that unlocks and comes back is several actions and a variable that says
how far it has got and what it remembers. In a TypeScript module one action is one callback;
a function that awaits is several. `PROJECT.json` gives for every definition the lines it
translates.

### Match

The match between two calls of the room, as one record with the fields of `match.State` and
of its two `PlayerState`. Hands, decks and discard piles are bags: the deck is
shuffled once and never looked into, so its order is left out and a draw takes any card it
still holds. An operation whose outcome depends on a draw is the set of its outcomes. Each
call that ends a phase or spends mana ends with `AutoAdvance`, three steps at most (the
opponent's draw, its main 1 and the phase the walk starts from; `RestNeedsInput` shows that no
fourth is needed). A spell is a model value with a cost, phases, a limit of casts per turn,
and what it does to cards and mana; `LosePieces` is the trigger that makes the owner of a
lost piece draw. What a move takes is a choice.

### Room

State variables carry the names of the code or say them in their comment. The chess rules and
the cards are choices here, so the model allows at least what the code does. A connection is a
pair of player and number; `client` is the one the room holds for each player, `open` are
all those whose `ReadPump` runs, so a replaced connection may still act until it notices.
`clock` is the program counter of the clock goroutine with the phase key it has read.
`armed` and `fired` are the abandonment timers that run and the callbacks that wait for the
lock. `joining` is the window in `tryReconnectLocked` between `isActive` and `Reconnect`.
`due` and `announced` separate `finishLocked` from `announceEnd`. `Restart` is a graceful
shutdown followed by `LoadPersisted`. `silent`, `announced` and `informed` are history.

### Lobby and Gateway

The same doors twice, because they differ in the detail that matters. In `Lobby` (Go) the
broken connection passes through three sections while another goroutine pairs it, a room is
a name in the map and an object behind it, and the removal of an ended room comes at any later time.
In `Gateway` every callback runs to its end, what is late are the closures of sockets, timers
and `setImmediate`; the model goes down to the seats of a room, absence, draw offers, the bot that
leaves and comes back and the simulated restart. `Rematch` and `TwoDoors` (`Lobby`) and
`OtherDoors` (`Gateway`) are parameters that let in, or keep out, situations that are
[known to fail](#what-is-known-not-to-hold), so that everything else is checked.

### LiveStore

A state of the match is the number of changes that led to it. `writes` are the goroutines that have a
snapshot and wait for `r.persistMu`; they run in any order. `saver` is the goroutine of
`announceEnd`: save, delete, remove. `proc` follows `Manager.Shutdown`, statement by
statement. `Crash` may come between any two steps and takes the memory and the pending
writes with it. A statement that fails changes nothing.

### SpellRoom, Tracker, Board, Highlights

A state is a room: FEN, tracker, match, graveyards, extra move. `Board` and `Tracker` have the names
of the functions they translate. A handler is one action: `handleMove`, `handleCastSpell`,
`handlePassPhase` and `expirePhase`, each with its reactions (runes that go off, triggers, auras),
the ticks of durations, the phases that follow and the end of the game. A rejected message changes
nothing. The moves of chess.js are external and modelled from their promise: pseudo-legal moves,
check, and the moves left when the king's safety is respected. `Highlights` translates
`selection.ts`, `squareRules.ts`, `playability.ts`, `targeting.ts` and the two registries: what is
lit up, step after step, is compared with what the handlers accept in the same state.

### Wire, MatchStore, ClientSession

`Wire` answers one question: does every change of the match reach the screen? Its state is a set of items
(board, phase, hand, effects and so on), each with the number of times it changed; a frame
carries numbers, any field of it may arrive damaged, `fieldsOf` says which item is lost with it, and
a dropped connection loses what is in flight. The end of a match, and the phases and the turn that a cast may end by
`autoAdvance`, are part of the handlers; one `phase_changed` stands for those of the phases passed over. A frame carries the match as it
was when the frame was made, which in a cast is not always as it is when the frame is sent: `late` remembers the items whose last frame was
out of date. `MatchStore` has the values: `applyServerEvent` case by
case. `ClientSession` puts a connection and a session around that store: `c` is the connection
(its state, ticket, socket, timers, what is held back for spacing), `srv` the server as far as its answers go
(queued, in a match, closed, with the reason of the closing), `old` the socket that only the
server still sees. Every generation of the code is a value that is dropped.

### Account, Social, Decks, Screen, Bot, Answers

`Account` and `Social` model both ends, since the question is what the two make of each other; requests and answers are under
way together, and are read in any order. In `Account` the storage of the device is a third party: `saveTokens` changes the memory at
once and queues a save (`saving`, in order), and what follows the `await` in the code, the screen and whoever waits, is a step of its
own (`Saved`). An answer may be lost or come from a server that fails (`Failures`). `Social` also says what every screen offers of another
user (`Offered`) and what the server would answer (`OutcomeOf`). `Decks` has the server's rules of the active deck
and the screen that edits while requests are under way. `Screen` is the four
things a user may be in the middle of while frames change the match below, its end included, which drops none of them. `Bot` is the driver with
its own timer, against the room as far as it hears it. `Answers` is a page that shows a list: the request (held for a
while, when it is a search), the answer read field by field, the entries that are dropped or repaired, the actions the entries
offer and what their refusal is told as. `Texts` has the sentences of the two servers as names, with the code each
becomes; its assumption `TextsAreKnown`, which TLC evaluates, says that no sentence of a server is read as another one.

## Runs

`CHECK_DEADLOCK FALSE` everywhere: every bound, and the end of a game, is a place where the
system really has nothing left to do. All runs end well within five minutes with two workers.

| Run | Module, states | Bounds | What it shows |
|---|---|---|---|
| `match_cards` | `MCMatch`, 27,450 | 7 turns, hand of 2, cap of 3 mana, 1 lost piece a move | `MatchSound`, `TurnsPay`, `TurnsSpec`. Seven turns of the card game with four shapes of spell: no sequence of casts, draws, triggers and skipped phases loses a card, spends mana nobody had, misses a draw, or leaves the match resting where its player can do nothing; and the match implements TurnCycle. |
| `room_play` | `Room`, 157,956 | 2 strikes, 3 turns, 1 connection each, no restart; `FairSpec` | `BoardAndMatch`, `StrikesAreDistinctPhases`, `StruckPhasesEnd`, `OfferLapses`, `KeepsGoing`. Three turns of a room: handlers and the clock goroutine in any interleaving keep board and match in step, count a strike once a phase, and end the phase it was counted for; and under fairness of the server alone no phase and no absence lasts for ever and every end is announced. |
| `room_connections` | `Room`, 409,550 | 2 strikes, 1 turn, 2 connections each, 1 restart | `EndsOnceAndKnown`, `DisconnectedIsTimed`, `NoForfeitWhilePresent`, `FrozenAfterEnd`. Connections that break, come back and are replaced, abandonment timers whose callbacks wait for the lock, and one restart: a game ends once, everybody present learns of it, the absent are timed and the present never forfeit. |
| `lobby` | `MCLobby`, 350,598 | 3 users (symmetric), 3 connections in all, 2 games, 2 challenges | `LobbySound`, `PlayersCanReturn`, `ConnectionsAreServed`. Queue, challenges, bot games, reconnections, broken connections and the late removal of rooms of the Go server: one game per user, reachable by its players, and no connection left behind. |
| `gateway` | `Gateway`, 115,835 | 2 users, 3 connections (symmetric), 1 room | `PlayersCanReturn`, `NoForgottenConnection`, `AbsentAreTimed`, `OfferLapses`. The same doors as the client's own server has them (gateway.ts, one callback at a time), down to the seats of the rooms: connections that are replaced, challenges that expire, a bot that leaves and comes back, a restart of the rooms and draw offers. |
| `live_store` | `LiveStore`, 95,524 | 5 changes, 2 stops, 2 failures | `RowSound`, `DeletedForGood`, `SavedBeforeDeleted`, `DurableSpec`. Snapshot writes in any order, the end of the match, shutdowns, crashes and failing statements: the row never goes back, a deleted row never returns, and nothing that was to be kept is lost; LiveStore implements Durable. |
| `spell_room` | `MCSpellRoom`, 10,450 | eleven matches of 2 or 3 turns, up to four spells a side | `BoardIsSound`, `MoverHasAMove`, `MovesShownAreAccepted`, `TargetsShownAreAccepted`, `FrozenStays`. Eleven short matches on the real board, with all the effects of the catalog: whatever is cast, moved, set off by runes, shields and triggers, passed or timed out, the tracker follows a position that stays one of chess, pieces are neither lost nor made, effects lapse on time, a player who must move can, and what the client lights up is what the server accepts. |
| `client_session` | `ClientSession`, 190,713 | 1 move, 1 card; `FairSpec` | `Driven`, `SessionAgrees`, `InSync`, `AnswerToCome`, `KeepsTrying`. Connection, session and store of the client against a server that answers, drops, closes and restarts: a connection that goes on has exactly one thing to wait for, the store shows what the server holds once all is read, nothing waits for an answer that is not to come, and attempts never stop. |
| `client_parts` | `MCClientParts`, 1,090,953 | see below | `ViewIsFaithful`, `PagesAreFaithful`, `SessionIsSound`, `SocialIsSound`, `DecksAreSound`, `ControlsAreSound`, `BotIsSound`. Seven parts that share no state, one at a time: frames that are read wrong, tokens that are renewed while they expire and the device saves them, answers that overtake each other, deck saves that cross, controls used on a position that has gone, a virtual opponent that must not fall asleep, and pages whose lists arrive late or damaged. |
| `spell_room_walk` | `MCSpellRoom` | one match, 1 turn | violates `TrackerFollowsBoard`: A king that walks from f1 to g1 beside its rook on h1 is taken for a castling king by the tracker: the identity and the effects of the rook go to f1, the rook stays on h1. |
| `offer_answered` | `ClientSession` | as `client_session` | violates `OfferAwaitsAnswer`: A declined draw offer stays on the screen of the player who declined it, and takes the place of the buttons, until they move. |
| `wire_skip` | `Wire` | 2 events | violates `BoardIsShown`: Giving up the second move that Fretta grants changes the side to move of the board, and no frame carries it: both clients keep the position with the wrong side to move. |

The properties, with what each says, are at the end of their modules; compound ones are conjunctions of
named parts.

### Why the bounds are enough

- `match_cards`: in seven turns White begins its fourth, so the schedule passes the cap of three; decks of
  four cards run empty. The four spells cover a cost that needs several turns and main 1 only,
  a free card with a limit per turn that gives mana, a card that draws, and a plain one.
- `room_play`: `MaxStrikes` is 3 in the code; with 2 the last strike, one before it and the
  reset are all there. Three turns let a grant of the second move, an offer or a key survive into the
  same player's next turn if anything let them.
- `room_connections`: a second connection of each player is the one that replaces, and the restart gives
  new ones. Turns are not what these properties are about.
- `lobby`: three users are what a challenge and the queue need to compete for one of them; the challenges of
  three users with two rooms give every pair of pairings.
- `gateway`: two users, three connections and one room: one connection that replaces, or comes back, while the other
  player plays, and both doors for the same two. The user of a bot match is always white. `Gateway` has at most one open challenge at
a time (`challenge`), where `store/challenges.ts` keeps one for each challenger: with two users that leaves out only the one each makes
to the other. With one room the part of `PlayersCanReturn` about two matches at once has nothing to say; it is left to `lobby`, which has two.
- `live_store`: three pending writes have all their orders; two stops give a shutdown after a crash and the other way round.
- `spell_room`: the space of all positions is out of reach, so eleven short matches put together what must not be kept
  apart: castling with rights given back, over a rune; runes and a sanctuary where en passant
  happens; runes set off by their owner; shields, triggers, frozen and shattered pieces; promotions by
  move and by spell; walls and the second move; the graveyards; pieces that pass through others or
  change kind; a mate; a player left with no move that is not blocked. `aim` and `reach` are the
  squares the spells and the moves of a match may use. The catalogue has the effects of `spells.json` with
  the amounts of a small board. The coverage of the run shows that every case of the effects is reached.
- `client_session`: a connection that is up to one batch of frames behind meets every order the code distinguishes, because
  a later generation drops what was in flight; one move and one card are enough for a preview or a cast to be lost. The
  other player waits for one who is away; the user's first match may be against a bot, from the queue or a
  challenge (the last two are one `wait`). Frames sent to a socket that closes are not delivered. The frames of one
  behaviour are about cards, effects or offers, not all of them: the reducer never reads one to write another.
- `client_parts`: seven modules checked in one run, one part per behaviour. `Wire`: two
  events, each a handler, a damaged field or a dropped connection (a loss, and the handler that must mend or report it). `Account`: two users, two
  requests at once, two saves of the device (with as many the user does not log out), one pair of tokens that ages once, one restart. `Social`: three people (a pair and one who is at a limit), limits of one, three requests handled, two presence
  signals. `Decks`: decks of three cards of two kinds, at most two, three writes, one lost answer. `Screen`: two positions, one
  notice of the server and two refusals. `Bot`: four turns, four cards that may be cast once a turn, two offers. `Answers`: two entries (symmetric), two requests for the list, one
  change of it in the server, one answer damaged or lost. Each part was also
  run alone, and every action of each is taken.

## Findings

1. **A king beside its rook** (`spell_room_walk`). `movePiece` takes every king that arrives on g1, c1, g8 or c8
   for one that castles, and `moveCastlingRook` (`game/tracker.ts:115`) moves whatever identity stands on the corner.
   A king that walks from f1 to g1, with its rook on h1, sends the identity and the effects of the rook
   to f1. `effects/tracker.go:112` has the same code, under a comment that says the king moved by two files.
2. **The skipped second move** (`wire_skip`). Giving up the second move of Fretta restores the position with the
   other side to move; phase and effects are sent, `game_state` is not (`game/room.ts:443`). `ws/protocol.ts:105` says
   it comes after every change of the board.
3. **The declined offer** (`offer_answered`). Nothing clears the offer in the store of the player who declines it
   (`store/matchStore.ts:427`): the box stays, in place of the buttons, until that player moves.

## What is known not to hold

These were met while modelling. Each is kept out of the passing runs by a parameter, a bound or a hypothesis in the property, named here.

- **A rematch may lose its room.** `RemoveRoom` (`game/manager.go:180`) and `onEnded` of the gateway delete by name; a new
  queue game of the same two players in the same order has that name. `Lobby`: `Rematch = TRUE`; in `Gateway` such a
  pairing waits for the removal.
- **Two doors.** `JoinQueue` does not look at the slots of challenges, nor the gateway's queue: a user in both may get two games. `TwoDoors = TRUE`,
  `OtherDoors = TRUE`.
- **Saved twice.** A crash between `SaveGame` and `DeleteLiveMatch` brings a finished match back at the next start, and it
  is saved, and rated, again. `SavedBeforeDeleted` says what does hold.
- **One phase, two strikes.** `expirePhase` counts the strike, unlocks, and passes the phase later; a shutdown in between stores
  the strike and the old phase, which may expire and count again. `room_play` has no restart, and the theorem
  `StrikesAreCounted` says `restarts = 0`: a restart forgets the pass that was to come and keeps the strike.
- **A new match behind an old screen.** A connection reopened with the parameters of its first opening may queue the user, or start
  another bot match, if the first one ended meanwhile, while the screen still shows it (`screens/Match/Match.tsx:231`).
  `SessionAgrees` is about the session and the store, which agree even then.
- **`refresh()` and a session that changed hands.** The tokens of a renewal are saved without asking whether the session is
  still the one it was for; and a request sent before a logout and repeated after the next login ends the new session if its second
  answer is a 401 (`api/http.ts:77`). `Account` remembers both in `raced`; `EndsOnlyIfRefused` and `OneUser` speak of the other runs.
- **A server that fails ends the session.** Only a lost answer and the rate limit count as "unreachable"; a 5xx, a proxy without a server or
  an answer that cannot be read, at a renewal or at the first `/me`, expires the session and forgets its tokens
  (`store/authStore.ts:94`, `120`). `EndsOnlyIfRefused` counts these among the refusals and says that nothing else ends a session.
- **A 401 while a logout is being saved.** The memory is empty, the screen still says signed in, and `expire` takes the session the user just left for an
  expired one (`store/authStore.ts:98`). `raced` remembers that too.
- **An aim outlives the match.** `useCasting.ts:59` compares position and phase, and `game_over` changes neither: a spell aimed, or a piece selected, before the end can
  still be sent after it, while the socket is open. The server refuses it. `SendsWhatIsShown` holds all the same: it is of the position and
  the phase shown.
- **A hand size told too late.** A spell that destroys a piece of its own caster (Patto di sangue) sets off the caster's trigger that draws before the card
  cast leaves the hand: the `hand_size_changed` sent with the draw comes after the one of the cast and counts that card once more
  (`game/room.ts:1320`; `game/room.go:1949`, `events.go:44`). Nothing corrects it until the next frame about the hand's size. `ChangesAreAnnounced` allows a late frame
  of the hand sizes and of nothing else.
- **Edits during a save** are lost when its answer comes (`lateEdit` in `Decks`), and a presence answer that was
  overtaken brings back a challenge already answered (`overtaken` in `Social`).
- **A drag and an open promotion outlive their position**: `SendsWhatIsShown` speaks of taps and casts, and the server refuses the rest.
- **Castling takes a frozen rook along.** The handlers ask only whether the piece on the move's own square is frozen
  (`game/room.ts:324`, `isPlayable` at 996, `room.go:1820`), and `PROTOCOL.md:250` says that a frozen piece cannot move. `FrozenStays` excepts
  the rook of a castling; the match `Frozen` of `MCSpellRoom` has the case.
- **The client does not know the limit of casts per turn**: a card at its limit is offered and refused
  (`TargetsShownAreAccepted` leaves it out).
- A bot of the scenario with a restart that misses `game_over` comes back to a room that has ended, whose handlers refuse what it sends.

## Fairness

`Room!FairSpec` asks weak fairness of what the server does by itself and of nothing a player does:

- the clock's tick, its expiry steps and its pass: `runTimer` has a ticker of 100 ms and its goroutine
  is always ready to run; a phase has a finite time, so a tick that finds it gone is not put off for ever;
- an armed abandonment timer fires (`time.AfterFunc`) and a callback that waits for `r.mu` gets it, since every
  critical section is finite and Go's mutexes hand over to starving waiters;
- `Reconnect` follows `isActive`, and `announceEnd` follows `finishLocked`, in the same goroutine.

Under these, without a single message from a player, `KeepsGoing` holds: every phase ends, every absence is resolved
and every end is announced. `PhaseEnds` leaves out main 2 of the last turn, where the bound on turns and not the code
stops the clock.

`ClientSession!FairSpec` asks weak fairness of the client's timers (retry, silence), of the answer to a ticket request (which may be a
failure: `fetch` settles), of a handshake, which ends one way or the other, and of the closing of an old socket. Nothing is
asked of the user, and nothing obliges the server to accept. Under these `KeepsTrying` holds: a client that
waits for its next attempt makes it or is told to stop, and a socket that died unnoticed is found out by the silence timer.
`Bot` states its liveness as safety (`Woken`: while the bot has something to do, a timer is armed; `TriesEnd`: each phase leaves it a bounded
number of tries), since the run it is part of has no fairness.

## Proofs

TLAPS (SMT, Zenon, LS4) checks the theorems for every value of the constants: any `MaxStrikes`, any
number of turns, connections, restarts, changes, crashes and failures. The assumptions are those the modules
name: natural numbers for the bounds, with at least one strike, turn, connection and change (`BoundsAssumption`); what
stands for nobody, for no connection and for the bot is not a user or a connection (`Gateway`, `Lobby`); the catalogue
is a finite set, and each spell has its cost, phases, limit and effects (`CatalogAssumption` of `Match`); people are finitely many,
a user may have a request out and a deck (`PartsAssumption`), and the starter deck can be played (`StarterAssumption`), which the tests of the
decks say of the real one. TLC evaluates them.

- **`Match_proofs`**: `MatchIsSound`, `EveryTurnPays` and the refinement `MatchImplementsTurnCycle`, for any catalogue, decks,
  hand limit, cap of mana and number of turns. The inductive invariant is `Kept(match) /\ Rests(match)`. `Kept` holds in the
  middle of a handler too: hand, deck and discard pile together hold each card as often as the deck of the player did, what was spent in a
  turn is backed by the mana of that turn and of the spells cast in it, and no deck holds more than the draws of the turns begun
  have left of it (`Owed`). `Rests` says that between two handlers the match stands where its player can act. The walk of
  `AutoAdvance` is three steps of `Step`, each of which keeps `Kept`, and the third is at rest. Counting cards needs sums over bags: their lemmas (the sum of two bags, of a
  bag with one card more) come from the least-number principle on the size of the set summed over, since induction itself is out
  of reach (below). The invariant was checked on `match_cards` before it was proved.
- **`Room_proofs`**: `TypeCorrect`, `EndsOnce`, `EndIsFinal`, `EndReachesAll`, `EndIsSettled`, `AbsentAreTimed`,
  `PresentDoNotForfeit`. Two lemmas on the phases open the module: an opponent is a player, and `NextRest` spelled out by
  phase. Then three inductive invariants, each used by the next. `Typed` is the type invariant with two
  facts it needs to be kept: strikes stay below the limit while the game runs (else counting one more would leave
  the type), and who is joining still has a connection number left. `Stopped` says what `finishLocked` stops (no timer in
  charge, one ending due or announced): without it the end could be reached twice. `Watched` ties the timers to the
  connections: a player of a running game whose connection is gone has a timer, and a timer in charge
  belongs to the player's last connection, which is gone.
  The second half of the module is about turns: `SidesAgree`, `GrantStaysInTurn`, `TurnsHaveMoves`, `BoardFollowsMatch`, `OffersLapse`,
  `StrikesAreCounted`, `StruckPhasesAreOver`. The inductive invariant `InTurn` relates board
  and match: the side to move is the active player's except in main 2, a second move belongs to the turn and the
  player it was given to, and the plies lie between one and two per finished turn. For the strikes, `Counted` says that
  every phase counted comes before the one the match is in, or is that one with the clock about to pass it, so that the next
  count is of another, and the struck one is over when the clock is done; a restart breaks that (see above), hence `restarts = 0`.
- **`Lobby_proofs`**: `ConnectionsServed`, `TypeCorrect`, `NobodyIsLedAstray`, for any users, connections, rooms and
  challenges, and with no hypothesis: rematches and two doors are in. The invariant `Base` is the types, where each open connection is known,
  and that the games the map and the index lead to are games the user plays in. That users are led back at all, and play one game at
  a time, fails with a rematch or two doors (see above); where neither happens it is model-checked (`PlayersCanReturn`, `LobbySound`).
- **`LiveStore_proofs`**: `TypeCorrect`, `DeletedStaysDeleted`, `StoreImplementsDurable`, `RowCatchesUp`,
  `ShutdownIsKept`, `RowIsSound`, `SavedFirst`. The invariant `Ordered` has four parts: types, `Numbered` (the snapshots still to be
  written are numbered in the order of their states), `Placed` (`savedSeq` divides them into those the row has
  overtaken and those it has not), and `Settled` (what a stopped process, a row and a deletion mean for the rest:
  after the deletion nothing can write). `Numbered` is what makes the comparison of sequence numbers in
  `writeSnapshot` a comparison of states. `Kept` adds that, as long as no statement has failed, the last change is in
  the row or still to be written, and a finished game is saved before its row goes.
- **`Gateway_proofs`**: `NoneForgotten`, `AbsentTimed`, `OffersLapse`, for any users, connections and
  matches, under `~OtherDoors`: a user who waits at one door does not come in by another (see "Two doors" above). The invariant has two halves. `RoomsOk` ties the matches
  in course, the map of names and the index of the users together, and says that no name in the index is unknown to the map. `ConnsOk` says
  where every connection is known, who waits, and who has a seat. It is an operator of the connections, the queue and the challenge, so that the
  steps inside a handler (a connection is opened, another is closed, a match begins) are lemmas that follow one another.
  `PlayersCanReturn` of the gateway is model-checked only: two doors are what would break it, and nothing in `gateway.ts` excludes them.
- **`ClientSession_proofs`**: `ConnectionIsDriven`, `SessionAndStoreAgree`, `StoreFollowsServer`, `AnswersFreeTheHand`, for matches and
  hands of any length. `Sound` and `DrivenBy` say what each function of `connection.ts` makes of a connection, one lemma per
  function, so that a handler is the composition of the lemmas of what it calls. Session and store agree only because of what is
  still on its way: `BeginsFirst` says that a store in the queue finds a `game_state` first among its frames and no
  `game_over` at all. Without it a match could end that the session never saw begin, with the wait still noted.
  The last two theorems compare the store with the server when everything has been read, and nothing in the state of that moment
  says why they agree. `Follows` says it at every moment: what the store will be once the frames on their way are applied in their
  order (`Applied`, four at most, so four readings and no recursion) is in step with the server already. Reading a
  frame changes nothing in that outcome, and what the server does changes both ends; there is one lemma per kind of
  frame (a welcome, a pass, a freeze, a cast, an offer, a refusal, a roll of the second move). `Follows` was checked on
  `client_session` before it was proved.
- **`ClientParts_proofs`**: `ControlsKeepPace`, `BotGoesOn`, `SocialHolds`, `DecksHold`, one for each of four of the seven parts, which share no state. For the
  screen, a piece selected by a tap is of the position shown and a spell is aimed on the position and in the phase shown, since a render
  drops what it finds old, and the end of the match, which drops nothing, changes neither; for the notices, how the keys by which one notice replaces
  another are ordered by the count of events. For the bot, `InStep` and `Awake`: whatever handler
  runs, on whoever's behalf, the driver hears of its turn, of the end and of an offer unless it is gone, and remembers the
  spells refused in the phase that runs.
  For the friends, a handler of the server takes links and challenges away or adds one that its checks allow; on the device, an id names one
  challenge for ever, so that the answers that have it are an interval of all the answers, and only an answer overtaken by another
  can bring it back (`Intervals`, `KeptAway`).
  For the decks, the outcome of each write is described once (`Writes`: which rows may go, change or come), and the screen by what
  the answers still to be read make of it. `AllTold`: whatever a later list lacks or has otherwise is in a deletion or a save
  still to be read, so a draft is replaced only by what was saved of it or on the user's word. `AllLead`: read in their order, the answers
  lead from the list shown to the rows of the server. Neither can be seen in the state where it matters, when nothing is under way.
  `DecksKept` was checked on the decks of `client_parts` before it was proved.
- **`ClientView_proofs`**: `SessionHolds`, `PagesHold`, for the two parts that show what REST answers. For the accounts, `OneSession`: while no session changed
  hands with an answer to come, whatever is under way (tokens, the copy on the device and what it has still to save, requests with
  their answers, the renewal several of them wait for) belongs to the session there is. The saves in line end with the tokens in memory, each is waited
  for by one request or by none, and which saves may follow which says what the screen will show (`SavesOk`).
  The proof failed at first, at the repeated request told above under `refresh()`, and the ghost of the model was corrected for it.
  For the pages, `PagesKept`: every request awaited asks for the text now typed, and a search that shows results of
  another text awaits one; the action under way was offered by what the server had answered of its entry, unless that entry was the one
  damaged, and until the server answers it, so that a refusal for the entry's sake means that it changed; what is
  refused is one of thirteen texts, of which `RefusalsAreRead` says that the tables of the adapter give each its own code.

Only model-checked, and why:

- liveness (`KeepsGoing`, `KeepsTrying`) and whatever rests on fairness: out of the prover's reach;
- `LobbySound` and `PlayersCanReturn`, which hold only where no name is taken again and nobody waits at two doors: the code excludes neither, so
  they are checked with the parameters that do, and no theorem rests on them;
- `ViewIsFaithful`: frames of a handler that carry the match at different moments, over all the handlers;
- `SpellRoom` (`BoardIsSound`, `MoverHasAMove`) and `Highlights` (`MovesShownAreAccepted`, `TargetsShownAreAccepted`): about thirty
  effects over an eight by eight board, folded over sequences; what a fold computes for every sequence needs induction over data, which
  this prover cannot be given (the theorems of induction take an operator as a parameter). `BoardIsSound` is moreover no theorem: it fails
  where a king walks onto a square of castling (`spell_room_walk`), and holds of the matches where none does. `FrozenStays` rests on it, for
  the pawn that an en passant captures.

## What is not modelled

- The search of Stockfish, the scores by which the bot chooses a move, a card or a target, the
  generation of chess moves inside chess.js: external or heuristics. The models take any outcome, or the promise.
  In `Bot` a move sent is taken as accepted, since the bot asks the room's own rules for it.
- The Go package `effects/`: its TypeScript port is modelled, function by function; the Go files themselves are not
  mapped. Neither are the Go handlers of friends, decks and accounts, which do in several SQL statements what the modelled TypeScript does in one
  step (the hazards list what may go wrong between the statements).
- Time as a quantity: any tick may be the one that finds the phase's time gone. Timers have an order, not a length.
- Third repetition (it needs eight half moves), the counters of a FEN, the identities kept in graveyards.
- Frames that do not parse at all, which the adapter reports as a whole; only fields of a frame are damaged.
- Validation of names and passwords, cryptography, rate limits, the arithmetic of the rating.
- Lists cut to a length, malformed rows and search in `Social`; filters and the display of cards in `Decks`. The server's
  `updated_at` has a resolution of seconds, so two saves within one do not mount the editor anew; the model always does.
- The preview of cards, long presses, layout, drawing, texts, routes, the native shell, scripts and deployment: no state whose order could go wrong.
- `Room.Restart` is the graceful one. The crash that goes back to an older row is in `LiveStore`, where it is
  an older state number. `Lobby` has no restart: queue and challenges are lost with the memory.
- `LiveStore` assumes that a failed statement changed nothing and that a write in flight dies with the process.

## Plan

What could be added, in the order of what it would tell:

1. the Go `effects/` package mapped onto `Tracker`, where the two differ;
2. `friendships.go` statement by statement, with crossed requests, as a second implementation of what `Social` has in one step;
3. composition of `ClientSession` with `Gateway`, for the match that begins behind an old screen;
4. the lost update of the rating, as two transactions over two rows.

## Running it

    tlc -workers 2 -config room_play.cfg Room
    tlc -workers 2 -config spell_room.cfg MCSpellRoom
    tlapm Room_proofs.tla

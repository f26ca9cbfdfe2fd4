----------------------------- MODULE ClientParts -----------------------------
(***************************************************************************)
(* Seven parts of the client and of its server that share no state: the    *)
(* view of a match (Wire), the account (Account), friends and challenges   *)
(* (Social), the decks (Decks), the controls of the board (Screen), the    *)
(* virtual opponent (Bot) and the lists of the pages (Answers).  Every     *)
(* behaviour is a behaviour of one of them: the part is chosen at the      *)
(* start, and the variables of the others stay unused.                     *)
(***************************************************************************)
EXTENDS Naturals, FiniteSets

CONSTANTS WireEvents,
          Users, NoUser, MaxCalls, MaxAge, MaxLogins, MaxRestarts, MaxPrivate, MaxSaves,
          People, Me, AllFriends, MaxFriends, MaxPendingOut, SocialHandled, MaxSignals,
          Spells, rarity, DeckSize, MaxDecks, MaxWrites, MaxLost, MaxEdits,
          MaxPositions, MaxNotices, MaxRefusals,
          MaxTurns, MaxOffers,
          Entries, NoEntry, MaxAsks, MaxListChanges, MaxFailures

ASSUME PartsAssumption ==
  /\ NoUser \notin Users /\ NoEntry \notin Entries
  /\ Me \in People /\ IsFiniteSet(People) /\ AllFriends \in BOOLEAN /\ MaxPendingOut >= 1 /\ MaxDecks >= 1
  /\ rarity \in [Spells -> {"common", "rare", "legendary"}]
  /\ {WireEvents, MaxCalls, MaxAge, MaxLogins, MaxRestarts, MaxPrivate, MaxSaves, MaxFriends, MaxPendingOut, SocialHandled,
      MaxSignals, DeckSize, MaxDecks, MaxWrites, MaxLost, MaxEdits, MaxPositions, MaxNotices, MaxRefusals,
      MaxTurns, MaxOffers, MaxAsks, MaxListChanges, MaxFailures} \subseteq Nat

VARIABLES part,  \* the part that runs
          truth, turn, fretta, inFlight, shown, hasGame, myColor, suspect, sinceFull, late,
          accounts, age, refreshFrom, tokens, stored, saving, screen, calls, refreshing, refused, raced,
          links, blocks, gone, hidden, seen, playing, challenges, signals, incoming, dismissed, answered, overtaken,
          decks, stamp, state, requests, editor, stale, lateEdit, lost,
          game, open, castSent, selection, dragging, promotion, targeting, notices, dropped, newest, shownOnce, last,
          behavior, driver, room,
          page, listed, asks, view, query, act, told, sent,
          latest,  \* of Social or Decks
          left     \* of every part but the controls and the bot

W == INSTANCE Wire WITH MaxEvents <- WireEvents
A == INSTANCE Account
S == INSTANCE Social WITH MaxHandled <- SocialHandled
D == INSTANCE Decks
C == INSTANCE Screen
B == INSTANCE Bot
P == INSTANCE Answers

(* The deck everyone starts with can be played (mock-server/game/decks.test.ts). *)
ASSUME StarterAssumption == D!isValid(D!starterDeck)

ofWire    == <<truth, turn, fretta, inFlight, shown, hasGame, myColor, suspect, sinceFull, late>>
ofAccount == <<accounts, age, refreshFrom, tokens, stored, saving, screen, calls, refreshing, refused, raced>>
ofSocial  == <<links, blocks, gone, hidden, seen, playing, challenges, signals, incoming, dismissed, answered, overtaken>>
ofDecks   == <<decks, stamp, state, requests, editor, stale, lateEdit, lost>>
ofScreen  == <<game, open, castSent, selection, dragging, promotion, targeting, notices, dropped, newest, shownOnce, last>>
ofBot     == <<behavior, driver, room>>
ofPages   == <<page, listed, asks, view, query, act, told, sent>>
vars == <<part, ofWire, ofAccount, ofSocial, ofDecks, ofScreen, ofBot, ofPages, latest, left>>
-----------------------------------------------------------------------------
Unused == 0
NoWire == /\ truth = Unused /\ turn = Unused /\ fretta = Unused /\ inFlight = Unused /\ shown = Unused
          /\ hasGame = Unused /\ myColor = Unused /\ suspect = Unused /\ sinceFull = Unused /\ late = Unused
NoAccount == /\ accounts = Unused /\ age = Unused /\ refreshFrom = Unused /\ tokens = Unused /\ stored = Unused /\ saving = Unused
             /\ screen = Unused /\ calls = Unused /\ refreshing = Unused /\ refused = Unused /\ raced = Unused
NoSocial == /\ links = Unused /\ blocks = Unused /\ gone = Unused /\ hidden = Unused /\ seen = Unused /\ playing = Unused
            /\ challenges = Unused /\ signals = Unused /\ incoming = Unused /\ dismissed = Unused /\ answered = Unused
            /\ overtaken = Unused
NoDecks == /\ decks = Unused /\ stamp = Unused /\ state = Unused /\ requests = Unused /\ editor = Unused
           /\ stale = Unused /\ lateEdit = Unused /\ lost = Unused
NoScreen == /\ game = Unused /\ open = Unused /\ castSent = Unused /\ selection = Unused /\ dragging = Unused
            /\ promotion = Unused /\ targeting = Unused /\ notices = Unused /\ dropped = Unused /\ newest = Unused
            /\ shownOnce = Unused /\ last = Unused
NoBot == behavior = Unused /\ driver = Unused /\ room = Unused
NoPages == /\ page = Unused /\ listed = Unused /\ asks = Unused /\ view = Unused /\ query = Unused /\ act = Unused
           /\ told = Unused /\ sent = Unused

Init ==
  \/ part = "wire" /\ W!Init /\ NoAccount /\ NoSocial /\ NoDecks /\ NoScreen /\ NoBot /\ NoPages /\ latest = Unused
  \/ part = "account" /\ A!Init /\ NoWire /\ NoSocial /\ NoDecks /\ NoScreen /\ NoBot /\ NoPages /\ latest = Unused
  \/ part = "social" /\ S!Init /\ NoWire /\ NoAccount /\ NoDecks /\ NoScreen /\ NoBot /\ NoPages
  \/ part = "decks" /\ D!Init /\ NoWire /\ NoAccount /\ NoSocial /\ NoScreen /\ NoBot /\ NoPages
  \/ part = "screen" /\ C!Init /\ NoWire /\ NoAccount /\ NoSocial /\ NoDecks /\ NoBot /\ NoPages /\ latest = Unused /\ left = Unused
  \/ part = "bot" /\ B!Init /\ NoWire /\ NoAccount /\ NoSocial /\ NoDecks /\ NoScreen /\ NoPages /\ latest = Unused /\ left = Unused
  \/ part = "pages" /\ P!Init /\ NoWire /\ NoAccount /\ NoSocial /\ NoDecks /\ NoScreen /\ NoBot /\ latest = Unused

WireStep == part = "wire" /\ W!Next /\ UNCHANGED <<part, ofAccount, ofSocial, ofDecks, ofScreen, ofBot, ofPages, latest>>
AccountStep == part = "account" /\ A!Next /\ UNCHANGED <<part, ofWire, ofSocial, ofDecks, ofScreen, ofBot, ofPages, latest>>
SocialStep == part = "social" /\ S!Next /\ UNCHANGED <<part, ofWire, ofAccount, ofDecks, ofScreen, ofBot, ofPages>>
DecksStep == part = "decks" /\ D!Next /\ UNCHANGED <<part, ofWire, ofAccount, ofSocial, ofScreen, ofBot, ofPages>>
ScreenStep == part = "screen" /\ C!Next /\ UNCHANGED <<part, ofWire, ofAccount, ofSocial, ofDecks, ofBot, ofPages, latest, left>>
BotStep == part = "bot" /\ B!Next /\ UNCHANGED <<part, ofWire, ofAccount, ofSocial, ofDecks, ofScreen, ofPages, latest, left>>
PagesStep == part = "pages" /\ P!Next /\ UNCHANGED <<part, ofWire, ofAccount, ofSocial, ofDecks, ofScreen, ofBot, latest>>
Next == WireStep \/ AccountStep \/ SocialStep \/ DecksStep \/ ScreenStep \/ BotStep \/ PagesStep
Spec == Init /\ [][Next]_vars
-----------------------------------------------------------------------------
(* The view of a match hides no loss and misses no change but those that   *)
(* have no frame (Wire).                                                   *)
ViewIsFaithful == part = "wire" => W!NothingLostInSilence /\ W!ChangesAreAnnounced

(* A page shows what was answered, tells an answer it could not read, and  *)
(* tells a refusal for what it is (Answers).                               *)
PagesAreFaithful == part = "pages" => P!PageSettles /\ P!DamageIsContained /\ P!RefusalsAreTold

(* A session ends only if the server refuses it, and is of one user        *)
(* (Account).                                                              *)
SessionIsSound == part = "account" => A!EndsOnlyIfRefused /\ A!OneUser

(* Links, blocks and challenges agree; what is offered is accepted; what   *)
(* was answered stays away (Social).                                       *)
SocialIsSound == part = "social" => S!SocialSound /\ S!OfferedIsAccepted /\ S!AnsweredStaysAway

(* There is always a deck to play, and the editor loses no edits (Decks).  *)
DecksAreSound == part = "decks" => D!AlwaysADeckToPlay /\ D!EditorIsFaithful

(* What is sent was chosen on what is shown, and notices move on (Screen). *)
ControlsAreSound == part = "screen" => C!SendsWhatIsShown /\ C!NoticesMoveOn

(* The virtual opponent is never left to the clock, its phases end, and it *)
(* answers the offers it should (Bot).                                     *)
BotIsSound == part = "bot" => B!BotPlaysOn
=============================================================================

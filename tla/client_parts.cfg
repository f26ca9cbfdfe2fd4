SPECIFICATION Spec
CONSTANTS
  WireEvents = 2
  Users = {u1, u2}
  NoUser = NoUser
  MaxCalls = 2
  MaxAge = 1
  MaxLogins = 1
  MaxRestarts = 1
  MaxPrivate = 1
  MaxSaves = 2
  People = {p1, p2, p3}
  Me = p1
  AllFriends = FALSE
  MaxFriends = 1
  MaxPendingOut = 1
  SocialHandled = 3
  MaxSignals = 2
  Spells = {"c", "r"}
  rarity <- MCRarity
  DeckSize = 3
  MaxDecks = 2
  MaxWrites = 3
  MaxLost = 1
  MaxEdits = 2
  MaxPositions = 2
  MaxNotices = 1
  MaxRefusals = 2
  MaxTurns = 4
  MaxOffers = 2
  Entries = {e1, e2}
  NoEntry = NoEntry
  MaxAsks = 2
  MaxListChanges = 1
  MaxFailures = 1
INVARIANTS
  ViewIsFaithful
  PagesAreFaithful
  SessionIsSound
  SocialIsSound
  DecksAreSound
  ControlsAreSound
  BotIsSound
CHECK_DEADLOCK FALSE
SYMMETRY MCSymmetry

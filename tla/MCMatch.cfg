CONSTANTS
    blood_pact = blood_pact
    frost = frost
    revelation = revelation
    haste = haste
    NoLimit = NoLimit
    Spells <- MCSpells
    Cost <- MCCost
    CastPhases <- MCCastPhases
    PerTurn <- MCPerTurn
    DrawAmount <- MCDrawAmount
    ManaGain <- MCManaGain
    Decks <- MCDecks
    StartingHand = 2
    InitialMana = 1
    MaxManaCap = 3
    MaxTurns = 7
    MaxLost = 1
SPECIFICATION Spec
INVARIANTS
    MatchSound
    TurnsPay
PROPERTY TurnsSpec
CHECK_DEADLOCK FALSE

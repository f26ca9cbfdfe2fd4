CONSTANTS
    Users = {ann, bob, cam}
    MaxConns = 3
    MaxRooms = 2
    MaxChallenges = 2
    Rematch = FALSE
    TwoDoors = FALSE
SPECIFICATION Spec
SYMMETRY UserSymmetry
INVARIANTS
    LobbySound
    PlayersCanReturn
    ConnectionsAreServed
CHECK_DEADLOCK FALSE

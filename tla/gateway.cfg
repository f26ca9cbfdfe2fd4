SPECIFICATION Spec
CONSTANTS
  Users = {u1, u2}
  Nobody = Nobody
  Conns = {c1, c2, c3}
  None = None
  BotSeat = BotSeat
  MaxRooms = 1
  OtherDoors = FALSE
SYMMETRY Symmetry
INVARIANTS
  PlayersCanReturn
  NoForgottenConnection
  AbsentAreTimed
PROPERTIES
  OfferLapses
CHECK_DEADLOCK FALSE

SPECIFICATION Spec
CONSTANTS
  Humans = {a, b}
  Bots = {}
  Nodes = {}
  Founders = {a, b}
  RoomIds = {r1}
  None = None
  LateCommands = TRUE
  IdsOf <- TwoIds
  MaxGeneration = 1
  MaxSockets = 3
  MaxPlayers = 2
  MaxTimers = 2
SYMMETRY Symmetry
CHECK_DEADLOCK FALSE
INVARIANTS
  TypeOK
  ConnectedIffSocket
  OneSessionPerName
  SessionListed
PROPERTIES
  LiveSeatKept

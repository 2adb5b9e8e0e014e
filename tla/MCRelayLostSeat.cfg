SPECIFICATION FairSpec
CONSTANTS
  Humans = {a, b}
  Bots = {z}
  Nodes = {}
  Founders = {a}
  RoomIds = {r1}
  None = None
  LateCommands = FALSE
  IdsOf <- OneId
  MaxGeneration = 1
  MaxSockets = 3
  MaxPlayers = 2
  MaxTimers = 2
CHECK_DEADLOCK FALSE
PROPERTIES
  DownSeatResolved

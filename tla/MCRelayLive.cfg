SPECIFICATION FairSpec
CONSTANTS
  Humans = {a}
  Bots = {z}
  Nodes = {n}
  Founders = {a, n}
  RoomIds = {r1}
  None = None
  LateCommands = FALSE
  IdsOf <- TwoIds
  MaxGeneration = 1
  MaxSockets = 3
  MaxPlayers = 2
  MaxTimers = 2
CHECK_DEADLOCK FALSE
PROPERTIES
  DownSeatResolved
  HumanlessGameEnds
  DeadRoomRemoved
  GameEndsForCause

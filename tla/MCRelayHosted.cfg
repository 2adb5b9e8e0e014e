SPECIFICATION Spec
CONSTANTS
  Humans = {a, b}
  Bots = {z}
  Nodes = {n}
  Founders = {n}
  RoomIds = {r1}
  None = None
  LateCommands = FALSE
  IdsOf <- TwoIds
  MaxGeneration = 1
  MaxSockets = 4
  MaxPlayers = 2
  MaxTimers = 2
SYMMETRY Symmetry
CHECK_DEADLOCK FALSE
INVARIANTS
  SeatBacked
  NoOrphanSession
  SeatNamesDistinct
  DownSeatHasTimer
  HostWatches
PROPERTIES
  LiveSeatKept
  GameEndsForCause

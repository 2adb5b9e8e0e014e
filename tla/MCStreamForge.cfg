SPECIFICATION Spec
CONSTANTS
  None = None
  NoKey = NoKey
  c1 = c1
  c2 = c2
  Keys = {c1, c2}
  Taps = {0, 1}
  Boards <- FewBoards
  Seats <- OldOrNew
  Backend = "forge"
  MaxPrompts = 2
  MaxBoards = 3
  MaxDrops = 1
  MaxClientDrops = 1
  MaxRestarts = 1
  MaxFaults = 1
INVARIANTS
  RelayBoardCurrent
  ClientBoardCurrent
  MisuseNeedsReplay
CHECK_DEADLOCK FALSE

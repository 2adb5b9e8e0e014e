SPECIFICATION Spec
CONSTANTS
  None = None
  NoKey = NoKey
  c1 = c1
  c2 = c2
  Keys = {c1, c2}
  Taps = {0, 1}
  Boards <- FewBoards
  Seats <- Players
  Backend = "manabrew"
  MaxPrompts = 1
  MaxBoards = 3
  MaxDrops = 1
  MaxClientDrops = 0
  MaxRestarts = 0
  MaxFaults = 1
INVARIANTS
  BoardRecovers
CHECK_DEADLOCK FALSE

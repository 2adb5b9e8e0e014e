SPECIFICATION FairSpec
CONSTANTS
  None = None
  NoKey = NoKey
  c1 = c1
  c2 = c2
  Keys = {c1, c2}
  Taps = {0, 1}
  Boards <- FewBoards
  Seats <- BotOrPlayer
  Backend = "manabrew"
  MaxPrompts = 2
  MaxBoards = 1
  MaxDrops = 1
  MaxClientDrops = 1
  MaxRestarts = 0
  MaxFaults = 2
INVARIANTS
  TypeOK
  OpenPromptShown
  LocalBotOnce
PROPERTIES
  KeepsLedger
  SeatNeverStalls
CHECK_DEADLOCK FALSE

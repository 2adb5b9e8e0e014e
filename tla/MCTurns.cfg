SPECIFICATION FairSpec
CONSTANTS
  p = p
  q = q
  r = r
  Players = {p, q, r}
  Order <- Trio
  Effects = {"extra", "skip", "end"}
  TriggerEffects = {"none"}
  MaxTurns = 2
  MaxDeeds = 2
  MaxRestores = 1
  MaxCheckpoints = 1
CHECK_DEADLOCK FALSE
INVARIANTS
  TypeOK
  EveryoneCouldAnswer
  AskedWhenSettled
  TurnStartsClean
PROPERTIES
  ReturnsOrSpins

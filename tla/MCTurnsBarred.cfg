SPECIFICATION FairSpec
CONSTANTS
  p = p
  q = q
  r = r
  Players = {p, q}
  Order <- Duo
  Effects = {"bar"}
  TriggerEffects = {}
  MaxTurns = 3
  MaxDeeds = 1
  MaxRestores = 0
  MaxCheckpoints = 2
CHECK_DEADLOCK FALSE
PROPERTIES
  RunReturns

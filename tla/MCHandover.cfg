SPECIFICATION FairSpec
CONSTANT Tasks = {c1, c2, c3}
CHECK_DEADLOCK FALSE
INVARIANTS
  TypeOK
  ConnectedIsClaimed
  SeatHasSession
PROPERTIES
  GoneForGood

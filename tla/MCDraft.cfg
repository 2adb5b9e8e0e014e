SPECIFICATION FairSpec
CONSTANTS
  x = x
  y = y
  Cards = {x, y}
  NoCard = NoCard
  Packs <- LongPacks
  PackSize = 3
  PodSize = 3
  NumHumans = 2
  Rounds = 2
  PicksPerPass = 2
  MaxSpare = 1
  MaxLost = 1
INVARIANTS
  TypeOK
  CardsConserved
  PickFits
  AsChosen
  EvenShares
  AwaitedCanPick
PROPERTIES
  DraftCompletes
CHECK_DEADLOCK FALSE

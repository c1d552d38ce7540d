CONSTANTS
  Deck <- OneDeck
  BottomCount = 1
  Shuffles <- OneShuffles
  MandatoryLevels <- AceOnly
  Positions <- OnePositions
  MaxRound = 3
SPECIFICATION Spec
INVARIANTS
  CardsInOnePlace
  StirringKept
  AllCardsPlayed
PROPERTIES
  RoundsFollowOn
  RoundRunsDown
  TableGame

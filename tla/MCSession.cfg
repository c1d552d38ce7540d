CONSTANTS
  Order <- Three
  Humans <- First
  Flaky <- Second
  MaxSeq = 6
  MaxFrames = 2
SPECIFICATION FairSpec
CHECK_DEADLOCK FALSE
INVARIANTS
  DecisionsKept
PROPERTIES
  ViewsDelivered
  NobodyWaitsForever

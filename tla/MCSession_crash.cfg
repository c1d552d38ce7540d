CONSTANTS
  Order <- Three
  Humans <- First
  Flaky <- Second
  MaxSeq = 9
  MaxFrames = 2
SPECIFICATION Spec
CHECK_DEADLOCK FALSE
INVARIANTS
  NeverCrashes

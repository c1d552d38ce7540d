CONSTANTS
  Turns = {2, 3, 4}
  RoundStarts = {1, 4}
  MaxSeq = 4
  MaxAttempts = 4
  MaxRestarts = 1
  Workers = {w1, w2}
  Envs = 2
  BatchSize = 2
  MaxRequests = 2
  MaxAsked = 3
  MaxVersion = 1
  MaxFaults = 2
SPECIFICATION AnswersSpec
CHECK_DEADLOCK FALSE
INVARIANTS
  AnswersFit
  SameAnswer
  NeverRefused
  FirstInformed
  DecidedOnItsOwn
  SamplesFound
  AnswersMatch
PROPERTIES
  EveryDecideEnds

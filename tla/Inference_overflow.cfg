CONSTANTS
  Workers = {w1, w2}
  Envs = 2
  BatchSize = 3
  MaxRequests = 4
  MaxAsked = 8
  MaxVersion = 0
  MaxFaults = 0
SPECIFICATION InferenceSpec
CHECK_DEADLOCK FALSE
INVARIANTS
  DecidedOnItsOwn

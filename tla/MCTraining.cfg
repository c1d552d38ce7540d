CONSTANTS
  w1 = w1
  w2 = w2
  r1 = r1
  Workers <- TwoWorkers
  ModelRanks <- OneRank
  RankOf <- ToOneRank
  ZeroWorker = w1
  ZeroRank = r1
  GameEnvs = 1
  RoundsPerUpdate = 2
  MaxCrashes = 1
  MaxRounds = 3
  MinDecisions = 2
  EveryUpdates = 1
SPECIFICATION Spec
CHECK_DEADLOCK FALSE
INVARIANTS
  GroupsInStep
  CountedIsLearnt
  CheckpointIsCurrent
  NoOrphans
PROPERTIES
  PlayedOnPolicy
  RunSettles

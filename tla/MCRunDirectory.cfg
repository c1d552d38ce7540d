CONSTANTS
  Retention = 2
  EveryUpdates = 2
  MaxUpdates = 6
  MaxResumes = 4
  MaxFaults = 2
  MaxTrainings = 2
  MaxRequests = 4
  MaxDeaths = 1
  MaxFileFaults = 1
SPECIFICATION DirectorySpec
CHECK_DEADLOCK FALSE
INVARIANTS
  ManifestsIntact
  OneTimeline
  TrainingNamed
PROPERTIES
  LatestIsARegister
  PrunesAll
  RequestsEnd

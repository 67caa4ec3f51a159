SPECIFICATION FairSpec
CONSTANTS
  Batches = {1, 2}
  Targets = {1}
  GroupOf <- PageAndText
  ImageGroups = {"img"}
  MaxAttempts = 2
  MaxImages = 2
  Interval = 2
  Window = 4
  TicksPerSecond = 1
  DrainRetry = 3
  MaxTime = 11
  MaxFaults = 1
  MaxLag = 1
  LastInsert = 1
INVARIANTS
  TypeOK
PROPERTIES
  ChecksStopSending
  KeepsPromise
  Settles

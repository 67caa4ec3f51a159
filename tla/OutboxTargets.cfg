SPECIFICATION Spec
CONSTANTS
  Batches = {1, 2}
  Targets = {1, 2}
  GroupOf <- TwoPages
  ImageGroups = {"img"}
  MaxAttempts = 2
  MaxImages = 2
  Interval = 1
  Window = 4
  TicksPerSecond = 1
  DrainRetry = 3
  MaxTime = 6
  MaxFaults = 1
  MaxLag = 1
  LastInsert = 1
INVARIANTS
  DuplicatesNeedFaults
  AttemptsBounded
  DueDrainSends
  QuotaKept
  GapKept
PROPERTIES
  PagesInOrder

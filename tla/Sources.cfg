SPECIFICATION FairSpec
CONSTANTS
  Kinds = {"issues", "search", "market"}
  Ids = {1, 2, 3}
  PerPage = 1
  MaxPages = 2
  Tolerance = 2
  MaxChanges = 2
  MaxFaults = 2
INVARIANTS
  TypeOK
  Covers
  Grounded
PROPERTIES
  Converges

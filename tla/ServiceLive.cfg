SPECIFICATION FairSpec
CONSTANTS
  Checks <- OneCheck
  Edits <- OneEdit
  Delivers <- OneDeliver
  Automatic = FALSE
  MaxFaults = 1
  Nobody = Nobody
  MaxReloads = 1
  c1 = c1
  e1 = e1
  d1 = d1
PROPERTIES
  Drained
  CommandsEnd
CHECK_DEADLOCK FALSE

SPECIFICATION Spec
CONSTANTS
  Checks <- OneCheck
  Edits <- OneEdit
  Delivers <- OneDeliver
  Automatic = TRUE
  MaxFaults = 0
  Nobody = Nobody
  MaxReloads = 1
  c1 = c1
  e1 = e1
  d1 = d1
INVARIANTS
  TypeOK
  WorkWatched
PROPERTIES
  NoLostUpdate

SPECIFICATION Spec
CONSTANTS
  Checks <- OneCheck
  Edits <- OneEdit
  Delivers = {}
  Nobody = Nobody
  Automatic = FALSE
  MaxReloads = 1
  MaxFaults = 0
  c1 = c1
  e1 = e1
  d1 = d1
PROPERTIES
  NeverOverwritten
CHECK_DEADLOCK FALSE

SPECIFICATION Spec
CONSTANTS
  SyncsDirectory = TRUE
  LastState <- LastSaved
  MaxFaults = 2
  MaxPowerLosses = 1
  MaxRots = 2
  MaxBlinks = 2
INVARIANTS
  TypeOK
  NeverLost
  Recoverable
PROPERTIES
  NewerUntouched
  ImplementsRegister

SPECIFICATION RegistrySpec
CONSTANTS
  rowA = rowA
  rowB = rowB
  plain = plain
  edited = edited
  none = none
  uiThread = uiThread
  jobThread = jobThread
  NDevices = 2
  NCols = 2
  First <- OneColumn
  Settled = {}
  Required <- OneColumn
  Pk <- OneRow
  Val <- TwoValues
  Default = plain
  None = none
  MaxStamp = 2
  Drift = 0
  Readings <- Stopped
  Writers <- FirstWrites
  Input <- OnlyEdited
  ReuseKeys = FALSE
  Callers <- TwoCallers
  Restarts = {1}
SYMMETRY CallerSymmetry
INVARIANTS
  RegistryTypeOK
  VVIsHighest
  StampsUnique
PROPERTIES
  Implements
  TouchedRowsCatchUp
CHECK_DEADLOCK FALSE

SPECIFICATION Spec
CONSTANTS
  rowA = rowA
  plain = plain
  edited = edited
  none = none
  NDevices = 2
  NCols = 2
  Pk <- OneRow
  Val <- TwoValues
  Default = plain
  None = none
  Required = {}
  MaxStamp = 3
  Drift = 100
  Readings <- Stopped
  Writers <- AllWrite
  Input <- TwoValues
  ReuseKeys = FALSE
PROPERTIES
  EditsSurvive
CHECK_DEADLOCK FALSE

SPECIFICATION UpgradeSpec
CONSTANTS
  rowA = rowA
  rowB = rowB
  plain = plain
  edited = edited
  none = none
  uiThread = uiThread
  jobThread = jobThread
  NDevices = 2
  NCols = 2
  First <- OneColumn
  Settled = {1}
  Required = {}
  Pk <- OneRow
  Val <- TwoValues
  Default = plain
  None = none
  MaxStamp = 4
  Drift = 100
  Readings <- Stopped
  Writers <- AllWrite
  Input <- OnlyEdited
  ReuseKeys = FALSE
  Callers <- OneCaller
  Restarts = {}
PROPERTIES
  DefaultsStayHome
CHECK_DEADLOCK FALSE

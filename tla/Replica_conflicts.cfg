SPECIFICATION Spec
CONSTANTS
  rowA = rowA
  plain = plain
  edited = edited
  none = none
  NDevices = 2
  NCols = 1
  Pk <- OneRow
  Val <- TwoValues
  Default = plain
  None = none
  Required = {}
  MaxStamp = 4
  Drift = 100
  Readings <- Stopped
  Writers <- AllWrite
  Input <- TwoValues
  ReuseKeys = FALSE
INVARIANTS
  LastWriterWins
  RowsShowNewest
  TablesConverge
PROPERTIES
  WritesSortLast
CHECK_DEADLOCK FALSE

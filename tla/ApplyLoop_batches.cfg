SPECIFICATION Spec
CONSTANTS
  rowA = rowA
  plain = plain
  edited = edited
  none = none
  NDevices = 2
  NCols = 2
  Pk <- OneRow
  Val <- TwoValues
  Default = plain
  None = none
  Required = {1}
  MaxStamp = 2
  Drift = 1
  Held <- UpToTwo
  Batches <- UpToThree
  Clocks = {0, 2}
  Readings = {0, 1}
  MaxClock = 3
INVARIANTS
  TypeOK
  LoopIsOneStep
  BatchingLeavesNoTrace
CHECK_DEADLOCK FALSE

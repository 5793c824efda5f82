SPECIFICATION FairSpec
CONSTANTS
  NDevices = 3
  MaxStamp = 2
  Limit = 1
  Link <- Line
  Authors <- FirstTwo
  Replicas <- Device
  Readers <- OnlySecond
  MaxAsked = 1
  MaxLosses = 0
PROPERTIES
  Converges
CHECK_DEADLOCK FALSE

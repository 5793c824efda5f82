SPECIFICATION FairPushSpec
CONSTANTS
  NDevices = 2
  MaxStamp = 3
  Limit = 1
  Link <- Pair
  Authors <- OneAuthor
  Replicas <- Device
  Readers = {}
  MaxAsked = 1
  MaxLosses = 0
  Outbox = 2
  Chunk = 1
  Gossips = FALSE
CHECK_DEADLOCK FALSE
PROPERTIES
  Converges

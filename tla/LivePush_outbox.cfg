SPECIFICATION FairPushSpec
CONSTANTS
  NDevices = 3
  MaxStamp = 3
  Limit = 1
  Link <- Pair
  Authors <- OneAuthor
  Replicas <- Device
  Readers = {}
  MaxAsked = 1
  MaxLosses = 1
  Outbox = 2
  Chunk = 1
  Gossips = TRUE
CHECK_DEADLOCK FALSE
INVARIANTS
  PushTypeOK
  VVIsHighest
PROPERTIES
  MarkFollowsBroadcast
  EverythingBroadcast

SPECIFICATION FairSpec
CONSTANTS
  a = a
  b = b
  App <- TwoCalls
  MaxNodes = 2
  MaxEvents = 3
  Commands = 1
  Ring = 1
CHECK_DEADLOCK FALSE
INVARIANTS
  LifecycleTypeOK
  OneNode
PROPERTIES
  HeardInOrder
  CallsReturn
  StopsForGood
  LastWordHeard

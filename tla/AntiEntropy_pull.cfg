SPECIFICATION FairSpec
CONSTANTS
  NDevices = 4
  MaxStamp = 2
  Limit = 1
  Link <- Line
  Authors <- FirstAndThird
  Replicas <- AllButLast
  Readers <- OnlyFirst
  MaxAsked = 1
  MaxLosses = 1
INVARIANTS
  TypeOK
  NothingSkipped
  AnswersFit
PROPERTIES
  Implements
  ReadOnlyContained
  Converges
CHECK_DEADLOCK FALSE

SPECIFICATION Spec
CONSTANTS
  MaxWall = 4
  MaxCounter = 3
  MaxDrift = 1
INVARIANTS
  TypeOK
  NothingAhead
  NotPoisoned
  FlatAgrees
PROPERTIES
  Progress

SPECIFICATION FairSpec
CONSTANTS
  ada = ada
  bob = bob
  cyd = cyd
  seed = seed
  c1 = c1
  c2 = c2
  Absent <- Bob
  MaxInvites = 2
  MaxNow = 2
  InviteTtl = 0
  CertTtl = 2
  ClockSetBack = FALSE
  Seed = seed
  Phones <- Ada
  Conn <- TwoConns
  Overlaps = FALSE
  MaxFaults = 1
CHECK_DEADLOCK FALSE
INVARIANTS
  TypeOK
  NewerNamesMore
  NoPeerWithoutConnection
PROPERTIES
  RevocationsStick
  NoneAdmittedListed
  Admission

CONSTANTS
  g1 = g1
  g2 = g2
  Gens <- MCGens
  NoGen = NoGen
  ErrNum = 1
  ErrDen = 2
  MaxConns = 2
  MaxFrames = 4
  MaxStages = 3
SPECIFICATION FairSupSpec
INVARIANTS
  SupTypeOK
  ProvedBeforeActive
  RollbackNeedsMisbehaviour
  OrderAfterSwitch
PROPERTIES
  UnauthenticatedReleased

CONSTANTS
  g1 = g1
  g2 = g2
  Gens <- MCGens
  NoGen = NoGen
  ErrNum = 0
  ErrDen = 1
  MaxConns = 2
  MaxFrames = 4
  MaxStages = 3
SPECIFICATION SupSpec
PROPERTY ReportOnlyMoreCautious

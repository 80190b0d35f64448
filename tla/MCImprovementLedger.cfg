CONSTANTS
  p1 = p1
  p2 = p2
  b1 = b1
  Procs <- MCProcs
  Blobs <- MCBlobs
  NoBlob = NoBlob
  MaxBlocks = 3
  MaxReads = 2
  MaxFaults = 1
SPECIFICATION LedgerSpec
SYMMETRY MCSymmetry
INVARIANTS
  OneChain
  AckedInLedger
  RootDeterminesPrefix
  AuditAlarmsAreReal
PROPERTIES
  AppendOnly

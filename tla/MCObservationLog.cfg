CONSTANTS
  i1 = i1
  i2 = i2
  b1 = b1
  b2 = b2
  Ids <- MCIds
  Statuses <- MCStatuses
  Success = "success"
  Bindings <- MCBindings
  MaxLines = 5
SPECIFICATION Spec
INVARIANTS
  AckedDurable
  CorruptionNeedsIgnoredError
  SealedHoldsAllAcked
  SeenCoversFile
PROPERTIES
  SealedContentFinal
  ImplementsEvidenceStore

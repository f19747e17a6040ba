\* A dump, of which any reads fail, and live targets that allocate and collect.
SPECIFICATION FairSpec
CONSTANTS
  s1 = s1
  s2 = s2
  s3 = s3
  l1 = l1
  h1 = h1
  h2 = h2
  SegIds = {s1, s2, s3, l1}
  HeapIds = {h1, h2}
  Null = Null
  NoObject = NoObject
  Top = 25
  WordSize = 2
  MaxBatch = 2
  Images <- AllImages
  Steps <- AllSteps
INVARIANTS
  TypeOK
  Delivery
  ScanForward
  FullBatches
  ReportsTheHeap
PROPERTIES
  AbortIsFinal
  StreamSpec
  Terminates
CHECK_DEADLOCK FALSE

\* The arguments of !dumpstackobjects against its usage line.
SPECIFICATION FairSpec
CONSTANTS
  s1 = s1
  s2 = s2
  s3 = s3
  l1 = l1
  h1 = h1
  h2 = h2
  SegIds = {s1, s2, s3, l1}
  HeapIds = {h1, h2}
  Null = Null
  NoObject = NoObject
  Top = 25
  MaxBatch = 2
  LastSlot = 7
  Images <- WholeImages
  Steps = {}
  Stacks <- WholeStacks
  Requests <- UsageRequests
INVARIANTS
  ScansTheGivenLimits
CHECK_DEADLOCK FALSE

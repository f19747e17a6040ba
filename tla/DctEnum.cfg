\* Every type of dictionary in a dump, with any one failing read, and in live
\* targets that add entries, and remove and move them.
SPECIFICATION FairSpec
CONSTANTS
  A = A
  B = B
  ab = ab
  abc = abc
  d = d
  v1 = v1
  v2 = v2
  Nodes = {1, 2, 3, 4, 5, 6, 7, 8, 11, 12, 13, 14, 15, 16}
  Arrays = {A, B}
  Keys = {ab, abc, d}
  Extends <- StartsWith
  Values = {v1, v2}
  Hashes = {0, 1, 2, 3, 8, 9}
  Null = Null
  MaxBatch = 2
  Images <- AllImages
  Steps <- AllSteps
  Requests <- AllRequests
INVARIANTS
  EntriesReported
  ValueFound
PROPERTIES
  StreamSpec
  Terminates
CHECK_DEADLOCK FALSE

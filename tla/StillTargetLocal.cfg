\* Are the thread-local queues dumped as well?
SPECIFICATION Spec
CONSTANTS
  Null = Null
  Junk = Junk
  Nodes = {1, 2, 3}
  Contexts = {11, 12}
  Stamped = {11}
  Images <- DumpImages
  Queries = {"dump", "find"}
  LastId = 0
INVARIANT
  LocalQueuesDumped
CHECK_DEADLOCK FALSE

\* Every call that reads a target which stands still.
SPECIFICATION Spec
CONSTANTS
  Null = Null
  Junk = Junk
  Nodes = {1, 2, 3}
  Contexts = {11, 12}
  Stamped = {11}
  Images <- DumpImages
  Queries = {"dump", "find"}
  LastId = 0
INVARIANTS
  MembersFound
  ExpressionsMeant
  PoolsReported
  RequestsShown
PROPERTIES
  Terminates
CHECK_DEADLOCK FALSE

\* Enumerations over a target that goes on running.
SPECIFICATION Spec
CONSTANTS
  Null = Null
  Junk = Junk
  Nodes = {1, 2, 3}
  Contexts = {11}
  Stamped = {}
  Images <- LiveImages
  Queries = {"dump", "find"}
  LastId = 5
INVARIANTS
  ItemsReported
  ThreadsSeen
  ConnectionsShown
CHECK_DEADLOCK FALSE

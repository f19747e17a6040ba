\* The static tables: the fields of delegates, the types of proxies.
SPECIFICATION CachesSpec
CONSTANTS
  Calls = {1, 2}
  Types <- DelegateTypes
  Objects <- DelegateObjects
  Methods = {1, 2}
  FromIP <- IPs
  Header <- Headers
  Threads = {1, 2, 3}
  Targets = {"a", "b"}
  PrimitiveList <- SomePrimitives
  MT <- TwoTargets
  AtFirst <- AnyLoaded
  Accesses <- AllAccesses
INVARIANTS
  DelegatesRight
  TablesSettle
PROPERTIES
  NoneMisled
  Served
CHECK_DEADLOCK FALSE

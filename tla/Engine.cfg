\* The debugger engine: its current thread, and its targets.
SPECIFICATION EngineSpec
CONSTANTS
  None = None
  Commands = command
  Callers = {command, script}
  SystemId <- ThreeThreads
  WithSlots = {0, 1}
  Running = {11, 13}
  SystemIds <- SomeIds
  Operations <- AllOperations
  MaxCalls = 2
  Nothing = Nothing
  Clients = {b1, b2}
  OfCommand = ofcommand
  Targets = {dump, proc, proc2}
  Dumps = {dump}
  Clr = {dump, proc}
  Paths = {p1}
  MaxUses = 4
SYMMETRY Alike
INVARIANTS
  ThreadAnswers
  BootAnswers
CHECK_DEADLOCK FALSE

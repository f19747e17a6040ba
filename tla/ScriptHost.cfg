\* Commands and forms side by side, with a DAC object that several share.
SPECIFICATION FairSpec
CONSTANTS
  scriptit1 = scriptit1
  scriptit2 = scriptit2
  threads = threads
  dumpmd = dumpmd
  dacA = dacA
  dacB = dacB
  None = None
  Commands = {scriptit1, scriptit2, threads, dumpmd}
  Forms = {scriptit1, scriptit2}
  Dacs = {dacA, dacB}
  DacOf <- SharedDac
INVARIANTS
  TypeOK
  BufferReadInTime
  UsableUntilDisposed
  NothingLeaks
PROPERTIES
  CommandReturns
CHECK_DEADLOCK FALSE

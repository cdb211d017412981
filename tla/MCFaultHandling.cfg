SPECIFICATION Spec
CONSTANTS
  Threshold = 4
  Script <- MCScript
  Thread = {t1, t2}
  FaultSites <- MCFaultSites
  ForeignLimit = 1
SYMMETRY Threads
INVARIANTS
  ChangedBytesAttributed
  NamesThePatcher
  OneCrashPerThread

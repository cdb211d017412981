CONSTANTS
  Callers = {c1, c2}
  Starts <- MCStarts
  EmptyThread = EmptyThread
  MaxPolls = 1
SPECIFICATION Spec
INVARIANTS
  LostOnlyInWindows
  NothingLeft
PROPERTIES
  InitEnds
  DetachEnds
CHECK_DEADLOCK FALSE

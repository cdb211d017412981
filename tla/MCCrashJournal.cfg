CONSTANTS
  Hooks <- MCHooks
  MaxSessions = 3
  MaxRunning = 2
  MaxInstalls = 2
SPECIFICATION Spec
CONSTRAINT FewInstalls
INVARIANTS
  ReportedOnce
PROPERTIES
  ReportIsTrue
  NothingForgotten
  KeepsSessionRecord
CHECK_DEADLOCK FALSE

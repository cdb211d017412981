CONSTANTS
  MaxSaves = 3
  MaxOthers = 3
  Cap = 2
SPECIFICATION Spec
INVARIANTS
  TypeOK
  QuietMeansCurrent
PROPERTIES
  SavesAreReloaded
  StopEndsTheLoop
CHECK_DEADLOCK FALSE

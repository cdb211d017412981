CONSTANTS
  MaxSaves = 1
  MaxOthers = 1
  Cap = 2
SPECIFICATION Spec
PROPERTY EveryEditIsReloaded
CHECK_DEADLOCK FALSE

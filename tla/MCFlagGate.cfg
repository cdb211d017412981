CONSTANTS
  MaxObjects = 2
  Aspects = {1, 3}
  DefaultAspect = 2
  MaxChanges = 2
  Stretches = {0, 1}
  Modes <- MCModes
  Targets = {0, 30, 60}
  StockRate = 64
  Limits = {"none", "cap60", "cap120"}
  ReportedModes <- MCReported
  Russian = "Russian"
  Korean = "Korean"
  ChineseTrad = "ChineseTrad"
  AllMenu <- MCAllMenu
  IniLanguages <- MCIniLanguages
  Copies <- MCCopies
  NoLanguage = "None"
SPECIFICATION MCSpec
INVARIANT GateNoppedToUncap
CHECK_DEADLOCK FALSE

CONSTANTS
  MaxN = 3
  N = 3
  Hard <- MCHard
  Soft <- MCSoft
  InstallOrder <- MCInstallOrder
  HasOnReload = {1, 3}
  Value = {"dflt", "v"}
  Default = "dflt"
  Absent = Absent
  IniFiles <- MCIniFiles
SPECIFICATION MCSpec
INVARIANTS
  PlacedAfterDeps
  AcceptsExactlyAcyclic
  CascadeIsLargestClosed
  HardDepsSettled
  PassHonoursIni
  FlickersOnlyInCascade
  AppliedIsCurrent
  JournalListsInstalled
PROPERTIES
  BothFinish
  PassesEnd
CHECK_DEADLOCK FALSE

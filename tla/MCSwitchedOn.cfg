CONSTANTS
  MaxN = 3
  N = 3
  Hard <- MCHard
  Soft <- MCSoft
  InstallOrder <- MCInstallOrder
  HasOnReload = {1, 3}
  Value = {"dflt", "v"}
  Default = "dflt"
  Absent = Absent
  IniFiles <- MCIniFiles
SPECIFICATION MCSpec
INVARIANT SwitchedOnWorks
CHECK_DEADLOCK FALSE

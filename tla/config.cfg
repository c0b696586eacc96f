SPECIFICATION ConfigSpec
CONSTANTS
  Users = {u1, u2}
  Values = {"v", "w"}
  NoFile = NoFile
  Torn = Torn
  Unusable = Unusable
  u1 = u1
  u2 = u2
  Faults = {"cli", "io"}
  DefaultPort = "w"
  MaxCalls = 2
SYMMETRY Symmetry
INVARIANT ConfigTypeOK
INVARIANT FilesStayWhole
INVARIANT ShownIsStrongest
PROPERTY OnlyValidSaved
PROPERTY SettingsSurviveMigration
PROPERTY SetTouchesOnlyItsKeys
CHECK_DEADLOCK FALSE

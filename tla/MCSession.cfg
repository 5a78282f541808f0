SPECIFICATION Spec
CONSTANTS
  Configs <- MCConfigs
  Listings <- MCListings
  Modes = {"poison", "reorder"}
  Absent = Absent
  Failures = TRUE
  MaxActs = 2
INVARIANTS TypeOK OnlyPinnedToolsPass NoFalseAlarm DiffNamesTheChange AuditSurvivesFaults
PROPERTY RequestsEnd

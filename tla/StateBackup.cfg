CONSTANTS
  MaxSerial = 2
  MaxLives = 2
  Faults = {"chain", "backup", "restore", "status"}
  Overlap = FALSE
SPECIFICATION Spec
INVARIANTS
  TypeOK
  BackupSerialIsTruthful
  ReportedStateIsBackedUp
PROPERTIES
  StateNeverRegresses
CHECK_DEADLOCK FALSE

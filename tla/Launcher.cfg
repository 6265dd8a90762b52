CONSTANTS
  TimesOut = {"reconcile", "exit", "run"}
  Faults = {"archive", "run", "approve", "stream", "lock file", "interrupt", "delete"}
SPECIFICATION FairSpec
INVARIANTS
  NothingIsLeftBehind
  ReportIsTruthful
PROPERTIES
  EndsUnlessRunIsLate
CHECK_DEADLOCK FALSE

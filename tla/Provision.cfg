SPECIFICATION Spec
CONSTANTS
  Existing = {"account", "binding"}
  Taken = {FALSE}
  Lag = {"pvc", "pod"}
  Crashes = 1
  Faults = {"evict", "delete"}
INVARIANTS NothingIsLeftBehind SuccessIsTold
CHECK_DEADLOCK FALSE

SPECIFICATION FairSpec
CONSTANTS
  Existing = {"account", "binding"}
  Taken = {TRUE}
  Lag = {"role", "pvc", "pod"}
  Crashes = 0
  Faults = {"api", "state", "lose", "drain", "delete"}
INVARIANT ReadyWorkspaceIsComplete
PROPERTIES ReportSettles NothingOutlivesTheWorkspace
CHECK_DEADLOCK FALSE

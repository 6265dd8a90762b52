CONSTANTS
  Deliveries = {d1, d2}
  Workspaces = {w1, w2}
  Connected = {w1}
  Faults = {"clone", "crash"}
SPECIFICATION FairSpec
INVARIANTS
  RerequestsAreDistinct
  VerdictIsKept
  RunsHaveWholeTrees
PROPERTIES
  ConnectedWorkspacesAreChecked
CHECK_DEADLOCK FALSE

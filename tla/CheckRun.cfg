CONSTANTS
  MaxRequests = 2
  Faults = {"archive", "logs", "create", "crash"}
SPECIFICATION Spec
INVARIANTS
  TypeOK
  OneCheckRunOnGitHub
  IterationsAreTruthful
  AppliesWereRequested
  NoNewsIsLost
  ApplyIsOfferedAfterPlan
PROPERTIES
  GitHubNeverRegresses
CHECK_DEADLOCK FALSE

SPECIFICATION FairSpec
CONSTANTS
  Length = 3
  Keys = 3
  Faults = {"unpack", "stdin", "stray", "read", "api", "kill", "delete"}
INVARIANTS TypeOK CommandStartsPrepared NothingTypedIsLost LockFileArrives
PROPERTY RunnerEnds
CHECK_DEADLOCK FALSE

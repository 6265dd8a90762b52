CONSTANTS
  a = a
  b = b
  Runs = {a, b}
  Queueable = {a, b}
  Privileged = {b}
  Deletable = {a}
  TimesOut = {"enqueue", "queue", "pending"}
  Resync = TRUE
  Lag = {"workspace", "runs", "pods"}
SPECIFICATION Spec
INVARIANTS
  TypeOK
  PodsAreApproved
  StatusFollowsPod
PROPERTIES
  DoneIsFinal
CHECK_DEADLOCK FALSE

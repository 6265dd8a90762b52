CONSTANTS
  a = a
  b = b
  c = c
  Runs = {a, b, c}
  Queueable = {a, b, c}
  Privileged = {}
  Deletable = {}
  TimesOut = {"enqueue", "queue"}
  Resync = TRUE
  Lag = {"runs", "pods"}
SPECIFICATION Spec
SYMMETRY Symmetry
INVARIANT LoopRebuildsQueue
PROPERTIES
  ImplementsQueue
CHECK_DEADLOCK FALSE

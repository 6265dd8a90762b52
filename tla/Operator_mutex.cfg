CONSTANTS
  a = a
  b = b
  Runs = {a, b}
  Queueable = {a, b}
  Privileged = {}
  Deletable = {}
  TimesOut = {}
  Resync = TRUE
  Lag = {"workspace"}
SPECIFICATION Spec
INVARIANT
  MutualExclusion
CHECK_DEADLOCK FALSE

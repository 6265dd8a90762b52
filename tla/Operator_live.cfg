CONSTANTS
  a = a
  b = b
  Runs = {a, b}
  Queueable = {a, b}
  Privileged = {}
  Deletable = {}
  TimesOut = {}
  Resync = FALSE
  Lag = {"runs", "pods"}
SPECIFICATION FairSpec
PROPERTIES
  EveryRunCompletes
CHECK_DEADLOCK FALSE

SPECIFICATION Spec
CONSTANTS
  Entries = {mail}
  Totps = {mail}
  Workers = {w1}
  Timeouts = {1, 2}
  TimerPeriod = 2
  MaxDelay = 1
  MaxKeys = 2
  MaxSignals = 2
  OtherProcesses = FALSE
PROPERTY StoresAreReadable
CHECK_DEADLOCK FALSE

SPECIFICATION FairSpec
CONSTANTS
  Entries = {mail}
  Totps = {}
  Workers = {w1, w2}
  Timeouts = {1, 3}
  TimerPeriod = 2
  MaxDelay = 1
  MaxKeys = 1
  MaxSignals = 2
  OtherProcesses = TRUE
INVARIANTS
  TypeOK
  LockClosesSession
  KeyAgeBounded
PROPERTIES
  SignalLocks
  LockedGoesQuiet
  UnlockedEnds
CHECK_DEADLOCK FALSE

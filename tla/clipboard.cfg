SPECIFICATION FairCopying
CONSTANTS
  MaxHolds = 3
  MaxReads = 2
  Preempted = FALSE
INVARIANTS
  TypeOK
  PasteOnce
  NoLostWakeup
  NoSpentSecretAtRest
  OfferMatchesHeld
  DoneExact
  NoSecretForManagers
  ThrowawayGone
PROPERTIES
  ImplementsOneShot
  HoldServed
  PastedIsWithdrawn
  LockWithdraws
  ProbeEnds
CHECK_DEADLOCK FALSE

SPECIFICATION Spec
CONSTANTS
  MaxHolds = 2
  MaxReads = 1
PROPERTY UnreadIsKept
CHECK_DEADLOCK FALSE

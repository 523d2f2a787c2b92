SPECIFICATION Spec
CONSTANTS
  Procs = {p1, p2}
  NoFile = NoFile
INVARIANT ActivatedIsShown
CHECK_DEADLOCK FALSE

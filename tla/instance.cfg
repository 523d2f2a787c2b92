SPECIFICATION FairSpec
CONSTANTS
  Procs = {p1, p2, p3}
  NoFile = NoFile
INVARIANTS TypeOK OrderlyExitLeavesNoFile NobodyForgotten
PROPERTY EveryWaitEnds
CHECK_DEADLOCK FALSE

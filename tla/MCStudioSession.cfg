SPECIFICATION LiveSessionSpec
CONSTANTS
  p1 = p1
  p2 = p2
  p3 = p3
  p4 = p4
  Procs <- MCProcs
  LoudProcs <- MCLoudProcs
  Nobody = Nobody
INVARIANTS
  SessionTypeOK
  OneSessionPerRoot
  ServerIsFindable
PROPERTIES
  StopTellsTheTruth
  MarkedSessionBlocksStart
  EveryCommandEnds
\* Every invocation may have ended.
CHECK_DEADLOCK FALSE

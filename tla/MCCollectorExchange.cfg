SPECIFICATION LiveSpec
CONSTANTS
  Request = 2
  PipeSize = 1
  OutLimit = 2
  MaxOut = 3
  MaxErr = 2
  KillMayFail = TRUE
  Plans <- MCPlans
INVARIANTS
  TypeOK
  ResponseIsWhole
  NothingLeftBehind
  BadEndIsNamed
PROPERTIES
  ExchangeReturns
  NoPipeDeadlock
\* The exchange may have returned, and with it the behaviour ends.
CHECK_DEADLOCK FALSE

SPECIFICATION Spec
CONSTANTS
  t1 = t1
  t2 = t2
  Threads <- MCThreads
  MaxRuns = 2
  NoThread = NoThread
  Closer = Closer
SYMMETRY Symmetry
INVARIANTS
  TypeOK
  OneExploreAtATime
  RunningIsWaitedFor
  EndedRunIsServedWhole
  CompletenessIsHonest
  CachedSessionIsCurrent
  NoChildAfterClose
PROPERTIES
  ServiceSpec

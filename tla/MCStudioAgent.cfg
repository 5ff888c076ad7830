SPECIFICATION LiveAgentSpec
CONSTANTS
  Threads = {t1, t2}
  Nobody = Nobody
  MaxEdits = 2
INVARIANTS
  OneAgentAtATime
  NoAgentAfterClose
  EditIsNeverHidden
PROPERTIES
  EveryAskEnds

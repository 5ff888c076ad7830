SPECIFICATION StoriesFairSpec
CONSTANTS
  main = main
  h1 = h1
  Main = main
  Threads <- MCThreads
  MaxRuns = 2
  MaxRequests = 2
  NoThread = NoThread
  Closer = Closer
INVARIANTS
  ChatStoryIsOfOneSnapshot
  StoryCheckIsNotOlder
  DroppedOnlyWhenOvertaken
PROPERTIES
  EveryRequestEnds
  EveryRunEnds

CONSTANTS
  t1 = t1
  t2 = t2
  t3 = t3
  v1 = v1
  v2 = v2
  NoValue = NoValue
  Thread <- Threads
  MaxKey = 3
  Value <- Values
  Prefill <- Chain3
  NumNodes = 11
  Scripts <- TwoOrThreeThreads
SPECIFICATION FairSpec
INVARIANTS TypeOK NodesReclaimed
PROPERTIES FrozenWords DictionarySpec LockFree
CHECK_DEADLOCK FALSE

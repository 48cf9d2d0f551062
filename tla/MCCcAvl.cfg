CONSTANTS
  t0 = t0
  t1 = t1
  t2 = t2
  v1 = v1
  v2 = v2
  NoValue = NoValue
  Thread <- ThreeThreads
  Key <- EightKeys
  Value <- TwoValues
  GrowCounts = 2
  NumNodes = 9
  Scripts <- AvlScripts
SPECIFICATION FairSpec
INVARIANTS TypeOK QuiescentTree AssertionsHold SearchedNodesPinned
PROPERTIES UnlinkedIsFinal DictionarySpec EveryCallReturns

CONSTANTS
  t0 = t0
  t1 = t1
  t2 = t2
  v1 = v1
  v2 = v2
  NoValue = NoValue
  Thread <- FillerAndTwo
  Filler = t0
  DEGREE = 3
  Key <- ElevenKeys
  Value <- TwoValues
  AnyKey = 1
  NumNodes = 30
  MaxDepth = 6
  Scripts <- AllScripts
SPECIFICATION FairSpec
INVARIANTS TypeOK RelaxedTree ViolationsOwned NodesReclaimed FixAssertions
PROPERTIES DictionarySpec RebalancingEnds
CHECK_DEADLOCK FALSE

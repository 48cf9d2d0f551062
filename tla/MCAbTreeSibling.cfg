CONSTANTS
  t0 = t0
  t1 = t1
  t2 = t2
  v1 = v1
  v2 = v2
  NoValue = NoValue
  Thread <- FillerAndTwo
  Filler = t0
  DEGREE = 3
  Key <- ElevenKeys
  Value <- OneValue
  AnyKey = 1
  NumNodes = 30
  MaxDepth = 6
  Scripts <- SiblingScripts
SPECIFICATION Spec
INVARIANT ParentHasSibling
CHECK_DEADLOCK FALSE

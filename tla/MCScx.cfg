CONSTANTS
  t1 = t1
  t2 = t2
  f1 = f1
  None = None
  Thread <- TwoThreads
  NumNodes = 2
  Field <- OneField
  MaxScx <- TwoOne
SPECIFICATION Spec
INVARIANTS TypeOK HelpDecides NotAllFail
PROPERTIES MarkedIsFinal AtomicScxSpec
CHECK_DEADLOCK FALSE

CONSTANTS
  t1 = t1
  t2 = t2
  None = None
  Thread <- Threads
  NumWords = 2
  Value <- Values
  First <- Zero
  Scripts <- ThereAndBack
  MaxRdcss = 8
SPECIFICATION FairSpec
PROPERTY SortedProgress
CHECK_DEADLOCK FALSE

CONSTANTS
  None = None
  Thread <- TwoThreads
  Addr <- Words
  NumKeys = 2
  Present <- FirstKey
  Scripts <- OneDeletion
SPECIFICATION Spec
INVARIANT RangeQueryAtomic
CHECK_DEADLOCK FALSE

CONSTANTS
  None = None
  Locker = {1, 2, 3}
  Favored = "readers"
SPECIFICATION ProgressSpec
INVARIANT WriterAlone
PROPERTIES EpochAdvances AllEnd UpgradeKeepsOut
CHECK_DEADLOCK FALSE

CONSTANTS
  o1 = o1
  o2 = o2
  NUM_PROCESSES = 2
  Obj <- Objects
  BLOCK_SIZE = 1
  MIN_OPS_BEFORE_READ = 1
  MaxEpoch = 5
SPECIFICATION DriverSpec
SYMMETRY ObjectSymmetry
INVARIANTS SafeReclaim
CHECK_DEADLOCK FALSE

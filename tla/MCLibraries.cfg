CONSTANTS
  None = None
  NUM_PROCESSES = 2
  Obj = {o1}
  BLOCK_SIZE = 1
  MIN_OPS_BEFORE_READ = 1
  MaxEpoch = 4
SPECIFICATION LibrariesSpec
INVARIANTS SafeReclaim EpochLag CheckedInRange OwnedOnce RangeQueryAtomic HeldNotFreed BlocksOwnedOnce BagsInShape GracePeriod
PROPERTIES ReclamationSpec WordsAtomic PromiseKept
CHECK_DEADLOCK FALSE

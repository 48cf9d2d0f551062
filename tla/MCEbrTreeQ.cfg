CONSTANTS
  NUM_PROCESSES = 3
  Obj = {o1}
  BLOCK_SIZE = 1
  Ops <- TwoSiblings
  Writer = {2}
SPECIFICATION Spec
INVARIANTS ActiveToRoot
CHECK_DEADLOCK FALSE

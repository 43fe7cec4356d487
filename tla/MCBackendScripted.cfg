CONSTANTS
  N = 3
  Holds = {0, 4}
  Faults = {FALSE}
  Kinds = {"load", "store", "alu"}
  CommitStreams <- AllStreams
  Regs = {"a0"}
  None = None
  ISSUE_WIDTH = 2
  COMMIT_WIDTH = 2
  ROB_CAPACITY = 2
  max_cycles = 24
  load_miss_every = 2
  load_miss_penalty = 2
  TrapCauses = {"BRU_RECOVERY_NOT_BSTART"}
SPECIFICATION MCSpec
INVARIANTS
  MemoryOrder
  DataBeforeUse
PROPERTIES
  Refinement

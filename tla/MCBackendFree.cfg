CONSTANTS
  N = 2
  Holds = {0}
  Faults = {FALSE}
  Kinds = {"load", "store", "alu", "bypass"}
  CommitStreams <- AllStreams
  Regs = {"a0"}
  None = None
  ISSUE_WIDTH = 2
  COMMIT_WIDTH = 2
  ROB_CAPACITY = 2
  max_cycles = 13
  load_miss_every = 1
  load_miss_penalty = 2
  TrapCauses = {"BRU_RECOVERY_NOT_BSTART"}
SPECIFICATION Spec
INVARIANTS
  StageWidths
  CommitInOrder
  OnePlace
  OwnerQueues
  NoDataFromMiss

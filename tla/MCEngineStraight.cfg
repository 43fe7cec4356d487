CONSTANTS
  Programs <- StraightPrograms
  CommitStreams <- Streams
  Regs = {"a0", "ra", "sp"}
  None = None
  ISSUE_WIDTH = 2
  COMMIT_WIDTH = 1
  ROB_CAPACITY = 2
  READ_PORTS = 2
  IQ_CAPACITY = 1
  IQ_ENQUEUE_PORTS = 1
  FETCH_WIDTH = 2
  DISPATCH_WIDTH = 2
  max_cycles = 60
  load_miss_every = 1
  load_miss_penalty = 2
  N = 3
  TrapCauses = {"BRU_RECOVERY_NOT_BSTART", "SETRET_NOT_ADJACENT", "DYNAMIC_TARGET_MISSING", "DYNAMIC_TARGET_STALE", "DYNAMIC_TARGET_NOT_BSTART"}
SPECIFICATION EngineSpec

  
PROPERTIES
  FeedsIssueQueues

CONSTANTS
  Programs <- BlockAndTrapPrograms
  CommitStreams <- Streams
  Regs = {"a0", "ra", "sp"}
  None = None
  ISSUE_WIDTH = 4
  COMMIT_WIDTH = 4
  ROB_CAPACITY = 128
  READ_PORTS = 3
  IQ_CAPACITY = 32
  IQ_ENQUEUE_PORTS = 2
  FETCH_WIDTH = 4
  DISPATCH_WIDTH = 4
  max_cycles = 120
  load_miss_every = 0
  load_miss_penalty = 8
  N = 1
  TrapCauses = {"BRU_RECOVERY_NOT_BSTART", "SETRET_NOT_ADJACENT", "DYNAMIC_TARGET_MISSING", "DYNAMIC_TARGET_STALE", "DYNAMIC_TARGET_NOT_BSTART"}
SPECIFICATION EngineSpec
INVARIANTS
  BlocksReplay
  InOrderWindow
  NoWrongPath
  ResumesWhereStopped
  TrapInTime
  
PROPERTIES
  FlushDropsNothing

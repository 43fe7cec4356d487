CONSTANTS
  N = 3
  Holds = {0}
  Kinds = {"load", "store", "alu", "bypass"}
  CommitStreams <- AllStreams
  Regs = {"a0"}
  None = None
  ISSUE_WIDTH = 2
  COMMIT_WIDTH = 2
  ROB_CAPACITY = 3
  READ_PORTS = 2
  IQ_CAPACITY = 2
  IQ_ENQUEUE_PORTS = 1
  max_cycles = 30
  load_miss_every = 1
  load_miss_penalty = 3
  TrapCauses = {"BRU_RECOVERY_NOT_BSTART"}
SPECIFICATION MCSpec
INVARIANTS
  QTagOwners
  InflightIsPicked
  NoLostWakeup
  ReadyIsBacked

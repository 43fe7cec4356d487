SPECIFICATION FairSpec
CONSTANTS
  Images <- SmallImages
  entry_pc = 4096
  StackWords = 5
  max_steps = 12
CHECK_DEADLOCK FALSE
INVARIANTS
  StreamForm
  OwnSetup
PROPERTIES
  ReturnsRestore
  RunEnds

SPECIFICATION MCSpec
CONSTANTS
  Records <- MCRecords
  Streams <- MCStreams
  MaxCommits = 3
  MaxRows = 4
  MaxEvents = 6
CHECK_DEADLOCK FALSE
INVARIANTS
  FirstDivergence
  RecordsFit

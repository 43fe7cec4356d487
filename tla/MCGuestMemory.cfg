SPECIFICATION Spec
CONSTANTS
  PAGE_SIZE = 2
  BUNDLE = 2
  Images <- OneImage
  stack_top = 4
  stack_size = 2
  Top = 10
  BrkTargets = {0, 4, 5}
  CallAddrs = {0, 2, 4, 5, 6, 8}
  Hints = {2, 6}
  Sizes = {0, 1, 4}
  Prots <- MCProts
  StoreAddrs = {3, 6, 7}
  Payloads <- MCPayloads
  MayOverlap = FALSE
  None = None
INVARIANTS
  
  RangeMapped
  AccessesSee

  

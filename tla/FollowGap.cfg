SPECIFICATION Spec
CONSTANTS
  Blocks <- SmallBlocks
  Start <- OneSpend
  Window = 2
  MaxHeight = 4
  MaxReorgs = 0
  MaxDepth = 2
  MaxMisses = 1
  MaxRestarts = 0
  Interrupted = FALSE
INVARIANTS
  MissingAreRetried

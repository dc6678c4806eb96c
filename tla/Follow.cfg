SPECIFICATION Spec
CONSTANTS
  Blocks <- FewBlocks
  Start <- OneSpend
  Window = 2
  MaxHeight = 4
  MaxReorgs = 1
  MaxDepth = 2
  MaxMisses = 1
  MaxRestarts = 1
  Interrupted = TRUE
INVARIANTS
  Tracks
  RollbackReady

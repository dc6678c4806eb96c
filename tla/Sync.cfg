SPECIFICATION FairSpec
CONSTANTS
  Lo = 0
  Hi = 9
  Names = {1, 2}
  Procs = {"listener", "command"}
  Uses <- SmallUses
  Keep = 1
  MaxSpends = 3
  MaxCounter = 1
INVARIANTS
  SyncedRows
  OneTip
  NeighborsBracket
PROPERTIES
  Converges

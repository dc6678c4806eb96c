SPECIFICATION Spec
CONSTANTS
  alice = alice
  bob = bob
  Nobody = nobody
  Handles = {1, 2}
  Owners = {alice, bob}
  Blocks <- SmallBlocks
  Starts <- SmallStarts
  Window = 2
  Finality = 2
  EventsMax = 4
  MaxHeight = 4
  MaxReorgs = 1
  MaxDepth = 2
  MaxMisses = 1
  MaxStops = 1
  MaxFaults = 2
INVARIANTS
  ProjectionFollowsChain
  FollowedWhileReferenced
  NeverOvercounts
  OfferedIsExecutable

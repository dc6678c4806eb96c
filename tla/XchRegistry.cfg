SPECIFICATION Spec
CONSTANTS
  Handles = {1, 2}
  Lo = 0
  Hi = 9
  Owners = {"alice", "bob"}
  Nobody = "nobody"
  States <- TwoStates
  InitState <- StateA
  Offers <- AuctionOffers
  Precommit <- AuctionPrecommits
  Period = 2
  Forever = 99
  RelHeight = 1
  Leads = {1}
  BlockTimes = {1}
  MaxTime = 3
  MaxExpiration = 4
  MaxCoin = 2
  MaxCounter = 3
  MaxUpdates = 0
  MaxOracle = 0
  MaxOwnSpend = 0
INVARIANTS
  TypeOK
  HandleList
  StrandedOnlyByExpiry
PROPERTIES
  RefundOnlyUnusable
  PaidOnlyForFreeHandle
  ImplementsLease
CHECK_DEADLOCK FALSE

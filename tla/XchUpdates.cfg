SPECIFICATION Spec
CONSTANTS
  Handles = {1}
  Lo = 0
  Hi = 9
  Owners = {"alice", "bob"}
  Nobody = "nobody"
  States <- OneState
  InitState <- StateA
  Offers <- UpdateOffers
  Precommit <- UpdatePrecommits
  Period = 1
  Forever = 99
  RelHeight = 1
  Leads = {1}
  BlockTimes = {1}
  MaxTime = 4
  MaxExpiration = 4
  MaxCoin = 3
  MaxCounter = 3
  MaxUpdates = 2
  MaxOracle = 1
  MaxOwnSpend = 1
PROPERTIES
  TransfersAreDelayed
  ImplementsLease
CHECK_DEADLOCK FALSE

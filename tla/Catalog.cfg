SPECIFICATION Spec
CONSTANTS
  AssetIds = {1, 2, 3}
  Lo = 0
  Hi = 9
  Owners = {"alice", "bob"}
  States <- ThreeStates
  InitState <- StateA
  Offers <- MixedOffers
  Precommit <- MixedPrecommits
  RelHeight = 1
  MaxHeight = 2
  MaxCounter = 4
INVARIANTS
  TypeOK
  AssetList
  OneNftPerAsset
  RegisterOrRefund
PROPERTIES
  ImplementsUnique
CHECK_DEADLOCK FALSE

SPECIFICATION FairSpec
CONSTANTS
  h = h
  g = g
  a = a
  b = b
  Nobody = nobody
  Procs = {p, q}
  Workloads <- SmallWorkloads
  Holders = {h, g}
  Wallet = {h}
  Assets = {a, b}
  Listed <- SmallListed
  Deposits = {d}
  First = 1
  EpochLen = 2
  Slack = 0
  MaxOffset = 1
  MaxCoins = 1
CHECK_DEADLOCK FALSE
INVARIANTS
  TypeOK
  SharesMatchLocks
  RecoverableUnlessRaced
  SearchEnds
PROPERTIES
  StakedAtListedWeight
  PendingKept
  AcceptedCompletes

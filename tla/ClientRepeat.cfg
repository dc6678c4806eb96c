SPECIFICATION Spec
CONSTANTS
  Clients = {"a", "b"}
  Workloads <- Repeat
  Prices = {"p", "q"}
  Period = 3
  RelHeight = 1
  Slack = 1
  Lead = 1
INVARIANTS
  SameCommandFinds
CHECK_DEADLOCK FALSE

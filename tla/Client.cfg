SPECIFICATION Spec
CONSTANTS
  Clients = {"a", "b"}
  Workloads <- Jobs
  Prices = {"p", "q"}
  Period = 3
  RelHeight = 1
  Slack = 1
  Lead = 1
INVARIANTS
  OneOutstanding
  Recoverable
  ReadyWhenPushed
CHECK_DEADLOCK FALSE

SPECIFICATION PublisherSpec
CONSTANTS
  Dirs = {A, B}
  Ports = {1, 2}
  Names = {x}
  None = None
  Clients = {c1, c2}
  Ops = {"deploy", "standby", "subscriber", "start", "stop", "restart", "destroy", "promote", "publish", "subscribe", "set"}
  Faults = {"cli", "server", "child", "slow", "rm"}
  Disciplined = FALSE
  PortBase = 1
  PortRange = 2
  Asked = {2}
  MaxCalls = 3
INVARIANT TypeOK
INVARIANT CallsWellFormed
INVARIANT RecordedConfigIsValid
PROPERTY EveryCommandReturns
CHECK_DEADLOCK FALSE

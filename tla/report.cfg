SPECIFICATION ReportSpec
CONSTANTS
  Dirs = {A, B}
  Ports = {1, 2}
  Names = {x}
  None = None
  Clients = {c1, c2}
  Ops = {"deploy", "destroy"}
  Faults = {"cli", "rm", "slow", "reboot"}
  Disciplined = TRUE
  PortBase = 1
  PortRange = 2
  Asked = {}
  MaxCalls = 3
  Signals = TRUE
SYMMETRY Symmetry
INVARIANT ReportTypeOK
INVARIANT ReportIsOwn
PROPERTY LoadsOwnThrowaway
PROPERTY LeftoverIsNamed
PROPERTY FailureCleansUp
CHECK_DEADLOCK FALSE

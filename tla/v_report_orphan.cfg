SPECIFICATION ReportSpec
CONSTANTS
  Dirs = {A}
  Ports = {1}
  Names = {x}
  None = None
  Clients = {c1, c2}
  Ops = {"stop"}
  Faults = {"slow"}
  Disciplined = TRUE
  PortBase = 1
  PortRange = 1
  Asked = {}
  MaxCalls = 1
  Signals = FALSE
PROPERTY DestroyOnFailureDestroys
CHECK_DEADLOCK FALSE
